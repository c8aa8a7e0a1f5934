---------------------------- MODULE MemoryProofs ----------------------------
(***************************************************************************)
(* Proofs about Memory: for any number of frames, processes, tables and     *)
(* requests a frame is marked used exactly when one page table entry maps   *)
(* it, it holds the image or it was leaked, and every directory is whole.   *)
(* Accounts is what FramesExact says of four values, so that a step that    *)
(* clears entries and then fills others is two applications of a lemma.     *)
(***************************************************************************)
EXTENDS Memory, FiniteSetTheorems, WellFoundedInduction, TLAPS

\* The system call in progress stays inside its region; while the heap grows, every
\* directory and table lies below the new pages.
JobOK ==
  /\ job.kind = "heap" =>
       /\ job.from + job.n = data_end /\ job.i <= job.n
       /\ \A p \in Procs : \A k \in KernelPages(p) : k < job.from
  /\ job.kind \in {"brk", "mmap"} => job.from + job.n < UMax /\ job.i <= job.n
  /\ job.kind = "fork" => job.p # job.c

\* The inductive invariant.
MInv == MemoryExact /\ JobOK

\* FramesExact of a bitmap, the entries of the kernel and of the processes, and
\* the leaked frames.
Accounts(us, kp, up, lo) ==
  /\ us \subseteq Frames /\ lo \subseteq Frames
  /\ kp \in [KPages -> Frames \cup {None}] /\ up \in [Procs -> [UPages -> Frames \cup {None}]]
  /\ \A k, l \in KPages : kp[k] # None /\ kp[k] = kp[l] => k = l
  /\ \A p, q \in Procs, u, v \in UPages : up[p][u] # None /\ up[p][u] = up[q][v] => p = q /\ u = v
  /\ \A k \in KPages : kp[k] \notin lo /\ kp[k] \notin Reserved
  /\ \A p \in Procs, u \in UPages : up[p][u] \notin lo /\ up[p][u] \notin Reserved
  /\ \A k \in KPages, p \in Procs, u \in UPages : kp[k] # None => kp[k] # up[p][u]
  /\ lo \cap Reserved = {}
  /\ \A f \in Frames : f \in us <=> \/ f \in Reserved \/ f \in lo
                                    \/ \E k \in KPages : kp[k] = f
                                    \/ \E p \in Procs, u \in UPages : up[p][u] = f

\* None is no frame and no page.
LEMMA NoneIsNone ==
  /\ None \notin Frames /\ None \notin KPages /\ Frames \subseteq Nat /\ KPages \subseteq Nat /\ UPages \subseteq Nat
  /\ Reserved \subseteq Frames
BY DEF None, Frames, KPages, UPages, Reserved

\* There are finitely many frames.
LEMMA FiniteFrames == \A S \in SUBSET Frames : IsFiniteSet(S) /\ Cardinality(S) \in Nat
<1>1. WordBits * Words \in Nat
  BY SizeAssumption
<1>2. IsFiniteSet(Frames)
  BY <1>1, FS_Interval DEF Frames
<1> QED
  BY <1>2, FS_Subset, FS_CardinalityType

\* First is the least element.
LEMMA FirstIn == ASSUME NEW S \in SUBSET Nat, S # {} PROVE First(S) \in S
<1>1. PICK x \in S : \A y \in S : ~(<<y, x>> \in OpToRel(<, Nat))
  BY NatLessThanWellFounded, WFMin, ZenonT(60)
<1>2. ASSUME NEW y \in S PROVE x <= y
  <2>1. OpToRel(<, Nat) = {ss \in Nat \X Nat : ss[1] < ss[2]}
    BY Zenon DEF OpToRel
  <2>2. y < x => <<y, x>> \in {ss \in Nat \X Nat : ss[1] < ss[2]}
    OBVIOUS
  <2>3. ~(y < x)
    BY <1>1, <2>1, <2>2, ZenonT(60)
  <2> QED
    BY <2>3
<1>3. \E z \in S : \A y \in S : z <= y
  BY <1>2
<1> QED
  BY <1>3, ZenonT(60) DEF First

\* get_free_frames returns numbers of frames, and a single one is free.
LEMMA FreeFrames ==
  ASSUME used \subseteq Frames, NEW n \in Nat \ {0}, get_free_frames(n) # None
  PROVE  LET f == get_free_frames(n)
         IN  /\ f \in Nat /\ \A g \in f..(f + n - 1) : g \in Frames
             /\ n = 1 => f \in Frames \ used
<1> DEFINE free == Frames \ used
           seen == {f \in Frames : WordOf(f) >= 1 /\ \E g \in free : WordOf(g) = WordOf(f)}
           Run(e) == {g \in seen : g <= e /\ \A h \in seen \ free : h < g \/ e < h}
           ends == {e \in seen : Cardinality(Run(e)) >= n}
           e == First(ends)
<1>1. get_free_frames(n) = IF ends = {} THEN None ELSE e - (n - 1)
  BY DEF get_free_frames
<1>2. ends # {} /\ get_free_frames(n) = e - (n - 1)
  BY <1>1, ZenonT(60)
<1>3. e \in ends
  <2>1. ends \in SUBSET Nat
    BY NoneIsNone, ZenonT(60)
  <2> HIDE DEF ends
  <2> QED
    BY <1>2, <2>1, FirstIn
<1>4. e \in seen /\ Cardinality(Run(e)) >= n
  BY <1>3, ZenonT(60)
<1>5. e \in Frames /\ e \in Nat /\ e <= WordBits * Words - 1 /\ WordBits * Words \in Nat
  BY <1>4, SizeAssumption, NoneIsNone DEF Frames
<1> HIDE DEF e
<1>6. Run(e) \subseteq 0..e /\ seen \subseteq Nat
  <2>1. seen \subseteq Nat
    BY NoneIsNone, ZenonT(60)
  <2> HIDE DEF seen
  <2>2. ASSUME NEW g \in Run(e) PROVE g \in 0..e
    <3>1. g \in seen /\ g <= e
      OBVIOUS
    <3> QED
      BY <1>5, <2>1, <3>1
  <2> HIDE DEF Run
  <2> QED
    BY <2>1, <2>2
<1>7. Cardinality(Run(e)) <= e + 1
  <2>1. IsFiniteSet(0..e) /\ Cardinality(0..e) = e + 1
    BY <1>5, FS_Interval
  <2> HIDE DEF Run
  <2>2. Cardinality(Run(e)) <= Cardinality(0..e)
    BY <1>6, <2>1, FS_Subset, ZenonT(60)
  <2> QED
    BY <2>1, <2>2
<1>8. Cardinality(Run(e)) \in Nat
  <2>1. IsFiniteSet(0..e)
    BY <1>5, FS_Interval
  <2> HIDE DEF Run
  <2>2. IsFiniteSet(Run(e))
    BY <1>6, <2>1, FS_Subset, ZenonT(60)
  <2> QED
    BY <2>2, FS_CardinalityType
<1>9. e - (n - 1) \in Nat
  <2> HIDE DEF Run
  <2> QED
    BY <1>4, <1>5, <1>7, <1>8
<1>10. \A g \in (e - (n - 1))..e : g \in Frames
  BY <1>5, <1>9 DEF Frames
<1>11. (e - (n - 1)) + n - 1 = e
  BY <1>5
<1>12. n = 1 => e \in Frames \ used
  <2> SUFFICES ASSUME n = 1, e \notin free PROVE FALSE
    BY <1>5
  <2>1. \A g \in seen : ~(g <= e /\ \A h \in seen \ free : h < g \/ e < h)
    BY <1>4, <1>5, <1>6
  <2>2. Run(e) = {}
    BY <2>1
  <2>3. Cardinality({}) = 0
    BY FS_EmptySet
  <2> HIDE DEF Run
  <2> QED
    BY <1>4, <2>2, <2>3
<1> QED
  BY <1>2, <1>5, <1>9, <1>10, <1>11, <1>12

\* The same in the words of FramesExact: sets of frames.
Booked(us, kp, up, lo) ==
  LET K == Held(kp, KPages)
      U == UNION {Held(up[p], UPages) : p \in Procs}
  IN  /\ \A k, l \in KPages : kp[k] # None /\ kp[k] = kp[l] => k = l
      /\ \A p, q \in Procs, u, v \in UPages :
           up[p][u] # None /\ up[p][u] = up[q][v] => p = q /\ u = v
      /\ K \cap U = {} /\ lo \cap (K \cup U) = {}
      /\ Reserved \cap (lo \cup K \cup U) = {}
      /\ us = Reserved \cup lo \cup K \cup U

LEMMA BookedAccounts ==
  ASSUME NEW us, NEW kp, NEW up, NEW lo,
         us \subseteq Frames, lo \subseteq Frames, kp \in [KPages -> Frames \cup {None}],
         up \in [Procs -> [UPages -> Frames \cup {None}]]
  PROVE  Accounts(us, kp, up, lo) <=> Booked(us, kp, up, lo)
<1> DEFINE K == Held(kp, KPages)
           U == UNION {Held(up[p], UPages) : p \in Procs}
<1>1. /\ \A f : f \in K <=> f \in Frames /\ (\E k \in KPages : kp[k] = f)
      /\ \A f : f \in U <=> f \in Frames /\ (\E p \in Procs, u \in UPages : up[p][u] = f)
  <2>1. \A f : f \in K <=> f \in Frames /\ (\E k \in KPages : kp[k] = f)
    BY NoneIsNone DEF Held
  <2>2. ASSUME NEW f \in U PROVE f \in Frames /\ (\E p \in Procs, u \in UPages : up[p][u] = f)
    BY <2>2, NoneIsNone DEF Held
  <2>3. ASSUME NEW f \in Frames, NEW p \in Procs, NEW u \in UPages, up[p][u] = f PROVE f \in U
    BY <2>3, NoneIsNone DEF Held
  <2> HIDE DEF K, U
  <2> QED
    BY <2>1, <2>2, <2>3
<1>2. /\ \A k \in KPages : kp[k] = None \/ kp[k] \in Frames
      /\ \A p \in Procs, u \in UPages : up[p][u] = None \/ up[p][u] \in Frames
      /\ Reserved \subseteq Frames /\ None \notin Frames
  BY NoneIsNone
<1> HIDE DEF K, U
<1>3. K \cap U = {} <=> \A k \in KPages, p \in Procs, u \in UPages : kp[k] # None => kp[k] # up[p][u]
  BY <1>1, <1>2
<1>4. lo \cap (K \cup U) = {} <=> /\ \A k \in KPages : kp[k] \notin lo
                                  /\ \A p \in Procs, u \in UPages : up[p][u] \notin lo
  BY <1>1, <1>2
<1>5. Reserved \cap (lo \cup K \cup U) = {}
        <=> /\ \A k \in KPages : kp[k] \notin Reserved
            /\ \A p \in Procs, u \in UPages : up[p][u] \notin Reserved
            /\ lo \cap Reserved = {}
  BY <1>1, <1>2
<1>6. us = Reserved \cup lo \cup K \cup U
        <=> \A f \in Frames : f \in us <=> \/ f \in Reserved \/ f \in lo
                                           \/ \E k \in KPages : kp[k] = f
                                           \/ \E p \in Procs, u \in UPages : up[p][u] = f
  BY <1>1, <1>2
<1>7. Accounts(us, kp, up, lo) <=>
        /\ \A k, l \in KPages : kp[k] # None /\ kp[k] = kp[l] => k = l
        /\ \A p, q \in Procs, u, v \in UPages :
             up[p][u] # None /\ up[p][u] = up[q][v] => p = q /\ u = v
        /\ \A k \in KPages : kp[k] \notin lo /\ kp[k] \notin Reserved
        /\ \A p \in Procs, u \in UPages : up[p][u] \notin lo /\ up[p][u] \notin Reserved
        /\ \A k \in KPages, p \in Procs, u \in UPages : kp[k] # None => kp[k] # up[p][u]
        /\ lo \cap Reserved = {}
        /\ \A f \in Frames : f \in us <=> \/ f \in Reserved \/ f \in lo
                                          \/ \E k \in KPages : kp[k] = f
                                          \/ \E p \in Procs, u \in UPages : up[p][u] = f
  BY DEF Accounts
<1>8. (\A k \in KPages : kp[k] \notin lo /\ kp[k] \notin Reserved)
        <=> (\A k \in KPages : kp[k] \notin lo) /\ (\A k \in KPages : kp[k] \notin Reserved)
  OBVIOUS
<1>9. (\A p \in Procs, u \in UPages : up[p][u] \notin lo /\ up[p][u] \notin Reserved)
        <=> (\A p \in Procs, u \in UPages : up[p][u] \notin lo) /\ (\A p \in Procs, u \in UPages : up[p][u] \notin Reserved)
  OBVIOUS
<1>10. Accounts(us, kp, up, lo) <=>
         /\ \A k, l \in KPages : kp[k] # None /\ kp[k] = kp[l] => k = l
         /\ \A p, q \in Procs, u, v \in UPages :
              up[p][u] # None /\ up[p][u] = up[q][v] => p = q /\ u = v
         /\ K \cap U = {} /\ lo \cap (K \cup U) = {}
         /\ Reserved \cap (lo \cup K \cup U) = {}
         /\ us = Reserved \cup lo \cup K \cup U
  BY <1>3, <1>4, <1>5, <1>6, <1>7, <1>8, <1>9, Zenon
<1> QED
  BY <1>10 DEF K, U, Booked

\* What FramesExact says is the accounts.
LEMMA ExactAccounts ==
  /\ TypeOK => (FramesExact <=> Accounts(used, kpage, upage, lost) /\ num_allocated = Cardinality(used))
  /\ TypeOK' => (FramesExact' <=> Accounts(used', kpage', upage', lost') /\ num_allocated' = Cardinality(used'))
<1>1. ASSUME TypeOK
      PROVE  FramesExact <=> Accounts(used, kpage, upage, lost) /\ num_allocated = Cardinality(used)
  <2>1. /\ used \subseteq Frames /\ lost \subseteq Frames /\ kpage \in [KPages -> Frames \cup {None}]
        /\ upage \in [Procs -> [UPages -> Frames \cup {None}]]
    BY <1>1 DEF TypeOK, Entry
  <2>2. Accounts(used, kpage, upage, lost) <=> Booked(used, kpage, upage, lost)
    BY <2>1, BookedAccounts
  <2> QED
    BY <1>1, <2>2, Zenon DEF FramesExact, InKernel, InUser, Booked
<1>2. ASSUME TypeOK'
      PROVE  FramesExact' <=> Accounts(used', kpage', upage', lost') /\ num_allocated' = Cardinality(used')
  <2>1. /\ used' \subseteq Frames /\ lost' \subseteq Frames /\ kpage' \in [KPages -> Frames \cup {None}]
        /\ upage' \in [Procs -> [UPages -> Frames \cup {None}]]
    BY <1>2 DEF TypeOK, Entry
  <2>2. Accounts(used', kpage', upage', lost') <=> Booked(used', kpage', upage', lost')
    BY <2>1, BookedAccounts
  <2> QED
    BY <1>2, <2>2, Zenon DEF FramesExact, InKernel, InUser, Booked
<1> QED
  BY <1>1, <1>2

\* The entries K of the kernel and S of process p become None; G is what they
\* mapped without L.
Clears(kp, up, K, p, S, L, G, kp2, up2) ==
  /\ K \in SUBSET KPages /\ p \in Procs /\ S \in SUBSET UPages
  /\ L \in SUBSET (Held(kp, K) \cup Held(up[p], S)) /\ G = (Held(kp, K) \cup Held(up[p], S)) \ L
  /\ kp2 \in [KPages -> Frames \cup {None}] /\ up2 \in [Procs -> [UPages -> Frames \cup {None}]]
  /\ \A k \in KPages : kp2[k] = IF k \in K THEN None ELSE kp[k]
  /\ \A q \in Procs, u \in UPages : up2[q][u] = IF q = p /\ u \in S THEN None ELSE up[q][u]

\* Clearing the entries K of the kernel and S of process p keeps the accounts when
\* their frames are given back, those in L leaked.
LEMMA ClearAccounts ==
  ASSUME NEW us, NEW kp, NEW up, NEW lo, NEW K, NEW p, NEW S, NEW L, NEW G, NEW kp2, NEW up2,
         Accounts(us, kp, up, lo), Clears(kp, up, K, p, S, L, G, kp2, up2)
  PROVE  Accounts(us \ G, kp2, up2, lo \cup L) /\ G \subseteq us /\ G \subseteq Frames
<1> /\ K \in SUBSET KPages /\ p \in Procs /\ S \in SUBSET UPages
    /\ L \in SUBSET (Held(kp, K) \cup Held(up[p], S)) /\ G = (Held(kp, K) \cup Held(up[p], S)) \ L
    /\ kp2 \in [KPages -> Frames \cup {None}] /\ up2 \in [Procs -> [UPages -> Frames \cup {None}]]
    /\ \A k \in KPages : kp2[k] = IF k \in K THEN None ELSE kp[k]
    /\ \A q \in Procs, u \in UPages : up2[q][u] = IF q = p /\ u \in S THEN None ELSE up[q][u]
  BY DEF Clears
<1> DEFINE H == Held(kp, K) \cup Held(up[p], S)
<1>1. \A f : f \in H <=> f \in Frames /\ ((\E k \in K : kp[k] = f) \/ (\E u \in S : up[p][u] = f))
  BY NoneIsNone DEF Held, Accounts
<1>2. H \subseteq us /\ H \cap lo = {} /\ H \cap Reserved = {} /\ H \subseteq Frames
  <2> HIDE DEF H
  <2>1. ASSUME NEW f \in H PROVE f \in us /\ f \notin lo /\ f \notin Reserved /\ f \in Frames
    <3>1. f \in Frames /\ ((\E k \in K : kp[k] = f) \/ (\E u \in S : up[p][u] = f))
      BY <1>1
    <3>2. CASE \E k \in K : kp[k] = f
      BY <3>1, <3>2 DEF Accounts
    <3>3. CASE \E u \in S : up[p][u] = f
      BY <3>1, <3>3 DEF Accounts
    <3> QED
      BY <3>1, <3>2, <3>3
  <2> QED
    BY <2>1
<1>3. G = H \ L /\ L \subseteq H
  OBVIOUS
<1> HIDE DEF H
<1>4. us \ G \subseteq Frames /\ lo \cup L \subseteq Frames /\ (lo \cup L) \cap Reserved = {}
  BY <1>2, <1>3 DEF Accounts
<1>5. \A k, l \in KPages : kp2[k] # None /\ kp2[k] = kp2[l] => k = l
  BY DEF Accounts
<1>6. \A q, r \in Procs, u, v \in UPages : up2[q][u] # None /\ up2[q][u] = up2[r][v] => q = r /\ u = v
  <2> SUFFICES ASSUME NEW q \in Procs, NEW r \in Procs, NEW u \in UPages, NEW v \in UPages,
                      up2[q][u] # None, up2[q][u] = up2[r][v]
               PROVE  q = r /\ u = v
    OBVIOUS
  <2>1. up[q][u] = up2[q][u] /\ up[r][v] = up2[r][v]
    OBVIOUS
  <2> QED
    BY <2>1 DEF Accounts
\* An entry that stays is no entry that went.
<1>7. ASSUME NEW k \in KPages, kp2[k] # None PROVE kp2[k] = kp[k] /\ kp[k] \notin H
  <2>1. k \notin K /\ kp2[k] = kp[k]
    BY <1>7
  <2>2. \A l \in K : kp[l] # kp[k]
    BY <1>7, <2>1 DEF Accounts
  <2>3. \A u \in S : up[p][u] # kp[k]
    BY <1>7, <2>1 DEF Accounts
  <2> QED
    BY <1>1, <2>1, <2>2, <2>3
<1>8. ASSUME NEW q \in Procs, NEW u \in UPages, up2[q][u] # None PROVE up2[q][u] = up[q][u] /\ up[q][u] \notin H
  <2>1. ~(q = p /\ u \in S) /\ up2[q][u] = up[q][u]
    BY <1>8
  <2>2. \A l \in K : kp[l] # up[q][u]
    BY <1>8, <2>1 DEF Accounts
  <2>3. \A v \in S : up[p][v] # up[q][u]
    BY <1>8, <2>1 DEF Accounts
  <2> QED
    BY <1>1, <2>1, <2>2, <2>3
<1>9. \A k \in KPages : kp2[k] \notin lo \cup L /\ kp2[k] \notin Reserved
  <2> SUFFICES ASSUME NEW k \in KPages PROVE kp2[k] \notin lo \cup L /\ kp2[k] \notin Reserved
    OBVIOUS
  <2>1. CASE kp2[k] = None
    BY <1>2, <1>3, <2>1, NoneIsNone, ZenonT(60) DEF Accounts
  <2>2. CASE kp2[k] # None
    BY <1>3, <1>7, <2>2 DEF Accounts
  <2> QED
    BY <2>1, <2>2
<1>10. \A q \in Procs, u \in UPages : up2[q][u] \notin lo \cup L /\ up2[q][u] \notin Reserved
  <2> SUFFICES ASSUME NEW q \in Procs, NEW u \in UPages PROVE up2[q][u] \notin lo \cup L /\ up2[q][u] \notin Reserved
    OBVIOUS
  <2>1. CASE up2[q][u] = None
    BY <1>2, <1>3, <2>1, NoneIsNone, ZenonT(60) DEF Accounts
  <2>2. CASE up2[q][u] # None
    BY <1>3, <1>8, <2>2 DEF Accounts
  <2> QED
    BY <2>1, <2>2
<1>11. \A k \in KPages, q \in Procs, u \in UPages : kp2[k] # None => kp2[k] # up2[q][u]
  <2> SUFFICES ASSUME NEW k \in KPages, NEW q \in Procs, NEW u \in UPages, kp2[k] # None
               PROVE  kp2[k] # up2[q][u]
    OBVIOUS
  <2>1. kp2[k] = kp[k] /\ kp[k] # up[q][u]
    BY <1>7 DEF Accounts
  <2> QED
    BY <1>8, <2>1
<1>12. ASSUME NEW f \in Frames
       PROVE  f \in us \ G <=> \/ f \in Reserved \/ f \in lo \cup L
                               \/ \E k \in KPages : kp2[k] = f
                               \/ \E q \in Procs, u \in UPages : up2[q][u] = f
  <2>0. f # None
    BY NoneIsNone
  <2>1. f \in us <=> \/ f \in Reserved \/ f \in lo
                     \/ \E k \in KPages : kp[k] = f
                     \/ \E q \in Procs, u \in UPages : up[q][u] = f
    BY DEF Accounts
  <2>2. CASE f \in H
    <3>1. f \in us /\ f \notin Reserved /\ f \notin lo
      BY <1>2, <2>2
    <3>2. (\A k \in KPages : kp2[k] # f) /\ (\A q \in Procs, u \in UPages : up2[q][u] # f)
      BY <1>7, <1>8, <2>0, <2>2
    <3> QED
      BY <1>3, <2>2, <3>1, <3>2
  <2>3. CASE f \notin H
    <3>1. \A k \in KPages : kp[k] = f <=> kp2[k] = f
      BY <1>1, <1>7, <2>0, <2>3
    <3>2. \A q \in Procs, u \in UPages : up[q][u] = f <=> up2[q][u] = f
      BY <1>1, <1>8, <2>0, <2>3
    <3> QED
      BY <1>3, <2>1, <2>3, <3>1, <3>2
  <2> QED
    BY <2>2, <2>3
<1>13. Accounts(us \ G, kp2, up2, lo \cup L)
  BY <1>4, <1>5, <1>6, <1>9, <1>10, <1>11, <1>12, ZenonT(60) DEF Accounts
<1> QED
  BY <1>2, <1>3, <1>13

\* The empty entries b, ..., b + n - 1 of the kernel are filled with the free frames
\* from f on.
Fills(us, kp, f, n, b, kp2) ==
  /\ f \in Nat /\ n \in Nat /\ b \in Nat /\ b + n <= KMax + 1
  /\ \A g \in f..(f + n - 1) : g \in Frames /\ g \notin us
  /\ \A k \in b..(b + n - 1) : kp[k] = None
  /\ kp2 = [k \in KPages |-> IF k \in b..(b + n - 1) THEN f + (k - b) ELSE kp[k]]

\* Filling empty entries of the kernel with free frames keeps the accounts.
LEMMA MapKernel ==
  ASSUME NEW us, NEW kp, NEW up, NEW lo, NEW f, NEW n, NEW b, NEW kp2,
         Accounts(us, kp, up, lo), Fills(us, kp, f, n, b, kp2)
  PROVE  Accounts(us \cup (f..(f + n - 1)), kp2, up, lo)
<1> /\ f \in Nat /\ n \in Nat /\ b \in Nat /\ b + n <= KMax + 1
    /\ \A g \in f..(f + n - 1) : g \in Frames /\ g \notin us
    /\ \A k \in b..(b + n - 1) : kp[k] = None
    /\ kp2 = [k \in KPages |-> IF k \in b..(b + n - 1) THEN f + (k - b) ELSE kp[k]]
  BY DEF Fills
<1> DEFINE B == b..(b + n - 1)
           F == f..(f + n - 1)
<1>1. B \subseteq KPages /\ KPages \subseteq Nat
  BY SizeAssumption DEF KPages
<1>2. /\ \A k \in KPages : k \notin B => kp2[k] = kp[k]
      /\ \A k \in B : kp2[k] = f + (k - b)
  BY <1>1
<1>3. \A k \in B : kp2[k] \in F
  BY <1>1, <1>2
<1>4. \A k, l \in B : kp2[k] = kp2[l] => k = l
  BY <1>1, <1>2
<1>5. \A g \in F : \E k \in B : kp2[k] = g
  <2> TAKE g \in F
  <2>1. b + (g - f) \in B /\ f + ((b + (g - f)) - b) = g
    OBVIOUS
  <2> QED
    BY <1>2, <2>1, ZenonT(60)
<1>6. \A k \in B : kp[k] = None
  OBVIOUS
<1>7. \A g \in F : g \in Frames /\ g \notin us
  OBVIOUS
<1>8. kp2 = [k \in KPages |-> kp2[k]]
  OBVIOUS
<1> HIDE DEF B, F
<1>9. kp2 \in [KPages -> Frames \cup {None}]
  <2>1. \A k \in KPages : kp2[k] \in Frames \cup {None}
    BY <1>2, <1>3, <1>7 DEF Accounts
  <2> QED
    BY <1>8, <2>1
<1>10. \A k \in KPages : k \notin B => kp2[k] \notin F
  BY <1>2, <1>7, NoneIsNone, ZenonT(60) DEF Accounts
<1>11. \A k, l \in KPages : kp2[k] # None /\ kp2[k] = kp2[l] => k = l
  <2> SUFFICES ASSUME NEW k \in KPages, NEW l \in KPages, kp2[k] # None, kp2[k] = kp2[l] PROVE k = l
    OBVIOUS
  <2>1. k \in B <=> l \in B
    BY <1>3, <1>10
  <2>2. CASE k \in B
    BY <1>4, <2>1, <2>2
  <2>3. CASE k \notin B
    BY <1>2, <2>1, <2>3 DEF Accounts
  <2> QED
    BY <2>2, <2>3
<1>12. \A g \in F : g \notin lo /\ g \notin Reserved /\ \A p \in Procs, u \in UPages : up[p][u] # g
  BY <1>7 DEF Accounts
<1>13. \A k \in KPages : kp2[k] \notin lo /\ kp2[k] \notin Reserved
  BY <1>2, <1>3, <1>12 DEF Accounts
<1>14. \A k \in KPages, p \in Procs, u \in UPages : kp2[k] # None => kp2[k] # up[p][u]
  BY <1>2, <1>3, <1>12 DEF Accounts
<1>15. ASSUME NEW g \in Frames
       PROVE  g \in us \cup F <=> \/ g \in Reserved \/ g \in lo
                                  \/ \E k \in KPages : kp2[k] = g
                                  \/ \E p \in Procs, u \in UPages : up[p][u] = g
  <2>1. g \in us <=> \/ g \in Reserved \/ g \in lo
                     \/ \E k \in KPages : kp[k] = g
                     \/ \E p \in Procs, u \in UPages : up[p][u] = g
    BY DEF Accounts
  <2>2. (\E k \in KPages : kp2[k] = g) <=> g \in F \/ \E k \in KPages : kp[k] = g
    <3>1. g # None
      BY NoneIsNone
    <3>2. g \in F => \E k \in KPages : kp2[k] = g
      BY <1>1, <1>5
    <3>3. ASSUME NEW k \in KPages, kp2[k] = g PROVE g \in F \/ \E l \in KPages : kp[l] = g
      BY <1>2, <1>3, <3>3
    <3>4. ASSUME NEW k \in KPages, kp[k] = g PROVE \E l \in KPages : kp2[l] = g
      BY <1>2, <1>6, <3>1, <3>4
    <3> QED
      BY <3>2, <3>3, <3>4
  <2> QED
    BY <2>1, <2>2
<1>16. us \cup F \subseteq Frames
  BY <1>7 DEF Accounts
<1>17. Accounts(us \cup F, kp2, up, lo)
  BY <1>9, <1>11, <1>13, <1>14, <1>15, <1>16, ZenonT(60) DEF Accounts
<1> QED
  BY <1>17 DEF F

\* Filling one empty entry of a process with a free frame keeps the accounts.
LEMMA MapUser ==
  ASSUME NEW us, NEW kp, NEW up, NEW lo, Accounts(us, kp, up, lo),
         NEW p \in Procs, NEW u \in UPages, up[p][u] = None, NEW f \in Frames \ us,
         NEW up2, up2 = [up EXCEPT ![p][u] = f]
  PROVE  Accounts(us \cup {f}, kp, up2, lo)
<1>1. up \in [Procs -> [UPages -> Frames \cup {None}]]
  BY DEF Accounts
<1>2. \A q \in Procs, v \in UPages : up2[q][v] = IF q = p /\ v = u THEN f ELSE up[q][v]
  BY <1>1
<1>3. up2 \in [Procs -> [UPages -> Frames \cup {None}]]
  BY <1>1
<1>4. /\ \A k \in KPages : kp[k] # f
      /\ \A q \in Procs, v \in UPages : up[q][v] # f
      /\ f \notin lo /\ f \notin Reserved /\ f # None
  BY NoneIsNone DEF Accounts
<1>5. \A q, r \in Procs, v, w \in UPages : up2[q][v] # None /\ up2[q][v] = up2[r][w] => q = r /\ v = w
  BY <1>2, <1>4 DEF Accounts
<1>6. \A q \in Procs, v \in UPages : up2[q][v] \notin lo /\ up2[q][v] \notin Reserved
  BY <1>2, <1>4 DEF Accounts
<1>7. \A k \in KPages, q \in Procs, v \in UPages : kp[k] # None => kp[k] # up2[q][v]
  BY <1>2, <1>4 DEF Accounts
<1>8. ASSUME NEW g \in Frames
      PROVE  g \in us \cup {f} <=> \/ g \in Reserved \/ g \in lo
                                   \/ \E k \in KPages : kp[k] = g
                                   \/ \E q \in Procs, v \in UPages : up2[q][v] = g
  <2>1. g \in us <=> \/ g \in Reserved \/ g \in lo
                     \/ \E k \in KPages : kp[k] = g
                     \/ \E q \in Procs, v \in UPages : up[q][v] = g
    BY DEF Accounts
  <2>2. (\E q \in Procs, v \in UPages : up2[q][v] = g) <=> g = f \/ \E q \in Procs, v \in UPages : up[q][v] = g
    <3>1. up2[p][u] = f
      BY <1>2
    <3>2. ASSUME NEW q \in Procs, NEW v \in UPages, up[q][v] = g PROVE up2[q][v] = g
      BY <1>2, <3>2, NoneIsNone
    <3>3. ASSUME NEW q \in Procs, NEW v \in UPages, up2[q][v] = g PROVE g = f \/ up[q][v] = g
      BY <1>2, <3>3
    <3> QED
      BY <3>1, <3>2, <3>3
  <2> QED
    BY <2>1, <2>2
<1> QED
  BY <1>3, <1>5, <1>6, <1>7, <1>8 DEF Accounts

\* write_to_frame keeps num_allocated_frames.
LEMMA CountTaken ==
  ASSUME used \subseteq Frames, num_allocated = Cardinality(used), NEW F \in SUBSET Frames, F \cap used = {}, Take(F)
  PROVE  num_allocated' = Cardinality(used') /\ num_allocated' \in Int
<1>1. IsFiniteSet(used) /\ IsFiniteSet(F) /\ used' = used \cup F /\ num_allocated' = num_allocated + Cardinality(F)
  BY FiniteFrames DEF Take
<1>2. Cardinality(used) \in Nat /\ Cardinality(F) \in Nat /\ Cardinality({}) = 0
  BY FiniteFrames, FS_EmptySet
<1>3. Cardinality(used \cup F) = Cardinality(used) + Cardinality(F) - Cardinality(used \cap F)
  BY <1>1, FS_Union
<1>4. Cardinality(used \cap F) = 0
  BY <1>2
<1>5. Cardinality(used \cup F) = Cardinality(used) + Cardinality(F)
  BY <1>2, <1>3, <1>4
<1>6. num_allocated' = Cardinality(used')
  BY <1>1, <1>5
<1>7. num_allocated' \in Int
  BY <1>1, <1>2
<1> QED
  BY <1>6, <1>7

LEMMA CountGiven ==
  ASSUME used \subseteq Frames, num_allocated = Cardinality(used), NEW F \in SUBSET used, Give(F)
  PROVE  num_allocated' = Cardinality(used') /\ num_allocated' \in Int
<1>1. IsFiniteSet(used) /\ used' = used \ F /\ num_allocated' = num_allocated - Cardinality(F)
  BY FiniteFrames DEF Give
<1>2. Cardinality(used) \in Nat /\ Cardinality(F) \in Nat
  BY FiniteFrames
<1>3. Cardinality(used \ F) = Cardinality(used) - Cardinality(used \cap F)
  BY <1>1, FS_Difference
<1>4. used \cap F = F
  OBVIOUS
<1>5. Cardinality(used \ F) = Cardinality(used) - Cardinality(F)
  BY <1>3, <1>4, ZenonT(60)
<1>6. num_allocated' = Cardinality(used')
  BY <1>1, <1>5
<1>7. num_allocated' \in Int
  BY <1>1, <1>2
<1> QED
  BY <1>6, <1>7

\* The accounts and types that every step starts from.
LEMMA Before ==
  ASSUME MInv
  PROVE  /\ TypeOK /\ Accounts(used, kpage, upage, lost) /\ num_allocated = Cardinality(used)
         /\ used \subseteq Frames /\ lost \subseteq Frames /\ kpage \in [KPages -> Frames \cup {None}]
         /\ upage \in [Procs -> [UPages -> Frames \cup {None}]]
         /\ dir \in [Procs -> KPages \cup {None}] /\ tab \in [Procs -> [Tables -> KPages \cup {None}]]
         /\ seg_end \in [Procs -> Nat] /\ job \in Jobs /\ data_end \in KPages /\ data_end \in Nat
BY ExactAccounts, NoneIsNone DEF MInv, MemoryExact, FramesExact, TypeOK, Entry

LEMMA EndType == ASSUME MInv PROVE data_end \in KPages /\ data_end \in Nat /\ data_end >= data_end
<1>1. data_end \in KPages
  BY DEF MInv, MemoryExact, FramesExact, TypeOK
<1> QED
  BY <1>1, NoneIsNone

\* The directories and tables lie in the pages that ksbrk has handed out.
LEMMA KernelBound ==
  ASSUME MInv, NEW p \in Procs
  PROVE  \A k \in KernelPages(p) : k \in KPages /\ k < data_end /\ kpage[k] # None
<1> SUFFICES ASSUME NEW k \in KernelPages(p) PROVE k \in KPages /\ k < data_end /\ kpage[k] # None
  OBVIOUS
<1>1. k < data_end /\ kpage[k] # None
  BY DEF MInv, MemoryExact, DirectoriesIntact
<1>2. dir[p] \in KPages \cup {None} /\ tab[p] \in [Tables -> KPages \cup {None}] /\ data_end \in KPages
  BY Before
<1>3. CASE k \in DirBlock(dir[p])
  <2>1. dir[p] \in Nat /\ k \in dir[p]..(dir[p] + DirPages - 1)
    BY <1>2, <1>3, NoneIsNone, ZenonT(60) DEF DirBlock
  <2>2. k \in Nat
    BY <2>1, SizeAssumption
  <2> QED
    BY <1>1, <1>2, <2>2, SizeAssumption DEF KPages
<1>4. CASE k \in {tab[p][t] : t \in Tables} \ {None}
  BY <1>1, <1>2, <1>4
<1> QED
  BY <1>3, <1>4 DEF KernelPages

LEMMA Interval == \A a, b \in Nat : \A k : k \in a..(b - 1) <=> k \in Nat /\ a <= k /\ k < b
OBVIOUS

\* A step that only touches the directory and tables of c, and new pages.
LEMMA DirStep ==
  ASSUME MInv, NEW c \in Procs,
         \A q \in Procs \ {c} : dir'[q] = dir[q] /\ tab'[q] = tab[q],
         \A q \in Procs \ {c} : \A k \in KernelPages(q) : kpage'[k] = kpage[k],
         data_end' \in KPages, data_end' >= data_end,
         \A k \in KernelPages(c)' : /\ k \in KernelPages(c) \/ k \in data_end..(data_end' - 1)
                                    /\ kpage'[k] # None,
         dir'[c] # None => \A k \in DirBlock(dir'[c]) : kpage'[k] = kpage'[dir'[c]] + (k - dir'[c]),
         \A u \in UPages : upage'[c][u] # None => tab'[c][TableOf(u)] # None,
         \A q \in Procs \ {c} : upage'[q] = upage[q]
  PROVE  DirectoriesIntact'
<1>1. ASSUME NEW q \in Procs, q # c PROVE KernelPages(q)' = KernelPages(q)
  BY <1>1 DEF KernelPages
<1>2. data_end \in Nat /\ data_end' \in Nat
  BY Before, NoneIsNone
<1>3. \A q \in Procs : \A k \in KernelPages(q) : k \in Nat /\ k < data_end /\ kpage[k] # None
  BY KernelBound, NoneIsNone, ZenonT(60)
<1>4. ASSUME NEW q \in Procs, NEW k \in KernelPages(q)' PROVE k < data_end' /\ kpage'[k] # None
  <2>1. CASE q = c
    <3>1. (k \in KernelPages(c) \/ k \in data_end..(data_end' - 1)) /\ kpage'[k] # None
      BY <1>4, <2>1
    <3>2. CASE k \in KernelPages(c)
      <4>1. k \in Nat /\ k < data_end
        BY <1>3, <3>2
      <4>2. \A a, b, x \in Nat : x < a /\ b >= a => x < b
        OBVIOUS
      <4>3. k < data_end'
        BY <1>2, <4>1, <4>2
      <4> QED
        BY <3>1, <4>3
    <3>3. CASE k \in data_end..(data_end' - 1)
      <4>1. k < data_end'
        BY <1>2, <3>3, Interval, ZenonT(60)
      <4> QED
        BY <3>1, <4>1
    <3> QED
      BY <3>1, <3>2, <3>3
  <2>2. CASE q # c
    <3>1. k \in KernelPages(q)
      BY <1>1, <1>4, <2>2
    <3>2. k \in Nat /\ k < data_end /\ kpage'[k] # None
      BY <1>3, <2>2, <3>1
    <3> QED
      BY <1>2, <3>2
  <2> QED
    BY <2>1, <2>2
<1>5. ASSUME NEW q \in Procs, dir'[q] # None
      PROVE  \A k \in DirBlock(dir'[q]) : kpage'[k] = kpage'[dir'[q]] + (k - dir'[q])
  <2>1. CASE q = c
    BY <1>5, <2>1
  <2>2. CASE q # c
    <3>1. dir'[q] = dir[q]
      BY <2>2
    <3>2. \A k \in DirBlock(dir[q]) : kpage[k] = kpage[dir[q]] + (k - dir[q])
      BY <1>5, <3>1, ZenonT(60) DEF MInv, MemoryExact, DirectoriesIntact
    <3>3. \A k \in DirBlock(dir[q]) : kpage'[k] = kpage[k]
      BY <2>2 DEF KernelPages
    <3>4. dir[q] \in DirBlock(dir[q])
      <4>1. dir[q] \in Nat
        BY <1>5, <3>1, Before, NoneIsNone, ZenonT(60)
      <4> QED
        BY <1>5, <3>1, <4>1, SizeAssumption DEF DirBlock
    <3> QED
      BY <3>1, <3>2, <3>3, <3>4
  <2> QED
    BY <2>1, <2>2
<1>6. ASSUME NEW q \in Procs, NEW u \in UPages, upage'[q][u] # None PROVE tab'[q][TableOf(u)] # None
  BY <1>6 DEF MInv, MemoryExact, DirectoriesIntact
<1>7. ASSUME NEW q \in Procs, NEW r \in Procs, q # r, NEW k \in KernelPages(q)', k \in KernelPages(r)' PROVE FALSE
  <2>0. \A x, y \in Procs : x # y => KernelPages(x) \cap KernelPages(y) = {}
    BY DEF MInv, MemoryExact, DirectoriesIntact
  <2>1. CASE q # c /\ r # c
    BY <1>1, <1>7, <2>0, <2>1
  <2>2. ASSUME NEW x \in Procs, x # c, k \in KernelPages(x)', k \in KernelPages(c)' PROVE FALSE
    <3>1. k \in KernelPages(x) /\ k \in Nat /\ k < data_end
      BY <1>1, <1>3, <2>2
    <3>2. k \in KernelPages(c) \/ k \in data_end..(data_end' - 1)
      BY <2>2
    <3>3. k \notin data_end..(data_end' - 1)
      <4>1. ~(data_end <= k)
        BY <1>2, <3>1
      <4> QED
        BY <1>2, <4>1, Interval
    <3>4. k \in KernelPages(c)
      BY <3>2, <3>3
    <3> QED
      BY <2>0, <2>2, <3>1, <3>4
  <2> QED
    BY <1>7, <2>1, <2>2
<1>8. \A q, r \in Procs : q # r => KernelPages(q)' \cap KernelPages(r)' = {}
  BY <1>7
<1> QED
  BY <1>4, <1>5, <1>6, <1>8, ZenonT(60) DEF DirectoriesIntact

\* What a step has to establish, in the terms of the lemmas above.
LEMMA After ==
  ASSUME Accounts(used', kpage', upage', lost'), num_allocated' = Cardinality(used'), num_allocated' \in Int,
         data_end' \in KPages, dir' \in [Procs -> KPages \cup {None}],
         tab' \in [Procs -> [Tables -> KPages \cup {None}]], seg_end' \in [Procs -> Nat],
         job' \in Jobs, stopped' \in BOOLEAN
  PROVE  FramesExact'
<1>1. TypeOK'
  BY DEF TypeOK, Accounts, Entry
<1> QED
  BY <1>1, ExactAccounts

\* ksbrk with frames: the new pages are mapped to adjacent frames.
LEMMA LinearStep ==
  ASSUME MInv, NEW n \in Nat \ {0}, HasRoom(n), linear(n)
  PROVE  /\ Accounts(used', kpage', upage, lost') /\ num_allocated' = Cardinality(used') /\ num_allocated' \in Int
         /\ data_end' \in KPages /\ data_end' = data_end + n /\ stopped' = stopped
         /\ \A k \in KPages : k < data_end => kpage'[k] = kpage[k]
         /\ \A k \in data_end..(data_end' - 1) :
              kpage'[k] # None /\ k \in KPages /\ kpage'[k] = kpage'[data_end] + (k - data_end)
<1> DEFINE f == get_free_frames(n)
           F == f..(f + n - 1)
           B == Block(n)
           kp == Cleared(kpage, B)
<1>1. /\ f # None /\ F \cap used = {} /\ lost' = lost \cup Held(kpage, B) /\ Take(F) /\ used' = used \cup F
      /\ kpage' = [k \in KPages |-> IF k \in B THEN f + (k - data_end) ELSE kpage[k]]
      /\ data_end' = data_end + n /\ stopped' = stopped
  BY DEF linear, Moved, Take
<1>2. f \in Nat /\ F \subseteq Frames
  BY <1>1, Before, FreeFrames
<1>3. data_end \in Nat /\ data_end + n <= KMax /\ B = data_end..(data_end + n - 1) /\ B \in SUBSET KPages
  <2>1. data_end \in Nat /\ data_end + n <= KMax
    BY Before DEF HasRoom
  <2>2. data_end..(data_end + n - 1) \subseteq KPages
    BY <2>1, SizeAssumption DEF KPages
  <2> QED
    BY <2>1, <2>2 DEF Block
<1>4. num_allocated' = Cardinality(used') /\ num_allocated' \in Int
  <2> HIDE DEF F
  <2> QED
    BY <1>1, <1>2, Before, CountTaken, ZenonT(60)
<1>5. /\ kp \in [KPages -> Frames \cup {None}]
      /\ \A k \in KPages : kp[k] = IF k \in B THEN None ELSE kpage[k]
  BY Before DEF Cleared
<1>6. Held(upage[Boot], {}) = {}
  BY DEF Held
<1>7. Accounts(used \ {}, kp, upage, lost \cup Held(kpage, B))
  <2> DEFINE L == Held(kpage, B)
             S == {}
             G == {}
  <2>1. L \in SUBSET (Held(kpage, B) \cup Held(upage[Boot], S)) /\ G = (Held(kpage, B) \cup Held(upage[Boot], S)) \ L
    BY <1>6
  <2>2. /\ upage \in [Procs -> [UPages -> Frames \cup {None}]] /\ Accounts(used, kpage, upage, lost)
        /\ Boot \in Procs /\ S \in SUBSET UPages
    BY Before, SizeAssumption
  <2>3. \A q \in Procs, u \in UPages : upage[q][u] = IF q = Boot /\ u \in S THEN None ELSE upage[q][u]
    OBVIOUS
  <2>4. Clears(kpage, upage, B, Boot, S, L, G, kp, upage)
    <3> HIDE DEF L, S, G, kp, B
    <3> QED
      BY <1>3, <1>5, <2>1, <2>2, <2>3, ZenonT(60) DEF Clears
  <2> HIDE DEF L, S, G, kp, B
  <2>5. Accounts(used \ G, kp, upage, lost \cup L)
    BY <2>2, <2>4, ClearAccounts
  <2> QED
    BY <2>5 DEF L, G
<1>8. Accounts(used, kp, upage, lost')
  <2>1. used \ {} = used
    BY Zenon
  <2> QED
    BY <1>1, <1>7, <2>1
<1>9. kpage' = [k \in KPages |-> IF k \in data_end..(data_end + n - 1) THEN f + (k - data_end) ELSE kp[k]]
  <2>1. ASSUME NEW k \in KPages, k \notin B PROVE kp[k] = kpage[k]
    BY <1>5, <2>1
  <2> QED
    BY <1>1, <1>3, <2>1
<1>10. \A g \in F : g \in Frames /\ g \notin used
  BY <1>1, <1>2
<1>11. \A k \in data_end..(data_end + n - 1) : kp[k] = None
  BY <1>3, <1>5
<1>12. data_end + n <= KMax + 1
  BY <1>3, SizeAssumption
<1>13. Accounts(used \cup F, kpage', upage, lost')
  <2>1. Fills(used, kp, f, n, data_end, kpage')
    <3> HIDE DEF kp, f
    <3> QED
      BY <1>2, <1>3, <1>9, <1>10, <1>11, <1>12, ZenonT(60) DEF Fills
  <2> HIDE DEF kp, f
  <2> QED
    BY <1>8, <2>1, MapKernel
<1>14. data_end' \in KPages
  BY <1>1, <1>3, SizeAssumption DEF KPages
<1>15. ASSUME NEW k \in KPages, k < data_end PROVE kpage'[k] = kpage[k]
  <2>1. k \notin B
    BY <1>3, <1>15, NoneIsNone
  <2> QED
    BY <1>1, <2>1
<1>16. ASSUME NEW k \in data_end..(data_end' - 1)
       PROVE  kpage'[k] # None /\ k \in KPages /\ kpage'[k] = kpage'[data_end] + (k - data_end)
  <2>1. k \in B /\ data_end \in B /\ k \in Nat /\ k >= data_end
    BY <1>1, <1>3
  <2>2. kpage'[k] = f + (k - data_end) /\ kpage'[data_end] = f + (data_end - data_end) /\ k \in KPages
    BY <1>1, <1>3, <2>1
  <2>3. f + (k - data_end) \in Nat /\ f + (data_end - data_end) = f
    BY <1>2, <1>3, <2>1
  <2> QED
    BY <2>2, <2>3 DEF None
<1> QED
  BY <1>1, <1>4, <1>13, <1>14, <1>15, <1>16, ZenonT(60)

\* Freeing: the entries K of the kernel and S of process p are cleared, and what
\* they mapped is given back except L, which is leaked.
LEMMA ClearStep ==
  ASSUME MInv, NEW K, NEW p, NEW S, NEW L, NEW G,
         Clears(kpage, upage, K, p, S, L, G, kpage', upage'), Give(G), lost' = lost \cup L
  PROVE  Accounts(used', kpage', upage', lost') /\ num_allocated' = Cardinality(used') /\ num_allocated' \in Int
<1>1. Accounts(used, kpage, upage, lost) /\ used \subseteq Frames /\ num_allocated = Cardinality(used)
  BY Before, ZenonT(60)
<1>2. Accounts(used \ G, kpage', upage', lost \cup L) /\ G \subseteq used
  BY <1>1, ClearAccounts
<1>3. used' = used \ G
  BY DEF Give
<1>4. num_allocated' = Cardinality(used') /\ num_allocated' \in Int
  BY <1>1, <1>2, CountGiven, ZenonT(60)
<1> QED
  BY <1>2, <1>3, <1>4, ZenonT(60)

\* The entries S of process p become None.
Empties(p, S) ==
  /\ upage' \in [Procs -> [UPages -> Frames \cup {None}]]
  /\ \A q \in Procs, u \in UPages : upage'[q][u] = IF q = p /\ u \in S THEN None ELSE upage[q][u]

\* ksbrk without enough frames, and what its caller frees.
LEMMA FailStep ==
  ASSUME MInv, NEW n \in Nat \ {0}, HasRoom(n), NEW K \in SUBSET KPages, NEW p \in Procs, NEW S \in SUBSET UPages,
         linear_fails(n, K, Held(upage[p], S)), Empties(p, S)
  PROVE  /\ Accounts(used', kpage', upage', lost') /\ num_allocated' = Cardinality(used') /\ num_allocated' \in Int
         /\ data_end' \in KPages /\ data_end' = data_end + n /\ stopped' = stopped
         /\ \A k \in KPages : k < data_end /\ k \notin K => kpage'[k] = kpage[k]
<1> DEFINE B == Block(n)
           G == Held(kpage, B \cup K) \cup Held(upage[p], S)
<1>1. /\ kpage' = Cleared(kpage, B \cup K) /\ Give(G) /\ data_end' = data_end + n
      /\ lost' = lost /\ stopped' = stopped
  BY DEF linear_fails, Moved
<1>2. data_end \in Nat /\ data_end + n <= KMax /\ B = data_end..(data_end + n - 1) /\ B \in SUBSET KPages
  <2>1. data_end \in Nat /\ data_end + n <= KMax
    BY Before DEF HasRoom
  <2>2. data_end..(data_end + n - 1) \subseteq KPages
    BY <2>1, SizeAssumption DEF KPages
  <2> QED
    BY <2>1, <2>2 DEF Block
<1>3. /\ kpage' \in [KPages -> Frames \cup {None}]
      /\ \A k \in KPages : kpage'[k] = IF k \in B \cup K THEN None ELSE kpage[k]
  BY <1>1, Before, ZenonT(60) DEF Cleared
<1>4. Clears(kpage, upage, B \cup K, p, S, {}, G, kpage', upage')
  <2>1. B \cup K \in SUBSET KPages
    BY <1>2
  <2>2. G = (Held(kpage, B \cup K) \cup Held(upage[p], S)) \ {}
    OBVIOUS
  <2> HIDE DEF G, B
  <2> QED
    BY <1>3, <2>1, <2>2 DEF Clears, Empties
<1>5. lost' = lost \cup {}
  BY <1>1
<1>6. Accounts(used', kpage', upage', lost') /\ num_allocated' = Cardinality(used') /\ num_allocated' \in Int
  <2> DEFINE KK == B \cup K
  <2> HIDE DEF G, KK
  <2>1. Clears(kpage, upage, KK, p, S, {}, G, kpage', upage')
    BY <1>4 DEF KK
  <2> QED
    BY <1>1, <1>5, <2>1, ClearStep, ZenonT(60)
<1>7. data_end' \in KPages
  BY <1>1, <1>2, SizeAssumption DEF KPages
<1>8. ASSUME NEW k \in KPages, k < data_end, k \notin K PROVE kpage'[k] = kpage[k]
  <2>1. k \notin B
    BY <1>2, <1>8, NoneIsNone
  <2> QED
    BY <1>3, <1>8, <2>1
<1> QED
  BY <1>1, <1>6, <1>7, <1>8

\* The same when the caller frees nothing.
LEMMA FailNothing ==
  ASSUME MInv, NEW n \in Nat \ {0}, HasRoom(n), linear_fails(n, {}, {}), upage' = upage
  PROVE  /\ Accounts(used', kpage', upage', lost') /\ num_allocated' = Cardinality(used') /\ num_allocated' \in Int
         /\ data_end' \in KPages /\ data_end' = data_end + n /\ stopped' = stopped
         /\ \A k \in KPages : k < data_end => kpage'[k] = kpage[k]
<1> DEFINE E == {}
<1>1. Held(upage[Boot], E) = {}
  BY DEF Held
<1>2. linear_fails(n, E, Held(upage[Boot], E))
  BY <1>1
<1>3. Empties(Boot, E)
  BY Before DEF Empties
<1>4. E \in SUBSET KPages /\ E \in SUBSET UPages /\ Boot \in Procs
  BY SizeAssumption
<1>5. \A k \in KPages : k \notin E
  BY Zenon
<1> HIDE DEF E
<1>6. /\ Accounts(used', kpage', upage', lost') /\ num_allocated' = Cardinality(used') /\ num_allocated' \in Int
      /\ data_end' \in KPages /\ data_end' = data_end + n /\ stopped' = stopped
      /\ \A k \in KPages : k < data_end /\ k \notin E => kpage'[k] = kpage[k]
  BY <1>2, <1>3, <1>4, FailStep
<1> QED
  BY <1>5, <1>6, ZenonT(60)

\* A step that keeps every directory and table, and changes the pages of c at most.
LEMMA SameDirs ==
  ASSUME MInv, NEW c \in Procs, dir' = dir, tab' = tab, data_end' \in KPages, data_end' >= data_end,
         \A q \in Procs : \A k \in KernelPages(q) : kpage'[k] = kpage[k],
         \A u \in UPages : upage'[c][u] # None => tab[c][TableOf(u)] # None,
         \A q \in Procs \ {c} : upage'[q] = upage[q]
  PROVE  DirectoriesIntact' /\ \A q \in Procs : KernelPages(q)' = KernelPages(q)
<1>1. ASSUME NEW q \in Procs PROVE KernelPages(q)' = KernelPages(q)
  BY DEF KernelPages
<1>2. \A k \in KernelPages(c)' : /\ k \in KernelPages(c) \/ k \in data_end..(data_end' - 1)
                                 /\ kpage'[k] # None
  BY <1>1, KernelBound, ZenonT(60)
<1>3. dir'[c] # None => \A k \in DirBlock(dir'[c]) : kpage'[k] = kpage'[dir'[c]] + (k - dir'[c])
  <2> SUFFICES ASSUME dir[c] # None PROVE \A k \in DirBlock(dir[c]) : kpage'[k] = kpage'[dir[c]] + (k - dir[c])
    OBVIOUS
  <2>1. \A k \in DirBlock(dir[c]) : kpage[k] = kpage[dir[c]] + (k - dir[c])
    BY DEF MInv, MemoryExact, DirectoriesIntact
  <2>2. \A k \in DirBlock(dir[c]) : kpage'[k] = kpage[k]
    BY DEF KernelPages
  <2>3. dir[c] \in DirBlock(dir[c])
    <3>1. dir[c] \in Nat
      BY Before, NoneIsNone, ZenonT(60)
    <3> QED
      BY <3>1, SizeAssumption DEF DirBlock
  <2> QED
    BY <2>1, <2>2, <2>3, ZenonT(60)
<1>4. DirectoriesIntact'
  BY <1>2, <1>3, DirStep
<1> QED
  BY <1>1, <1>4

LEMMA JobTypes ==
  /\ NoJob \in Jobs /\ NoJob.kind = "none"
  /\ \A j \in Jobs :
       LET k == [j EXCEPT !.i = @ + 1]
       IN k \in Jobs /\ k.kind = j.kind /\ k.p = j.p /\ k.c = j.c /\ k.from = j.from /\ k.n = j.n /\ k.i = j.i + 1
BY SizeAssumption DEF NoJob, Jobs

RegionCall(k, p, from, n) == [NoJob EXCEPT !.kind = k, !.p = p, !.from = from, !.n = n]

LEMMA RegionJob ==
  ASSUME NEW k \in {"brk", "mmap"}, NEW p \in Procs, NEW from \in Nat, NEW n \in Nat
  PROVE  LET j == RegionCall(k, p, from, n)
         IN j \in Jobs /\ j.kind = k /\ j.from = from /\ j.n = n /\ j.i = 0
<1> DEFINE r0 == [kind |-> "none", p |-> Boot, c |-> Boot, from |-> 0, n |-> 0, i |-> 0]
           r1 == [kind |-> k, p |-> Boot, c |-> Boot, from |-> 0, n |-> 0, i |-> 0]
           r2 == [kind |-> k, p |-> p, c |-> Boot, from |-> 0, n |-> 0, i |-> 0]
           r3 == [kind |-> k, p |-> p, c |-> Boot, from |-> from, n |-> 0, i |-> 0]
           r4 == [kind |-> k, p |-> p, c |-> Boot, from |-> from, n |-> n, i |-> 0]
<1>1. [r0 EXCEPT !.kind = k] = r1
  OBVIOUS
<1>2. [r1 EXCEPT !.p = p] = r2
  OBVIOUS
<1>3. [r2 EXCEPT !.from = from] = r3
  OBVIOUS
<1>4. [r3 EXCEPT !.n = n] = r4
  OBVIOUS
<1>5. NoJob = r0
  BY DEF NoJob
<1>6. r4 \in Jobs
  BY SizeAssumption DEF Jobs
<1>7. [NoJob EXCEPT !.kind = k, !.p = p, !.from = from, !.n = n] = r4
  <2> HIDE DEF r0, r1, r2, r3, r4
  <2> QED
    BY <1>1, <1>2, <1>3, <1>4, <1>5, ZenonT(60)
<1> QED
  BY <1>6, <1>7, ZenonT(60) DEF RegionCall

LEMMA HeapJob ==
  ASSUME NEW from \in Nat, NEW n \in Nat
  PROVE  LET j == [NoJob EXCEPT !.kind = "heap", !.from = from, !.n = n]
         IN j \in Jobs /\ j.kind = "heap" /\ j.from = from /\ j.n = n /\ j.i = 0
<1> DEFINE r0 == [kind |-> "none", p |-> Boot, c |-> Boot, from |-> 0, n |-> 0, i |-> 0]
           r1 == [kind |-> "heap", p |-> Boot, c |-> Boot, from |-> 0, n |-> 0, i |-> 0]
           r2 == [kind |-> "heap", p |-> Boot, c |-> Boot, from |-> from, n |-> 0, i |-> 0]
           r3 == [kind |-> "heap", p |-> Boot, c |-> Boot, from |-> from, n |-> n, i |-> 0]
<1>1. [r0 EXCEPT !.kind = "heap"] = r1
  OBVIOUS
<1>2. [r1 EXCEPT !.from = from] = r2
  OBVIOUS
<1>3. [r2 EXCEPT !.n = n] = r3
  OBVIOUS
<1>4. NoJob = r0
  BY DEF NoJob
<1>5. r3 \in Jobs
  BY SizeAssumption DEF Jobs
<1>6. [NoJob EXCEPT !.kind = "heap", !.from = from, !.n = n] = r3
  <2> HIDE DEF r0, r1, r2, r3
  <2> QED
    BY <1>1, <1>2, <1>3, <1>4, ZenonT(60)
<1> QED
  BY <1>5, <1>6, ZenonT(60)

LEMMA ForkJob ==
  ASSUME NEW p \in Procs, NEW c \in Procs
  PROVE  LET j == [NoJob EXCEPT !.kind = "fork", !.p = p, !.c = c]
         IN j \in Jobs /\ j.kind = "fork" /\ j.p = p /\ j.c = c
<1> DEFINE r0 == [kind |-> "none", p |-> Boot, c |-> Boot, from |-> 0, n |-> 0, i |-> 0]
           r1 == [kind |-> "fork", p |-> Boot, c |-> Boot, from |-> 0, n |-> 0, i |-> 0]
           r2 == [kind |-> "fork", p |-> p, c |-> Boot, from |-> 0, n |-> 0, i |-> 0]
           r3 == [kind |-> "fork", p |-> p, c |-> c, from |-> 0, n |-> 0, i |-> 0]
<1>1. [r0 EXCEPT !.kind = "fork"] = r1
  OBVIOUS
<1>2. [r1 EXCEPT !.p = p] = r2
  OBVIOUS
<1>3. [r2 EXCEPT !.c = c] = r3
  OBVIOUS
<1>4. NoJob = r0
  BY DEF NoJob
<1>5. r3 \in Jobs
  BY SizeAssumption DEF Jobs
<1>6. [NoJob EXCEPT !.kind = "fork", !.p = p, !.c = c] = r3
  <2> HIDE DEF r0, r1, r2, r3
  <2> QED
    BY <1>1, <1>2, <1>3, <1>4, ZenonT(60)
<1> QED
  BY <1>5, <1>6

\* With no system call in progress there is nothing to say of it.
LEMMA NoJobOK == job' = NoJob => JobOK'
BY DEF JobOK, NoJob

LEMMA BlockStep ==
  ASSUME MInv, NEW n \in Nat \ {0}, job = NoJob, HasRoom(n), linear(n) \/ linear_fails(n, {}, {}) \/ linear_asserts(n),
         upage' = upage, dir' = dir, tab' = tab, seg_end' = seg_end, job' = job
  PROVE  MInv'
<1>1. Boot \in Procs
  BY SizeAssumption
<1>2. \A q \in Procs : \A k \in KernelPages(q) : k \in KPages /\ k < data_end
  BY KernelBound, ZenonT(60)
<1>3. /\ Accounts(used', kpage', upage', lost') /\ num_allocated' = Cardinality(used') /\ num_allocated' \in Int
      /\ data_end' \in KPages /\ data_end' >= data_end /\ stopped' \in BOOLEAN
      /\ \A k \in KPages : k < data_end => kpage'[k] = kpage[k]
  <2>0. data_end \in Nat /\ stopped \in BOOLEAN
    BY Before DEF TypeOK
  <2>1. CASE linear(n)
    BY <1>1, <2>0, <2>1, LinearStep
  <2>2. CASE linear_fails(n, {}, {})
    <3>1. /\ Accounts(used', kpage', upage', lost') /\ num_allocated' = Cardinality(used') /\ num_allocated' \in Int
          /\ data_end' \in KPages /\ data_end' = data_end + n /\ stopped' = stopped
          /\ \A k \in KPages : k < data_end => kpage'[k] = kpage[k]
      BY <1>1, <2>2, FailNothing
    <3>2. data_end + n >= data_end
      BY <1>1, <2>0
    <3> QED
      BY <2>0, <3>1, <3>2, ZenonT(60)
  <2>3. CASE linear_asserts(n)
    <3>1. /\ used' = used /\ num_allocated' = num_allocated /\ kpage' = kpage /\ data_end' = data_end
          /\ lost' = lost /\ stopped' = TRUE
      BY <2>3 DEF linear_asserts, frames
    <3>2. num_allocated \in Int
      BY ZenonT(60) DEF MInv, MemoryExact, FramesExact, TypeOK
    <3>3. Accounts(used, kpage, upage, lost) /\ num_allocated = Cardinality(used)
      BY Before, ZenonT(60)
    <3> QED
      BY <3>1, <3>2, <3>3, EndType
  <2> QED
    BY <1>1, <2>1, <2>2, <2>3, ZenonT(60)
<1>4. FramesExact'
  BY <1>1, <1>3, Before, After, ZenonT(60)
<1>5. DirectoriesIntact'
  <2>1. \A q \in Procs : \A k \in KernelPages(q) : kpage'[k] = kpage[k]
    BY <1>2, <1>3, ZenonT(60)
  <2>2. \A u \in UPages : upage'[Boot][u] # None => tab[Boot][TableOf(u)] # None
    BY <1>1, ZenonT(60) DEF MInv, MemoryExact, DirectoriesIntact
  <2> QED
    BY <1>1, <1>3, <2>1, <2>2, SameDirs, ZenonT(60)
<1>6. JobOK'
  BY <1>1, NoJobOK
<1> QED
  BY <1>4, <1>5, <1>6 DEF MInv, MemoryExact

LEMMA StepAlign == ASSUME MInv, NEW n \in DmaSizes, kmalloc_align(n) PROVE MInv'
BY BlockStep, SizeAssumption DEF kmalloc_align, Idle, spaces

\* A step that changes no page table and no bitmap.
LEMMA QuietStep ==
  ASSUME MInv, used' = used, num_allocated' = num_allocated, kpage' = kpage, upage' = upage, lost' = lost,
         dir' = dir, tab' = tab, stopped' = stopped, data_end' \in KPages, data_end' >= data_end,
         seg_end' \in [Procs -> Nat], job' \in Jobs
  PROVE  MemoryExact' /\ \A q \in Procs : KernelPages(q)' = KernelPages(q)
<1>1. FramesExact'
  <2>1. /\ Accounts(used', kpage', upage', lost') /\ num_allocated' = Cardinality(used') /\ num_allocated' \in Int
        /\ dir' \in [Procs -> KPages \cup {None}] /\ tab' \in [Procs -> [Tables -> KPages \cup {None}]]
        /\ stopped' \in BOOLEAN
    BY Before DEF TypeOK
  <2> QED
    BY <2>1, After, ZenonT(60)
<1>2. \A u \in UPages : upage'[Boot][u] # None => tab[Boot][TableOf(u)] # None
  BY SizeAssumption, ZenonT(60) DEF MInv, MemoryExact, DirectoriesIntact
<1>3. DirectoriesIntact' /\ \A q \in Procs : KernelPages(q)' = KernelPages(q)
  BY <1>2, SizeAssumption, SameDirs, ZenonT(60)
<1> QED
  BY <1>1, <1>3 DEF MemoryExact

LEMMA StepHeap == ASSUME MInv, NEW n \in Sizes, add_heap_memory(n) PROVE MInv'
<1>1. /\ HasRoom(n) /\ n \in Nat \ {0} /\ data_end' = data_end + n /\ data_end \in Nat
      /\ job' = [NoJob EXCEPT !.kind = "heap", !.from = data_end, !.n = n]
      /\ used' = used /\ num_allocated' = num_allocated /\ kpage' = kpage /\ upage' = upage /\ lost' = lost
      /\ dir' = dir /\ tab' = tab /\ stopped' = stopped /\ seg_end' = seg_end
  BY Before, SizeAssumption DEF add_heap_memory, Moved, frames, spaces
<1>2. job' \in Jobs /\ job'.kind = "heap" /\ job'.from = data_end /\ job'.n = n /\ job'.i = 0
  <2>1. LET j == [NoJob EXCEPT !.kind = "heap", !.from = data_end, !.n = n]
        IN j \in Jobs /\ j.kind = "heap" /\ j.from = data_end /\ j.n = n /\ j.i = 0
    BY <1>1, HeapJob, ZenonT(60)
  <2> QED
    BY <1>1, <2>1, ZenonT(60)
<1>3. data_end' \in KPages /\ data_end' >= data_end
  BY <1>1, SizeAssumption DEF HasRoom, KPages
<1>4. seg_end' \in [Procs -> Nat]
  BY <1>1, Before
<1>5. MemoryExact' /\ \A q \in Procs : KernelPages(q)' = KernelPages(q)
  BY <1>1, <1>2, <1>3, <1>4, QuietStep
<1>6. \A q \in Procs : \A k \in KernelPages(q)' : k < job'.from
  BY <1>2, <1>5, KernelBound
<1>7. job'.from + job'.n = data_end' /\ job'.i <= job'.n
  BY <1>1, <1>2
<1>8. JobOK'
  BY <1>2, <1>6, <1>7 DEF JobOK
<1> QED
  BY <1>5, <1>8 DEF MInv

LEMMA StepBrk == ASSUME MInv, NEW p \in Procs, NEW n \in Sizes, brk(p, n) \/ mmap(p, n) PROVE MInv'
<1>1. /\ n \in Nat \ {0} /\ seg_end[p] + n < UMax /\ data_end' = data_end /\ data_end \in Nat
      /\ used' = used /\ num_allocated' = num_allocated /\ kpage' = kpage /\ upage' = upage /\ lost' = lost
      /\ dir' = dir /\ tab' = tab /\ stopped' = stopped
  BY Before, SizeAssumption DEF brk, mmap, frames, spaces
<1>2. PICK k \in {"brk", "mmap"} : job' = RegionCall(k, p, seg_end[p], n)
  BY DEF brk, mmap, RegionCall
<1>3. seg_end' \in [Procs -> Nat] /\ seg_end[p] \in Nat
  <2>0. seg_end \in [Procs -> Nat]
    BY Before, ZenonT(60)
  <2>1. CASE brk(p, n)
    BY <2>0, <2>1 DEF brk, spaces
  <2>2. CASE mmap(p, n)
    <3>1. n \in Nat
      BY <1>1, ZenonT(60)
    <3> QED
      BY <2>0, <2>2, <3>1 DEF mmap
  <2> QED
    BY <2>1, <2>2, ZenonT(60)
<1>4. job' \in Jobs /\ job'.kind = k /\ job'.from = seg_end[p] /\ job'.n = n /\ job'.i = 0
  <2>1. n \in Nat
    BY <1>1
  <2>2. LET j == RegionCall(k, p, seg_end[p], n)
        IN j \in Jobs /\ j.kind = k /\ j.from = seg_end[p] /\ j.n = n /\ j.i = 0
    BY <1>3, <2>1, RegionJob
  <2> QED
    BY <1>2, <2>2
<1>5. data_end' \in KPages /\ data_end' >= data_end
  BY <1>1, EndType
<1>6. MemoryExact'
  BY <1>1, <1>3, <1>4, <1>5, QuietStep
<1>7. job'.from + job'.n < UMax /\ job'.i <= job'.n
  BY <1>1, <1>4
<1>8. JobOK'
  BY <1>2, <1>4, <1>7, ZenonT(60) DEF JobOK
<1> QED
  BY <1>6, <1>8 DEF MInv

\* The loop of mmu_allocate_region goes on, or it is over.
LEMMA AdvanceOK ==
  ASSUME MInv, InRegion, Advance
  PROVE  job' \in Jobs /\ seg_end' \in [Procs -> Nat] /\ JobOK'
<1>1. /\ job \in Jobs /\ seg_end \in [Procs -> Nat] /\ job.kind \in {"brk", "mmap"}
      /\ job.from + job.n < UMax /\ job.i <= job.n
  BY Before, ZenonT(60) DEF InRegion, MInv, JobOK
<1>2. job.p \in Procs /\ job.from \in Nat /\ job.n \in Nat /\ job.i \in Nat
  BY <1>1 DEF Jobs
<1>3. CASE job.i = job.n
  <2>1. job' = NoJob /\ seg_end' \in [Procs -> Nat]
    BY <1>1, <1>2, <1>3 DEF Advance
  <2> QED
    BY <2>1, JobTypes, NoJobOK
<1>4. CASE job.i # job.n
  <2>1. job' = [job EXCEPT !.i = @ + 1] /\ seg_end' = seg_end
    BY <1>4 DEF Advance
  <2>2. LET k == [job EXCEPT !.i = @ + 1]
        IN k \in Jobs /\ k.kind = job.kind /\ k.p = job.p /\ k.c = job.c /\ k.from = job.from /\ k.n = job.n /\ k.i = job.i + 1
    BY <1>1, JobTypes
  <2>3. job' \in Jobs /\ job'.kind = job.kind /\ job'.from = job.from /\ job'.n = job.n /\ job'.i = job.i + 1
    BY <2>1, <2>2
  <2>4. job'.from + job'.n < UMax /\ job'.i <= job'.n
    BY <1>1, <1>2, <1>4, <2>3
  <2>5. JobOK'
    BY <1>1, <2>3, <2>4 DEF JobOK
  <2> QED
    BY <1>1, <2>1, <2>3, <2>5
<1> QED
  BY <1>3, <1>4, ZenonT(60)

LEMMA StepPresent == ASSUME MInv, region_present PROVE MInv'
<1>1. /\ InRegion /\ Advance /\ data_end' = data_end /\ data_end \in KPages /\ data_end \in Nat
      /\ used' = used /\ num_allocated' = num_allocated /\ kpage' = kpage /\ upage' = upage /\ lost' = lost
      /\ dir' = dir /\ tab' = tab /\ stopped' = stopped
  BY Before DEF region_present, frames
<1>2. job' \in Jobs /\ seg_end' \in [Procs -> Nat] /\ JobOK'
  BY <1>1, AdvanceOK
<1>3. MemoryExact'
  BY <1>1, <1>2, QuietStep
<1> QED
  BY <1>2, <1>3 DEF MInv

LEMMA OneFree ==
  ASSUME MInv, get_free_frames(1) # None
  PROVE  get_free_frames(1) \in Frames \ used /\ get_free_frames(1) \in Nat
<1> DEFINE n == 1
<1>1. used \subseteq Frames /\ n \in Nat \ {0} /\ get_free_frames(n) # None
  BY DEF MInv, MemoryExact, FramesExact, TypeOK
<1> HIDE DEF n
<1>2. LET g == get_free_frames(n)
      IN  /\ g \in Nat /\ \A h \in g..(g + n - 1) : h \in Frames
          /\ n = 1 => g \in Frames \ used
  BY <1>1, FreeFrames
<1> QED
  BY <1>2 DEF n

\* One page of the heap gets a frame; what the page mapped is forgotten.
LEMMA HeapPage ==
  ASSUME MInv, NEW k \in KPages, NEW f, f = get_free_frames(1), f # None, Take({f}),
         kpage' = [kpage EXCEPT ![k] = f], lost' = lost \cup Held(kpage, {k})
  PROVE  Accounts(used', kpage', upage, lost') /\ num_allocated' = Cardinality(used') /\ num_allocated' \in Int
<1> DEFINE kp == Cleared(kpage, {k})
           L == Held(kpage, {k})
           S == {}
           G == {}
           K == {k}
<1>1. f \in Frames \ used /\ f \in Nat
  BY OneFree, ZenonT(60)
<1>2. /\ kp \in [KPages -> Frames \cup {None}]
      /\ \A l \in KPages : kp[l] = IF l \in K THEN None ELSE kpage[l]
  BY Before, ZenonT(60) DEF Cleared
<1>3. /\ upage \in [Procs -> [UPages -> Frames \cup {None}]] /\ Accounts(used, kpage, upage, lost)
      /\ Boot \in Procs /\ S \in SUBSET UPages /\ K \in SUBSET KPages
  BY Before, SizeAssumption, ZenonT(60)
<1>4. Held(upage[Boot], S) = {}
  BY ZenonT(60) DEF Held
<1>5. L \in SUBSET (Held(kpage, K) \cup Held(upage[Boot], S)) /\ G = (Held(kpage, K) \cup Held(upage[Boot], S)) \ L
  BY <1>4, ZenonT(60)
<1>6. \A q \in Procs, u \in UPages : upage[q][u] = IF q = Boot /\ u \in S THEN None ELSE upage[q][u]
  OBVIOUS
<1>7. Clears(kpage, upage, K, Boot, S, L, G, kp, upage)
  <2> HIDE DEF L, S, G, kp, K
  <2> QED
    BY <1>2, <1>3, <1>5, <1>6 DEF Clears
<1>8. Accounts(used, kp, upage, lost')
  <2>1. Accounts(used \ G, kp, upage, lost \cup L)
    <3> HIDE DEF L, S, G, kp, K
    <3> QED
      BY <1>3, <1>7, ClearAccounts, ZenonT(60)
  <2>2. used \ G = used /\ lost' = lost \cup L
    OBVIOUS
  <2> QED
    BY <2>1, <2>2
<1>9. /\ k \in Nat /\ k + 1 <= KMax + 1 /\ f..(f + 1 - 1) = {f} /\ k..(k + 1 - 1) = {k}
  BY <1>1, SizeAssumption DEF KPages
<1>10. kpage' = [l \in KPages |-> IF l \in k..(k + 1 - 1) THEN f + (l - k) ELSE kp[l]]
  <2>1. kpage \in [KPages -> Frames \cup {None}]
    BY Before, ZenonT(60)
  <2>2. ASSUME NEW l \in KPages
        PROVE  kpage'[l] = IF l \in k..(k + 1 - 1) THEN f + (l - k) ELSE kp[l]
    <3>1. CASE l = k
      BY <1>1, <1>9, <2>1, <3>1
    <3>2. CASE l # k
      BY <1>2, <1>9, <2>1, <3>2
    <3> QED
      BY <3>1, <3>2
  <2>3. kpage' = [l \in KPages |-> kpage'[l]]
    BY <2>1, ZenonT(60)
  <2> QED
    BY <2>2, <2>3, ZenonT(60)
<1>11. (\A g \in f..(f + 1 - 1) : g \in Frames /\ g \notin used) /\ \A l \in k..(k + 1 - 1) : kp[l] = None
  BY <1>1, <1>2, <1>9, ZenonT(60)
<1>12. Accounts(used \cup (f..(f + 1 - 1)), kpage', upage, lost')
  <2> DEFINE n == 1
  <2>1. /\ n \in Nat /\ k \in Nat /\ f \in Nat /\ k + n <= KMax + 1
        /\ \A g \in f..(f + n - 1) : g \in Frames /\ g \notin used
        /\ \A l \in k..(k + n - 1) : kp[l] = None
        /\ kpage' = [l \in KPages |-> IF l \in k..(k + n - 1) THEN f + (l - k) ELSE kp[l]]
    BY <1>1, <1>9, <1>10, <1>11, ZenonT(60)
  <2> HIDE DEF kp, n
  <2>2. Fills(used, kp, f, n, k, kpage')
    BY <2>1, ZenonT(60) DEF Fills
  <2>3. Accounts(used \cup (f..(f + n - 1)), kpage', upage, lost')
    BY <1>8, <2>2, MapKernel
  <2> QED
    BY <2>3 DEF n
<1>13. used' = used \cup (f..(f + 1 - 1))
  BY <1>9 DEF Take
<1>14. {f} \in SUBSET Frames /\ {f} \cap used = {}
  BY <1>1, ZenonT(60)
<1>15. num_allocated' = Cardinality(used') /\ num_allocated' \in Int
  BY <1>14, Before, CountTaken
<1> QED
  BY <1>12, <1>13, <1>15

LEMMA StepHeapPage == ASSUME MInv, shared_kernel_page PROVE MInv'
<1> DEFINE k == job.from + job.i
           f == get_free_frames(1)
           R == job.from..(job.from + job.n - 1)
<1>1. /\ job.kind = "heap" /\ lost' = lost \cup Held(kpage, {k})
      /\ \/ /\ f # None /\ Take({f}) /\ kpage' = [kpage EXCEPT ![k] = f]
            /\ job' = IF job.i = job.n THEN NoJob ELSE [job EXCEPT !.i = @ + 1]
         \/ /\ f = None /\ Give(Held(kpage, R \ {k})) /\ kpage' = Cleared(kpage, R \cup {k})
            /\ job' = NoJob
      /\ data_end' = data_end /\ upage' = upage /\ dir' = dir /\ tab' = tab /\ seg_end' = seg_end
      /\ stopped' = stopped
  BY DEF shared_kernel_page, Doing, spaces
<1>2. /\ job.from + job.n = data_end /\ job.i <= job.n
      /\ \A p \in Procs : \A l \in KernelPages(p) : l < job.from
  BY <1>1, ZenonT(60) DEF MInv, JobOK
<1>3. job \in Jobs /\ job.from \in Nat /\ job.n \in Nat /\ job.i \in Nat /\ data_end \in KPages
  BY Before DEF Jobs
<1>4. k \in KPages /\ k >= job.from /\ R \cup {k} \subseteq KPages
  BY <1>2, <1>3, SizeAssumption DEF KPages
<1>5. /\ Accounts(used', kpage', upage', lost') /\ num_allocated' = Cardinality(used') /\ num_allocated' \in Int
      /\ \A l \in KPages : l < job.from => kpage'[l] = kpage[l]
  <2>1. CASE f # None /\ Take({f}) /\ kpage' = [kpage EXCEPT ![k] = f]
    <3>1. Accounts(used', kpage', upage, lost') /\ num_allocated' = Cardinality(used') /\ num_allocated' \in Int
      <4> HIDE DEF k
      <4> QED
        BY <1>1, <1>4, <2>1, HeapPage, ZenonT(60)
    <3>2. ASSUME NEW l \in KPages, l < job.from PROVE kpage'[l] = kpage[l]
      <4>1. l # k
        BY <1>3, <1>4, <3>2, NoneIsNone
      <4> QED
        BY <2>1, <4>1, Before, ZenonT(60)
    <3> QED
      BY <1>1, <3>1, <3>2
  <2>2. CASE f = None /\ Give(Held(kpage, R \ {k})) /\ kpage' = Cleared(kpage, R \cup {k})
    <3> DEFINE K == R \cup {k}
               L == Held(kpage, {k})
               S == {}
               G == Held(kpage, R \ {k})
    <3>1. /\ kpage' \in [KPages -> Frames \cup {None}]
          /\ \A l \in KPages : kpage'[l] = IF l \in K THEN None ELSE kpage[l]
      BY <2>2, Before DEF Cleared
    <3>2. /\ upage' \in [Procs -> [UPages -> Frames \cup {None}]]
          /\ \A q \in Procs, u \in UPages : upage'[q][u] = IF q = Boot /\ u \in S THEN None ELSE upage[q][u]
      BY <1>1, Before
    <3>3. Held(upage[Boot], S) = {}
      BY DEF Held
    <3>4. G = (Held(kpage, K) \cup Held(upage[Boot], S)) \ L /\ L \in SUBSET (Held(kpage, K) \cup Held(upage[Boot], S))
      <4>1. \A x, y \in KPages : kpage[x] # None /\ kpage[x] = kpage[y] => x = y
        BY Before, ZenonT(60) DEF Accounts
      <4>2. Held(kpage, R \ {k}) = Held(kpage, R \cup {k}) \ Held(kpage, {k}) /\ Held(kpage, {k}) \subseteq Held(kpage, R \cup {k})
        <5> HIDE DEF k, R
        <5> QED
          BY <1>4, <4>1 DEF Held
      <4> QED
        BY <3>3, <4>2, ZenonT(60)
    <3>5. K \in SUBSET KPages /\ S \in SUBSET UPages /\ Boot \in Procs
      BY <1>4, SizeAssumption, ZenonT(60)
    <3>6. Clears(kpage, upage, K, Boot, S, L, G, kpage', upage')
      <4> HIDE DEF K, L, S, G
      <4> QED
        BY <3>1, <3>2, <3>4, <3>5 DEF Clears
    <3>7. Accounts(used', kpage', upage', lost') /\ num_allocated' = Cardinality(used') /\ num_allocated' \in Int
      <4>1. Give(G) /\ lost' = lost \cup L
        BY <1>1, <2>2
      <4> HIDE DEF K, L, S, G
      <4> QED
        BY <3>6, <4>1, ClearStep
    <3>8. ASSUME NEW l \in KPages, l < job.from PROVE kpage'[l] = kpage[l]
      <4>1. l \notin K
        BY <1>3, <1>4, <3>8, NoneIsNone
      <4> QED
        BY <3>1, <4>1
    <3> QED
      BY <3>7, <3>8, ZenonT(60)
  <2> QED
    BY <1>1, <2>1, <2>2
<1>6. job' \in Jobs /\ JobOK'
  <2>1. CASE job' = NoJob
    BY <2>1, JobTypes, NoJobOK
  <2>2. CASE job.i # job.n /\ job' = [job EXCEPT !.i = @ + 1]
    <3>1. LET j == [job EXCEPT !.i = @ + 1]
          IN j \in Jobs /\ j.kind = job.kind /\ j.p = job.p /\ j.c = job.c /\ j.from = job.from /\ j.n = job.n /\ j.i = job.i + 1
      BY <1>3, JobTypes
    <3>2. job' \in Jobs /\ job'.kind = "heap" /\ job'.from = job.from /\ job'.n = job.n /\ job'.i = job.i + 1
      BY <1>1, <2>2, <3>1
    <3>3. job'.from + job'.n = data_end' /\ job'.i <= job'.n
      BY <1>1, <1>2, <1>3, <2>2, <3>2
    <3>4. \A p \in Procs : \A l \in KernelPages(p)' : l < job'.from
      <4>1. \A p \in Procs : KernelPages(p)' = KernelPages(p)
        BY <1>1, ZenonT(60) DEF KernelPages
      <4> QED
        BY <1>2, <3>2, <4>1
    <3> QED
      BY <3>2, <3>3, <3>4 DEF JobOK
  <2> QED
    BY <1>1, <2>1, <2>2
<1>7. FramesExact'
  <2>1. /\ data_end' \in KPages /\ dir' \in [Procs -> KPages \cup {None}]
        /\ tab' \in [Procs -> [Tables -> KPages \cup {None}]] /\ seg_end' \in [Procs -> Nat] /\ stopped' \in BOOLEAN
    BY <1>1, Before DEF TypeOK
  <2> QED
    BY <1>5, <1>6, <2>1, After
<1>8. DirectoriesIntact'
  <2>1. \A q \in Procs : \A l \in KernelPages(q) : kpage'[l] = kpage[l]
    BY <1>2, <1>5, KernelBound
  <2>2. \A u \in UPages : upage'[Boot][u] # None => tab[Boot][TableOf(u)] # None
    BY <1>1, SizeAssumption DEF MInv, MemoryExact, DirectoriesIntact
  <2>3. data_end' \in KPages /\ data_end' >= data_end
    BY <1>1, EndType, ZenonT(60)
  <2> QED
    BY <1>1, <2>1, <2>2, <2>3, SizeAssumption, SameDirs, ZenonT(60)
<1> QED
  BY <1>6, <1>7, <1>8 DEF MInv, MemoryExact

\* A page of p gets a frame.
LEMMA UserPage ==
  ASSUME MInv, NEW p \in Procs, NEW u \in UPages, upage[p][u] = None, NEW f, f = get_free_frames(1), f # None,
         Take({f}), kpage' = kpage, lost' = lost, upage' = [upage EXCEPT ![p][u] = f]
  PROVE  /\ Accounts(used', kpage', upage', lost') /\ num_allocated' = Cardinality(used') /\ num_allocated' \in Int
         /\ \A q \in Procs \ {p} : upage'[q] = upage[q]
         /\ \A v \in UPages \ {u} : upage'[p][v] = upage[p][v]
<1>1. f \in Frames \ used
  BY OneFree
<1>2. Accounts(used, kpage, upage, lost) /\ upage \in [Procs -> [UPages -> Frames \cup {None}]]
  BY Before
<1>3. Accounts(used \cup {f}, kpage, upage', lost)
  <2> SUFFICES ASSUME NEW g \in Frames \ used, NEW up2, up2 = [upage EXCEPT ![p][u] = g]
               PROVE  Accounts(used \cup {g}, kpage, up2, lost)
    BY <1>1, ZenonT(60)
  <2> QED
    BY <1>2, MapUser, ZenonT(60)
<1>4. {f} \in SUBSET Frames /\ {f} \cap used = {}
  BY <1>1
<1>5. num_allocated' = Cardinality(used') /\ num_allocated' \in Int
  BY <1>4, Before, CountTaken, ZenonT(60)
<1>6. used' = used \cup {f}
  BY DEF Take
<1>7. /\ \A q \in Procs \ {p} : upage'[q] = upage[q]
      /\ \A v \in UPages \ {u} : upage'[p][v] = upage[p][v]
  BY <1>2, ZenonT(60)
<1> QED
  BY <1>3, <1>5, <1>6, <1>7

Emptied(p, S) == upage' = [upage EXCEPT ![p] = Cleared(@, S)]

\* mmu_free_address_range on the entries S of p.
LEMMA UserEntries ==
  ASSUME MInv, NEW p \in Procs, NEW S \in SUBSET UPages, Emptied(p, S)
  PROVE  /\ upage' \in [Procs -> [UPages -> Frames \cup {None}]]
         /\ \A q \in Procs, u \in UPages : upage'[q][u] = IF q = p /\ u \in S THEN None ELSE upage[q][u]
         /\ \A q \in Procs \ {p} : upage'[q] = upage[q]
<1>1. upage \in [Procs -> [UPages -> Frames \cup {None}]]
  BY Before
<1>2. Cleared(upage[p], S) \in [UPages -> Frames \cup {None}]
  BY <1>1 DEF Cleared
<1>3. \A u \in UPages : Cleared(upage[p], S)[u] = IF u \in S THEN None ELSE upage[p][u]
  BY <1>1 DEF Cleared
<1>4. \A q \in Procs : upage'[q] = IF q = p THEN Cleared(upage[p], S) ELSE upage[q]
  BY <1>1 DEF Emptied
<1>5. upage' \in [Procs -> [UPages -> Frames \cup {None}]]
  BY <1>1, <1>2 DEF Emptied
<1> QED
  BY <1>3, <1>4, <1>5, ZenonT(60)

LEMMA UserClear ==
  ASSUME MInv, NEW p \in Procs, NEW S \in SUBSET UPages, Emptied(p, S),
         Give(Held(upage[p], S)), kpage' = kpage, lost' = lost
  PROVE  Accounts(used', kpage', upage', lost') /\ num_allocated' = Cardinality(used') /\ num_allocated' \in Int
<1> DEFINE K == {}
           L == {}
           G == Held(upage[p], S)
<1>1. /\ upage' \in [Procs -> [UPages -> Frames \cup {None}]]
      /\ \A q \in Procs, u \in UPages : upage'[q][u] = IF q = p /\ u \in S THEN None ELSE upage[q][u]
  BY UserEntries
<1>2. /\ kpage' \in [KPages -> Frames \cup {None}]
      /\ \A l \in KPages : kpage'[l] = IF l \in K THEN None ELSE kpage[l]
  BY Before, ZenonT(60)
<1>3. Held(kpage, K) = {}
  BY DEF Held
<1>4. G = (Held(kpage, K) \cup Held(upage[p], S)) \ L /\ L \in SUBSET (Held(kpage, K) \cup Held(upage[p], S))
  BY <1>3
<1>5. K \in SUBSET KPages /\ Give(G) /\ lost' = lost \cup L
  OBVIOUS
<1> HIDE DEF K, L, G
<1>6. Clears(kpage, upage, K, p, S, L, G, kpage', upage')
  BY <1>1, <1>2, <1>4, <1>5, ZenonT(60) DEF Clears
<1> QED
  BY <1>5, <1>6, ClearStep, ZenonT(60)

\* The pages of a region are pages of the process.
LEMMA RegionPages ==
  ASSUME MInv, InRegion
  PROVE  /\ job.p \in Procs /\ RegionPage \in UPages /\ Region \in SUBSET UPages
         /\ TableOf(RegionPage) \in Tables /\ job.kind # "heap" /\ job.kind # "fork"
<1>1. job \in Jobs /\ job.from + job.n < UMax /\ job.i <= job.n /\ job.kind \in {"brk", "mmap"}
  BY Before, ZenonT(60) DEF InRegion, MInv, JobOK
<1>2. job.p \in Procs /\ job.from \in Nat /\ job.n \in Nat /\ job.i \in Nat
  BY <1>1 DEF Jobs
<1>3. RegionPage \in UPages /\ Region \in SUBSET UPages
  BY <1>1, <1>2, SizeAssumption DEF RegionPage, Region, UPages
<1> QED
  BY <1>1, <1>2, <1>3, ZenonT(60) DEF Tables

LEMMA StepRegionFrame == ASSUME MInv, region_frame PROVE MInv'
<1> DEFINE f == get_free_frames(1)
           p == job.p
<1>1. /\ InRegion /\ upage[p][RegionPage] = None /\ tab[p][TableOf(RegionPage)] # None
      /\ \/ /\ f # None /\ Take({f}) /\ Advance
            /\ upage' = [upage EXCEPT ![p][RegionPage] = f]
         \/ /\ f = None /\ Give(Held(upage[p], Region))
            /\ Emptied(p, Region)
            /\ job' = NoJob /\ seg_end' = seg_end
      /\ kpage' = kpage /\ data_end' = data_end /\ dir' = dir /\ tab' = tab /\ lost' = lost /\ stopped' = stopped
  BY DEF region_frame, Emptied
<1>2. /\ p \in Procs /\ RegionPage \in UPages /\ Region \in SUBSET UPages
      /\ TableOf(RegionPage) \in Tables
  BY <1>1, RegionPages, ZenonT(60)
<1>3. \A u \in UPages : upage[p][u] # None => tab[p][TableOf(u)] # None
  BY <1>2, ZenonT(60) DEF MInv, MemoryExact, DirectoriesIntact
<1>4. /\ Accounts(used', kpage', upage', lost') /\ num_allocated' = Cardinality(used') /\ num_allocated' \in Int
      /\ \A q \in Procs \ {p} : upage'[q] = upage[q]
      /\ \A u \in UPages : upage'[p][u] # None => tab[p][TableOf(u)] # None
      /\ job' \in Jobs /\ seg_end' \in [Procs -> Nat] /\ JobOK'
  <2> HIDE DEF p
  <2>1. CASE f # None /\ Take({f}) /\ Advance /\ upage' = [upage EXCEPT ![p][RegionPage] = f]
    <3>1. job' \in Jobs /\ seg_end' \in [Procs -> Nat] /\ JobOK'
      BY <1>1, <2>1, AdvanceOK, ZenonT(60)
    <3>2. /\ Accounts(used', kpage', upage', lost') /\ num_allocated' = Cardinality(used') /\ num_allocated' \in Int
          /\ \A q \in Procs \ {p} : upage'[q] = upage[q]
          /\ \A v \in UPages \ {RegionPage} : upage'[p][v] = upage[p][v]
      BY <1>1, <1>2, <2>1, UserPage, ZenonT(60)
    <3> QED
      BY <1>1, <1>3, <3>1, <3>2, ZenonT(60)
  <2>2. CASE /\ f = None /\ Give(Held(upage[p], Region))
             /\ Emptied(p, Region)
             /\ job' = NoJob /\ seg_end' = seg_end
    <3>1. job' \in Jobs /\ seg_end' \in [Procs -> Nat] /\ JobOK'
      BY <2>2, JobTypes, NoJobOK, Before, ZenonT(60)
    <3>2. Accounts(used', kpage', upage', lost') /\ num_allocated' = Cardinality(used') /\ num_allocated' \in Int
      BY <1>1, <1>2, <2>2, UserClear, ZenonT(60)
    <3>3. /\ \A q \in Procs, u \in UPages : upage'[q][u] = IF q = p /\ u \in Region THEN None ELSE upage[q][u]
          /\ \A q \in Procs \ {p} : upage'[q] = upage[q]
      BY <1>2, <2>2, UserEntries, ZenonT(60)
    <3> QED
      BY <1>2, <1>3, <3>1, <3>2, <3>3, ZenonT(60)
  <2> QED
    BY <1>1, <2>1, <2>2, ZenonT(60)
<1>5. FramesExact'
  <2>1. /\ data_end' \in KPages /\ dir' \in [Procs -> KPages \cup {None}]
        /\ tab' \in [Procs -> [Tables -> KPages \cup {None}]] /\ stopped' \in BOOLEAN
    BY <1>1, Before, ZenonT(60) DEF TypeOK
  <2> QED
    BY <1>4, <2>1, After, ZenonT(60)
<1>6. DirectoriesIntact'
  <2>1. data_end' \in KPages /\ data_end' >= data_end
    BY <1>1, EndType
  <2>2. \A q \in Procs : \A k \in KernelPages(q) : kpage'[k] = kpage[k]
    BY <1>1
  <2> HIDE DEF p
  <2> QED
    BY <1>1, <1>2, <1>4, <2>1, <2>2, SameDirs, ZenonT(60)
<1> QED
  BY <1>4, <1>5, <1>6, ZenonT(60) DEF MInv, MemoryExact

\* A page of the kernel becomes table t of c.
LEMMA NewTable ==
  ASSUME MInv, NEW c \in Procs, NEW t \in Tables, HasRoom(1), linear(1),
         tab' = [tab EXCEPT ![c][t] = data_end], dir' = dir, upage' = upage, seg_end' = seg_end, job' = job
  PROVE  MemoryExact'
<1>1. /\ Accounts(used', kpage', upage, lost') /\ num_allocated' = Cardinality(used') /\ num_allocated' \in Int
      /\ data_end' \in KPages /\ data_end' = data_end + 1 /\ stopped' = stopped
      /\ \A k \in KPages : k < data_end => kpage'[k] = kpage[k]
      /\ \A k \in data_end..(data_end' - 1) :
           kpage'[k] # None /\ k \in KPages /\ kpage'[k] = kpage'[data_end] + (k - data_end)
  <2> DEFINE n == 1
  <2>1. n \in Nat \ {0} /\ HasRoom(n) /\ linear(n)
    OBVIOUS
  <2> HIDE DEF n
  <2>2. /\ Accounts(used', kpage', upage, lost') /\ num_allocated' = Cardinality(used') /\ num_allocated' \in Int
        /\ data_end' \in KPages /\ data_end' = data_end + n /\ stopped' = stopped
        /\ \A k \in KPages : k < data_end => kpage'[k] = kpage[k]
        /\ \A k \in data_end..(data_end' - 1) :
             kpage'[k] # None /\ k \in KPages /\ kpage'[k] = kpage'[data_end] + (k - data_end)
    BY <2>1, LinearStep, ZenonT(60)
  <2> QED
    BY <2>2 DEF n
<1>2. /\ tab \in [Procs -> [Tables -> KPages \cup {None}]] /\ dir \in [Procs -> KPages \cup {None}]
      /\ seg_end \in [Procs -> Nat] /\ job \in Jobs /\ stopped \in BOOLEAN /\ data_end \in KPages /\ data_end \in Nat
  BY Before DEF TypeOK
<1>3. /\ tab' \in [Procs -> [Tables -> KPages \cup {None}]]
      /\ \A q \in Procs \ {c} : tab'[q] = tab[q]
      /\ \A s \in Tables : tab'[c][s] = IF s = t THEN data_end ELSE tab[c][s]
  BY <1>2, ZenonT(60)
<1>4. FramesExact'
  BY <1>1, <1>2, <1>3, After, ZenonT(60)
<1>5. \A q \in Procs : \A k \in KernelPages(q) : k \in KPages /\ k < data_end /\ kpage[k] # None /\ kpage'[k] = kpage[k]
  BY <1>1, KernelBound, ZenonT(60)
<1>6. data_end \in data_end..(data_end' - 1) /\ data_end' >= data_end
  BY <1>1, <1>2
<1>7. ASSUME NEW k \in KernelPages(c)' PROVE (k \in KernelPages(c) \/ k \in data_end..(data_end' - 1)) /\ kpage'[k] # None
  <2>1. k \in DirBlock(dir[c]) \/ \E s \in Tables : k = tab'[c][s] /\ k # None
    BY <1>7, ZenonT(60) DEF KernelPages
  <2>2. k \in KernelPages(c) \/ k = data_end
    BY <1>3, <2>1 DEF KernelPages
  <2>3. CASE k \in KernelPages(c)
    BY <1>5, <2>3
  <2>4. CASE k = data_end
    BY <1>1, <1>6, <2>4, ZenonT(60)
  <2> QED
    BY <2>2, <2>3, <2>4
<1>8. dir'[c] # None => \A k \in DirBlock(dir'[c]) : kpage'[k] = kpage'[dir'[c]] + (k - dir'[c])
  <2> SUFFICES ASSUME dir[c] # None PROVE \A k \in DirBlock(dir[c]) : kpage'[k] = kpage'[dir[c]] + (k - dir[c])
    OBVIOUS
  <2>1. \A k \in DirBlock(dir[c]) : kpage[k] = kpage[dir[c]] + (k - dir[c])
    BY DEF MInv, MemoryExact, DirectoriesIntact
  <2>2. \A k \in DirBlock(dir[c]) : kpage'[k] = kpage[k]
    BY <1>5 DEF KernelPages
  <2>3. dir[c] \in DirBlock(dir[c])
    <3>1. dir[c] \in Nat
      BY Before, NoneIsNone, ZenonT(60)
    <3> QED
      BY <3>1, SizeAssumption DEF DirBlock
  <2> QED
    BY <2>1, <2>2, <2>3
<1>9. \A u \in UPages : upage'[c][u] # None => tab'[c][TableOf(u)] # None
  <2>1. \A u \in UPages : upage[c][u] # None => tab[c][TableOf(u)] # None
    BY DEF MInv, MemoryExact, DirectoriesIntact
  <2>2. \A u \in UPages : TableOf(u) \in Tables
    BY ZenonT(60) DEF Tables
  <2> QED
    BY <1>2, <1>3, <2>1, <2>2, NoneIsNone, ZenonT(60)
<1>10. (\A q \in Procs \ {c} : dir'[q] = dir[q] /\ tab'[q] = tab[q]) /\ \A q \in Procs \ {c} : upage'[q] = upage[q]
  BY <1>3, ZenonT(60)
<1>11. \A q \in Procs \ {c} : \A k \in KernelPages(q) : kpage'[k] = kpage[k]
  BY <1>5, ZenonT(60)
<1>12. DirectoriesIntact'
  BY <1>1, <1>6, <1>7, <1>8, <1>9, <1>10, <1>11, DirStep, ZenonT(60)
<1> QED
  BY <1>4, <1>12 DEF MemoryExact

LEMMA StepRegionTable == ASSUME MInv, region_table PROVE MInv'
<1> DEFINE t == TableOf(RegionPage)
           p == job.p
<1>1. /\ InRegion /\ HasRoom(1) /\ dir' = dir /\ seg_end' = seg_end
      /\ \/ linear(1) /\ tab' = [tab EXCEPT ![p][t] = data_end] /\ upage' = upage /\ job' = job
         \/ /\ linear_fails(1, {}, Held(upage[p], Region)) /\ Emptied(p, Region)
            /\ job' = NoJob /\ tab' = tab
  BY DEF region_table, Emptied
<1>2. /\ p \in Procs /\ Region \in SUBSET UPages /\ t \in Tables /\ job.kind # "heap"
  BY <1>1, RegionPages
<1> HIDE DEF t, p
<1>3. CASE linear(1) /\ tab' = [tab EXCEPT ![p][t] = data_end] /\ upage' = upage /\ job' = job
  <2>1. MemoryExact'
    BY <1>1, <1>2, <1>3, NewTable, ZenonT(60)
  <2>2. JobOK'
    BY <1>2, <1>3 DEF MInv, JobOK
  <2> QED
    BY <2>1, <2>2 DEF MInv
<1>4. CASE /\ linear_fails(1, {}, Held(upage[p], Region)) /\ Emptied(p, Region)
           /\ job' = NoJob /\ tab' = tab
  <2>1. /\ upage' \in [Procs -> [UPages -> Frames \cup {None}]]
        /\ \A q \in Procs, u \in UPages : upage'[q][u] = IF q = p /\ u \in Region THEN None ELSE upage[q][u]
        /\ \A q \in Procs \ {p} : upage'[q] = upage[q]
    BY <1>2, <1>4, UserEntries, ZenonT(60)
  <2>2. /\ Accounts(used', kpage', upage', lost') /\ num_allocated' = Cardinality(used') /\ num_allocated' \in Int
        /\ data_end' \in KPages /\ data_end' = data_end + 1 /\ stopped' = stopped
        /\ \A k \in KPages : k < data_end => kpage'[k] = kpage[k]
    <3> DEFINE n == 1
               K == {}
               S == Region
    <3>1. n \in Nat \ {0} /\ HasRoom(n) /\ K \in SUBSET KPages /\ S \in SUBSET UPages /\ linear_fails(n, K, Held(upage[p], S))
      BY <1>1, <1>2, <1>4
    <3>2. Empties(p, S) /\ \A k \in KPages : k \notin K
      BY <2>1, ZenonT(60) DEF Empties
    <3> HIDE DEF n, K, S
    <3>3. /\ Accounts(used', kpage', upage', lost') /\ num_allocated' = Cardinality(used') /\ num_allocated' \in Int
          /\ data_end' \in KPages /\ data_end' = data_end + n /\ stopped' = stopped
          /\ \A k \in KPages : k < data_end /\ k \notin K => kpage'[k] = kpage[k]
      BY <1>2, <3>1, <3>2, FailStep, ZenonT(60)
    <3> QED
      BY <3>2, <3>3 DEF n
  <2>3. FramesExact'
    <3>1. /\ dir' \in [Procs -> KPages \cup {None}] /\ tab' \in [Procs -> [Tables -> KPages \cup {None}]]
          /\ seg_end' \in [Procs -> Nat] /\ stopped' \in BOOLEAN /\ job' \in Jobs
      BY <1>1, <1>4, <2>2, JobTypes, Before, ZenonT(60) DEF TypeOK
    <3> QED
      BY <2>2, <3>1, After
  <2>4. DirectoriesIntact'
    <3>1. data_end' >= data_end
      BY <2>2, EndType
    <3>2. \A q \in Procs : \A k \in KernelPages(q) : kpage'[k] = kpage[k]
      BY <2>2, KernelBound, ZenonT(60)
    <3>3. \A u \in UPages : upage'[p][u] # None => tab[p][TableOf(u)] # None
      BY <1>2, <2>1, ZenonT(60) DEF MInv, MemoryExact, DirectoriesIntact
    <3> QED
      BY <1>1, <1>2, <1>4, <2>1, <2>2, <3>1, <3>2, <3>3, SameDirs, ZenonT(60)
  <2>5. JobOK'
    BY <1>4, NoJobOK
  <2> QED
    BY <2>3, <2>4, <2>5, ZenonT(60) DEF MInv, MemoryExact
<1> QED
  BY <1>1, <1>3, <1>4, ZenonT(60)

\* What Forget and exit leave of process c.
Forgets(c) == /\ dir' = [dir EXCEPT ![c] = None]
              /\ tab' = [tab EXCEPT ![c] = [t \in Tables |-> None]]
              /\ upage' = [upage EXCEPT ![c] = [u \in UPages |-> None]]
              /\ seg_end' = [seg_end EXCEPT ![c] = 0]

LEMMA ForgetEntries ==
  ASSUME MInv, NEW c \in Procs, Forgets(c)
  PROVE  /\ Empties(c, UPages)
         /\ dir' \in [Procs -> KPages \cup {None}] /\ tab' \in [Procs -> [Tables -> KPages \cup {None}]]
         /\ seg_end' \in [Procs -> Nat]
         /\ \A q \in Procs \ {c} : dir'[q] = dir[q] /\ tab'[q] = tab[q]
         /\ \A q \in Procs \ {c} : upage'[q] = upage[q]
         /\ dir'[c] = None /\ KernelPages(c)' = {} /\ \A u \in UPages : upage'[c][u] = None
<1>1. /\ upage \in [Procs -> [UPages -> Frames \cup {None}]] /\ dir \in [Procs -> KPages \cup {None}]
      /\ tab \in [Procs -> [Tables -> KPages \cup {None}]] /\ seg_end \in [Procs -> Nat]
  BY Before, ZenonT(60)
<1>2. /\ \A q \in Procs \ {c} : upage'[q] = upage[q]
      /\ upage'[c] = [u \in UPages |-> None] /\ upage' \in [Procs -> [UPages -> Frames \cup {None}]]
  BY <1>1 DEF Forgets
<1>3. /\ \A q \in Procs \ {c} : tab'[q] = tab[q]
      /\ tab'[c] = [t \in Tables |-> None] /\ tab' \in [Procs -> [Tables -> KPages \cup {None}]]
  BY <1>1 DEF Forgets
<1>4. /\ \A q \in Procs \ {c} : dir'[q] = dir[q]
      /\ dir'[c] = None /\ dir' \in [Procs -> KPages \cup {None}] /\ seg_end' \in [Procs -> Nat]
  BY <1>1 DEF Forgets
<1>5. \A u \in UPages : upage'[c][u] = None
  BY <1>2
<1>6. Empties(c, UPages)
  BY <1>2, <1>5 DEF Empties
<1>7. KernelPages(c)' = {}
  <2>1. \A t \in Tables : tab'[c][t] = None
    BY <1>3
  <2> QED
    BY <1>4, <2>1, ZenonT(60) DEF KernelPages, DirBlock
<1> QED
  BY <1>2, <1>3, <1>4, <1>5, <1>6, <1>7, ZenonT(60)

LEMMA ForgetStep ==
  ASSUME MInv, NEW c \in Procs, Forgets(c), job' = NoJob,
         Accounts(used', kpage', upage', lost'), num_allocated' = Cardinality(used'), num_allocated' \in Int,
         data_end' \in KPages, data_end' >= data_end, stopped' = stopped,
         \A k \in KPages : k < data_end /\ k \notin KernelPages(c) => kpage'[k] = kpage[k]
  PROVE  MInv'
<1>1. /\ dir' \in [Procs -> KPages \cup {None}] /\ tab' \in [Procs -> [Tables -> KPages \cup {None}]]
      /\ seg_end' \in [Procs -> Nat]
      /\ \A q \in Procs \ {c} : dir'[q] = dir[q] /\ tab'[q] = tab[q]
      /\ \A q \in Procs \ {c} : upage'[q] = upage[q]
      /\ dir'[c] = None /\ KernelPages(c)' = {} /\ \A u \in UPages : upage'[c][u] = None
  BY ForgetEntries, ZenonT(60)
<1>2. FramesExact'
  <2>1. stopped' \in BOOLEAN /\ job' \in Jobs
    BY JobTypes, Before, ZenonT(60) DEF TypeOK
  <2> QED
    BY <1>1, <2>1, After, ZenonT(60)
<1>3. ASSUME NEW q \in Procs \ {c}, NEW k \in KernelPages(q) PROVE kpage'[k] = kpage[k]
  <2>1. k \notin KernelPages(c)
    BY ZenonT(60) DEF MInv, MemoryExact, DirectoriesIntact
  <2> QED
    BY <2>1, KernelBound, ZenonT(60)
<1>4. /\ \A k \in KernelPages(c)' : (k \in KernelPages(c) \/ k \in data_end..(data_end' - 1)) /\ kpage'[k] # None
      /\ dir'[c] # None => \A k \in DirBlock(dir'[c]) : kpage'[k] = kpage'[dir'[c]] + (k - dir'[c])
      /\ \A u \in UPages : upage'[c][u] # None => tab'[c][TableOf(u)] # None
  BY <1>1, ZenonT(60)
<1>5. DirectoriesIntact'
  BY <1>1, <1>3, <1>4, DirStep, ZenonT(60)
<1>6. JobOK'
  BY NoJobOK, ZenonT(60)
<1> QED
  BY <1>2, <1>5, <1>6, ZenonT(60) DEF MInv, MemoryExact

LEMMA StepExit == ASSUME MInv, NEW p \in Procs, exit(p) PROVE MInv'
<1> DEFINE K == KernelPages(p)
           S == UPages
           L == {}
           G == Held(upage[p], UPages) \cup Held(kpage, KernelPages(p))
<1>1. /\ Give(G) /\ kpage' = Cleared(kpage, K) /\ Forgets(p) /\ job' = NoJob /\ data_end' = data_end
      /\ lost' = lost /\ stopped' = stopped
  BY ZenonT(60) DEF exit, Idle, Forgets
<1>2. Empties(p, S)
  BY <1>1, ForgetEntries, ZenonT(60)
<1>3. K \in SUBSET KPages /\ S \in SUBSET UPages
  BY KernelBound
<1>4. /\ kpage' \in [KPages -> Frames \cup {None}]
      /\ \A k \in KPages : kpage'[k] = IF k \in K THEN None ELSE kpage[k]
  BY <1>1, Before DEF Cleared
<1>5. G = (Held(kpage, K) \cup Held(upage[p], S)) \ L /\ L \in SUBSET (Held(kpage, K) \cup Held(upage[p], S))
  OBVIOUS
<1>6. lost' = lost \cup L
  BY <1>1, ZenonT(60)
<1> HIDE DEF K, S, L, G
<1>7. Clears(kpage, upage, K, p, S, L, G, kpage', upage')
  BY <1>2, <1>3, <1>4, <1>5, ZenonT(60) DEF Clears, Empties
<1>8. Accounts(used', kpage', upage', lost') /\ num_allocated' = Cardinality(used') /\ num_allocated' \in Int
  BY <1>1, <1>6, <1>7, ClearStep
<1>9. data_end' \in KPages /\ data_end' >= data_end
  BY <1>1, EndType
<1>10. \A k \in KPages : k < data_end /\ k \notin KernelPages(p) => kpage'[k] = kpage[k]
  BY <1>4 DEF K
<1> QED
  BY <1>1, <1>8, <1>9, <1>10, ForgetStep, ZenonT(60)

LEMMA StepFork == ASSUME MInv, NEW p \in Procs, NEW c \in Procs, fork(p, c) PROVE MInv'
<1>1. /\ job = NoJob /\ HasRoom(DirPages) /\ dir[c] = None /\ p # c /\ upage' = upage /\ tab' = tab
      /\ \/ /\ linear(DirPages) /\ dir' = [dir EXCEPT ![c] = data_end]
            /\ seg_end' = [seg_end EXCEPT ![c] = seg_end[p]]
            /\ job' = [NoJob EXCEPT !.kind = "fork", !.p = p, !.c = c]
         \/ /\ linear_fails(DirPages, {}, {}) \/ linear_asserts(DirPages)
            /\ dir' = dir /\ seg_end' = seg_end /\ job' = job
  BY DEF fork, Idle, Alive
<1>2. DirPages \in Nat \ {0}
  BY SizeAssumption
<1>3. CASE (linear_fails(DirPages, {}, {}) \/ linear_asserts(DirPages)) /\ dir' = dir /\ seg_end' = seg_end /\ job' = job
  BY <1>1, <1>2, <1>3, BlockStep
<1>4. CASE /\ linear(DirPages) /\ dir' = [dir EXCEPT ![c] = data_end]
           /\ seg_end' = [seg_end EXCEPT ![c] = seg_end[p]]
           /\ job' = [NoJob EXCEPT !.kind = "fork", !.p = p, !.c = c]
  <2>1. /\ Accounts(used', kpage', upage, lost') /\ num_allocated' = Cardinality(used') /\ num_allocated' \in Int
        /\ data_end' \in KPages /\ data_end' = data_end + DirPages /\ stopped' = stopped
        /\ \A k \in KPages : k < data_end => kpage'[k] = kpage[k]
        /\ \A k \in data_end..(data_end' - 1) :
             kpage'[k] # None /\ k \in KPages /\ kpage'[k] = kpage'[data_end] + (k - data_end)
    BY <1>1, <1>2, <1>4, LinearStep, ZenonT(60)
  <2>2. /\ tab \in [Procs -> [Tables -> KPages \cup {None}]] /\ dir \in [Procs -> KPages \cup {None}]
        /\ seg_end \in [Procs -> Nat] /\ stopped \in BOOLEAN /\ data_end \in KPages /\ data_end \in Nat
    BY Before, ZenonT(60) DEF TypeOK
  <2>3. /\ dir' \in [Procs -> KPages \cup {None}] /\ dir'[c] = data_end /\ seg_end' \in [Procs -> Nat]
        /\ \A q \in Procs \ {c} : dir'[q] = dir[q]
    BY <1>4, <2>2
  <2>4. job' \in Jobs /\ job'.kind = "fork" /\ job'.p = p /\ job'.c = c
    <3>1. LET j == [NoJob EXCEPT !.kind = "fork", !.p = p, !.c = c]
          IN j \in Jobs /\ j.kind = "fork" /\ j.p = p /\ j.c = c
      BY ForkJob, ZenonT(60)
    <3> QED
      BY <1>4, <3>1, ZenonT(60)
  <2>5. FramesExact'
    BY <1>1, <2>1, <2>2, <2>3, <2>4, After, ZenonT(60)
  <2>6. data_end # None /\ data_end' >= data_end /\ DirBlock(dir'[c]) = data_end..(data_end' - 1)
    BY <1>2, <2>1, <2>2, <2>3 DEF DirBlock, None
  <2>7. ASSUME NEW k \in KernelPages(c)' PROVE (k \in KernelPages(c) \/ k \in data_end..(data_end' - 1)) /\ kpage'[k] # None
    <3>1. k \in KernelPages(c) \/ k \in data_end..(data_end' - 1)
      BY <1>1, <2>6, <2>7, ZenonT(60) DEF KernelPages
    <3>2. CASE k \in KernelPages(c)
      <4>1. k \in KPages /\ k < data_end /\ kpage[k] # None
        BY <3>2, KernelBound, ZenonT(60)
      <4> QED
        BY <2>1, <3>1, <4>1
    <3> QED
      BY <2>1, <3>1, <3>2
  <2>8. dir'[c] # None => \A k \in DirBlock(dir'[c]) : kpage'[k] = kpage'[dir'[c]] + (k - dir'[c])
    BY <2>1, <2>3, <2>6
  <2>9. \A q \in Procs \ {c} : \A k \in KernelPages(q) : kpage'[k] = kpage[k]
    BY <2>1, KernelBound, ZenonT(60)
  <2>10. /\ \A u \in UPages : upage'[c][u] # None => tab'[c][TableOf(u)] # None
         /\ \A q \in Procs \ {c} : dir'[q] = dir[q] /\ tab'[q] = tab[q]
         /\ \A q \in Procs \ {c} : upage'[q] = upage[q]
    BY <1>1, <2>3 DEF MInv, MemoryExact, DirectoriesIntact
  <2>11. DirectoriesIntact'
    BY <2>1, <2>6, <2>7, <2>8, <2>9, <2>10, DirStep, ZenonT(60)
  <2>12. JobOK'
    BY <1>1, <2>4 DEF JobOK
  <2> QED
    BY <2>5, <2>11, <2>12 DEF MInv, MemoryExact
<1> QED
  BY <1>1, <1>3, <1>4

\* While a process is cloned.
LEMMA Cloning ==
  ASSUME MInv, Doing("fork")
  PROVE  /\ job.c \in Procs /\ job.p \in Procs /\ job.p # job.c /\ job.kind = "fork"
         /\ TablesLeft # {} => First(TablesLeft) \in Tables
         /\ PagesLeft # {} => First(PagesLeft) \in PagesLeft /\ First(PagesLeft) \in UPages
<1>1. job \in Jobs /\ job.kind = "fork"
  BY Before DEF Doing
<1>2. job.c \in Procs /\ job.p \in Procs /\ job.p # job.c
  BY <1>1 DEF Jobs, MInv, JobOK
<1>3. PagesLeft \in SUBSET Nat /\ PagesLeft \subseteq UPages
  BY NoneIsNone, ZenonT(60) DEF PagesLeft
<1>4. TablesLeft \in SUBSET Nat /\ TablesLeft \subseteq Tables
  <2>1. ASSUME NEW u \in UPages PROVE TableOf(u) \in Nat
    BY NoneIsNone, SizeAssumption DEF TableOf
  <2> QED
    BY <2>1 DEF TablesLeft, Tables
<1> QED
  BY <1>1, <1>2, <1>3, <1>4, FirstIn, ZenonT(60)

LEMMA StepCloneTable == ASSUME MInv, clone_table PROVE MInv'
<1> DEFINE t == First(TablesLeft)
           c == job.c
<1>1. /\ Doing("fork") /\ TablesLeft # {} /\ HasRoom(1)
      /\ \/ /\ linear(1) /\ tab' = [tab EXCEPT ![c][t] = data_end]
            /\ upage' = upage /\ dir' = dir /\ seg_end' = seg_end /\ job' = job
         \/ linear_fails(1, KernelPages(c), Held(upage[c], UPages)) /\ Forgets(c) /\ job' = NoJob
  BY DEF clone_table, Forget, Forgets
<1>2. c \in Procs /\ t \in Tables /\ job.kind = "fork"
  BY <1>1, Cloning
<1> HIDE DEF c, t
<1>3. CASE /\ linear(1) /\ tab' = [tab EXCEPT ![c][t] = data_end]
           /\ upage' = upage /\ dir' = dir /\ seg_end' = seg_end /\ job' = job
  <2>1. MemoryExact'
    BY <1>1, <1>2, <1>3, NewTable, ZenonT(60)
  <2>2. JobOK'
    BY <1>2, <1>3, ZenonT(60) DEF MInv, JobOK
  <2> QED
    BY <2>1, <2>2 DEF MInv
<1>4. CASE linear_fails(1, KernelPages(c), Held(upage[c], UPages)) /\ Forgets(c) /\ job' = NoJob
  <2> DEFINE n == 1
             K == KernelPages(c)
             S == UPages
  <2>1. n \in Nat \ {0} /\ HasRoom(n) /\ K \in SUBSET KPages /\ S \in SUBSET UPages /\ linear_fails(n, K, Held(upage[c], S))
    BY <1>1, <1>2, <1>4, KernelBound
  <2>2. Empties(c, S)
    BY <1>2, <1>4, ForgetEntries, ZenonT(60)
  <2> HIDE DEF n, K, S
  <2>3. /\ Accounts(used', kpage', upage', lost') /\ num_allocated' = Cardinality(used') /\ num_allocated' \in Int
        /\ data_end' \in KPages /\ data_end' = data_end + n /\ stopped' = stopped
        /\ \A k \in KPages : k < data_end /\ k \notin K => kpage'[k] = kpage[k]
    BY <1>2, <2>1, <2>2, FailStep, ZenonT(60)
  <2>4. data_end' >= data_end
    BY <2>1, <2>3, EndType
  <2>5. \A k \in KPages : k < data_end /\ k \notin KernelPages(c) => kpage'[k] = kpage[k]
    BY <2>3, ZenonT(60) DEF K
  <2> QED
    BY <1>2, <1>4, <2>3, <2>4, <2>5, ForgetStep, ZenonT(60)
<1> QED
  BY <1>1, <1>3, <1>4, ZenonT(60)

\* The frames of some pages of a table, of the others, and of kernel pages are apart
\* when no frame is mapped twice.
LEMMA HeldParts ==
  ASSUME NEW f, NEW g, NEW A \in SUBSET UPages, NEW K \in SUBSET KPages,
         \A v, w \in UPages : f[v] # None /\ f[v] = f[w] => v = w,
         \A k \in KPages, v \in UPages : g[k] # None => g[k] # f[v]
  PROVE  /\ Held(f, UPages \ A) = Held(f, UPages) \ Held(f, A)
         /\ Held(f, A) \subseteq Held(f, UPages)
         /\ Held(g, K) \cap Held(f, A) = {}
BY DEF Held

LEMMA StepClonePage == ASSUME MInv, clone_page PROVE MInv'
<1> DEFINE u == First(PagesLeft)
           f == get_free_frames(1)
           c == job.c
<1>1. /\ Doing("fork") /\ PagesLeft # {} /\ data_end' = data_end /\ stopped' = stopped
      /\ \/ /\ f # None /\ Take({f}) /\ upage' = [upage EXCEPT ![c][u] = f]
            /\ kpage' = kpage /\ dir' = dir /\ tab' = tab /\ seg_end' = seg_end /\ job' = job /\ lost' = lost
         \/ /\ Give(Held(upage[c], UPages \ Abandoned(u)) \cup Held(kpage, KernelPages(c)))
            /\ kpage' = Cleared(kpage, KernelPages(c))
            /\ lost' = lost \cup Held(upage[c], Abandoned(u))
            /\ Forgets(c) /\ job' = NoJob
  BY ZenonT(60) DEF clone_page, Forget, Forgets
<1>2. /\ c \in Procs /\ u \in UPages /\ job.kind = "fork"
      /\ upage[c][u] = None /\ tab[c][TableOf(u)] # None
  BY <1>1, Cloning, ZenonT(60) DEF PagesLeft
<1>3. data_end' \in KPages /\ data_end' >= data_end /\ stopped' \in BOOLEAN
  BY <1>1, Before DEF TypeOK
<1> HIDE DEF c, u
<1>4. CASE /\ f # None /\ Take({f}) /\ upage' = [upage EXCEPT ![c][u] = f]
           /\ kpage' = kpage /\ dir' = dir /\ tab' = tab /\ seg_end' = seg_end /\ job' = job /\ lost' = lost
  <2>1. /\ Accounts(used', kpage', upage', lost') /\ num_allocated' = Cardinality(used') /\ num_allocated' \in Int
        /\ \A q \in Procs \ {c} : upage'[q] = upage[q]
        /\ \A v \in UPages \ {u} : upage'[c][v] = upage[c][v]
    BY <1>2, <1>4, UserPage, ZenonT(60)
  <2>2. FramesExact'
    <3>1. /\ dir' \in [Procs -> KPages \cup {None}] /\ tab' \in [Procs -> [Tables -> KPages \cup {None}]]
          /\ seg_end' \in [Procs -> Nat] /\ job' \in Jobs
      BY <1>4, Before, ZenonT(60)
    <3> QED
      BY <1>3, <2>1, <3>1, After, ZenonT(60)
  <2>3. DirectoriesIntact'
    <3>1. \A q \in Procs : \A k \in KernelPages(q) : kpage'[k] = kpage[k]
      BY <1>4, ZenonT(60)
    <3>2. \A v \in UPages : upage[c][v] # None => tab[c][TableOf(v)] # None
      BY <1>2, ZenonT(60) DEF MInv, MemoryExact, DirectoriesIntact
    <3>3. \A v \in UPages : upage'[c][v] # None => tab[c][TableOf(v)] # None
      BY <1>2, <2>1, <3>2, ZenonT(60)
    <3> QED
      BY <1>2, <1>3, <1>4, <2>1, <3>1, <3>3, SameDirs, ZenonT(60)
  <2>4. JobOK'
    BY <1>2, <1>4, ZenonT(60) DEF MInv, JobOK
  <2> QED
    BY <2>2, <2>3, <2>4 DEF MInv, MemoryExact
<1>5. CASE /\ Give(Held(upage[c], UPages \ Abandoned(u)) \cup Held(kpage, KernelPages(c)))
           /\ kpage' = Cleared(kpage, KernelPages(c))
           /\ lost' = lost \cup Held(upage[c], Abandoned(u))
           /\ Forgets(c) /\ job' = NoJob
  <2> DEFINE A == Abandoned(u)
             K == KernelPages(c)
             S == UPages
             L == Held(upage[c], A)
             G == Held(upage[c], UPages \ A) \cup Held(kpage, K)
  <2>1. Empties(c, S)
    BY <1>2, <1>5, ForgetEntries, ZenonT(60)
  <2>2. K \in SUBSET KPages /\ S \in SUBSET UPages /\ A \subseteq UPages
    BY <1>2, KernelBound, ZenonT(60) DEF Abandoned
  <2>3. /\ kpage' \in [KPages -> Frames \cup {None}]
        /\ \A k \in KPages : kpage'[k] = IF k \in K THEN None ELSE kpage[k]
    BY <1>5, Before, ZenonT(60) DEF Cleared
  <2>4. /\ \A v, w \in UPages : upage[c][v] # None /\ upage[c][v] = upage[c][w] => v = w
        /\ \A k \in KPages, v \in UPages : kpage[k] # None => kpage[k] # upage[c][v]
    <3>1. Accounts(used, kpage, upage, lost)
      BY Before, ZenonT(60)
    <3> QED
      BY <1>2, <3>1 DEF Accounts
  <2>5. G = (Held(kpage, K) \cup Held(upage[c], S)) \ L /\ L \in SUBSET (Held(kpage, K) \cup Held(upage[c], S))
    <3>1. /\ Held(upage[c], UPages \ A) = Held(upage[c], UPages) \ Held(upage[c], A)
          /\ Held(upage[c], A) \subseteq Held(upage[c], UPages)
          /\ Held(kpage, K) \cap Held(upage[c], A) = {}
      <4> HIDE DEF A, K
      <4> QED
        BY <2>2, <2>4, HeldParts, ZenonT(60)
    <3> QED
      BY <3>1, ZenonT(60)
  <2>6. Give(G) /\ lost' = lost \cup L
    BY <1>5, ZenonT(60)
  <2> HIDE DEF K, S, L, G, A
  <2>7. Clears(kpage, upage, K, c, S, L, G, kpage', upage')
    BY <1>2, <2>1, <2>2, <2>3, <2>5, ZenonT(60) DEF Clears, Empties
  <2>8. Accounts(used', kpage', upage', lost') /\ num_allocated' = Cardinality(used') /\ num_allocated' \in Int
    BY <2>6, <2>7, ClearStep
  <2>9. \A k \in KPages : k < data_end /\ k \notin KernelPages(c) => kpage'[k] = kpage[k]
    BY <2>3 DEF K
  <2> QED
    BY <1>1, <1>2, <1>3, <1>5, <2>8, <2>9, ForgetStep, ZenonT(60)
<1> QED
  BY <1>1, <1>4, <1>5, ZenonT(60)

LEMMA StepCloneDone == ASSUME MInv, clone_done PROVE MInv'
<1>1. /\ job' = NoJob /\ data_end' = data_end /\ data_end \in KPages /\ data_end \in Nat
      /\ used' = used /\ num_allocated' = num_allocated /\ kpage' = kpage /\ upage' = upage /\ lost' = lost
      /\ dir' = dir /\ tab' = tab /\ stopped' = stopped /\ seg_end' = seg_end /\ seg_end \in [Procs -> Nat]
  BY Before, ZenonT(60) DEF clone_done, frames, spaces
<1>2. MemoryExact'
  BY <1>1, JobTypes, QuietStep
<1> QED
  BY <1>1, <1>2, NoJobOK, ZenonT(60) DEF MInv

\* After paging_init only the image has frames.
LEMMA InitOK == Init => MInv
<1> SUFFICES ASSUME Init PROVE MInv
  OBVIOUS
<1>1. TypeOK
  <2>1. data_end \in KPages /\ seg_end \in [Procs -> Nat] /\ stopped \in BOOLEAN /\ lost \subseteq Frames
    <3>1. data_end \in KPages
      BY SizeAssumption DEF Init, KPages
    <3>2. seg_end \in [Procs -> Nat] /\ lost \subseteq Frames
      BY DEF Init
    <3>3. stopped \in BOOLEAN
      BY ZenonT(60) DEF Init
    <3> QED
      BY <3>1, <3>2, <3>3
  <2>2. used \subseteq Frames /\ num_allocated \in Int
    BY NoneIsNone, FiniteFrames DEF Init
  <2>3. kpage \in [KPages -> Entry(Frames)] /\ dir \in [Procs -> Entry(KPages)]
    BY DEF Init, Entry
  <2>4. upage \in [Procs -> [UPages -> Entry(Frames)]] /\ tab \in [Procs -> [Tables -> Entry(KPages)]]
    BY DEF Init, Entry
  <2>5. job \in Jobs
    BY JobTypes DEF Init
  <2> QED
    BY <2>1, <2>2, <2>3, <2>4, <2>5 DEF TypeOK
<1>2. /\ \A k \in KPages : kpage[k] = None
      /\ \A p \in Procs, u \in UPages : upage[p][u] = None
      /\ \A p \in Procs : dir[p] = None /\ \A t \in Tables : tab[p][t] = None
      /\ lost = {} /\ used = Reserved /\ num_allocated = Cardinality(used) /\ job = NoJob
  BY DEF Init
<1>3. Accounts(used, kpage, upage, lost)
  <2>1. /\ used \subseteq Frames /\ lost \subseteq Frames
        /\ kpage \in [KPages -> Frames \cup {None}] /\ upage \in [Procs -> [UPages -> Frames \cup {None}]]
    BY <1>1 DEF TypeOK, Entry
  <2> QED
    BY <1>2, <2>1, NoneIsNone, ZenonT(60) DEF Accounts
<1>4. FramesExact
  BY <1>1, <1>2, <1>3, ExactAccounts, ZenonT(60)
<1>5. \A p \in Procs : KernelPages(p) = {}
  BY <1>2, ZenonT(60) DEF KernelPages, DirBlock
<1>6. DirectoriesIntact
  BY <1>2, <1>5, ZenonT(60) DEF DirectoriesIntact
<1>7. JobOK
  BY <1>2, ZenonT(60) DEF JobOK, NoJob
<1> QED
  BY <1>4, <1>6, <1>7 DEF MInv, MemoryExact

LEMMA NextOK == MInv /\ [Next]_vars => MInv'
<1> SUFFICES ASSUME MInv, [Next]_vars PROVE MInv'
  OBVIOUS
<1>1. CASE \E n \in DmaSizes : kmalloc_align(n)
  BY <1>1, StepAlign
<1>2. CASE \E n \in Sizes : add_heap_memory(n)
  BY <1>2, StepHeap
<1>3. CASE shared_kernel_page
  BY <1>3, StepHeapPage
<1>4. CASE \E p \in Procs, n \in Sizes : brk(p, n) \/ mmap(p, n)
  BY <1>4, StepBrk, ZenonT(60)
<1>5. CASE region_present
  BY <1>5, StepPresent
<1>6. CASE region_frame
  BY <1>6, StepRegionFrame
<1>7. CASE region_table
  BY <1>7, StepRegionTable
<1>8. CASE \E p, c \in Procs : fork(p, c)
  BY <1>8, StepFork, ZenonT(60)
<1>9. CASE clone_table
  BY <1>9, StepCloneTable
<1>10. CASE clone_page
  BY <1>10, StepClonePage
<1>11. CASE clone_done
  BY <1>11, StepCloneDone
<1>12. CASE \E p \in Procs : exit(p)
  BY <1>12, StepExit
<1>13. CASE UNCHANGED vars
  <2>1. /\ job' = job /\ data_end' = data_end
        /\ used' = used /\ num_allocated' = num_allocated /\ kpage' = kpage /\ upage' = upage /\ lost' = lost
        /\ dir' = dir /\ tab' = tab /\ stopped' = stopped /\ seg_end' = seg_end
    BY <1>13 DEF vars, frames, spaces
  <2>2. /\ job' \in Jobs /\ data_end' \in KPages /\ data_end' >= data_end /\ seg_end' \in [Procs -> Nat]
    <3>1. job \in Jobs /\ seg_end \in [Procs -> Nat]
      BY DEF MInv, MemoryExact, FramesExact, TypeOK
    <3> QED
      BY <2>1, <3>1, EndType, ZenonT(60)
  <2>3. MemoryExact' /\ \A q \in Procs : KernelPages(q)' = KernelPages(q)
    BY <2>1, <2>2, QuietStep, ZenonT(60)
  <2>4. JobOK'
    BY <2>1, <2>3 DEF MInv, JobOK
  <2> QED
    BY <2>3, <2>4 DEF MInv
<1> QED
  BY <1>1, <1>2, <1>3, <1>4, <1>5, <1>6, <1>7, <1>8, <1>9, <1>10, <1>11, <1>12, <1>13, ZenonT(60) DEF Next

\* For any number of frames, processes, tables and pages: whichever call of kmalloc,
\* brk, mmap, fork or exit runs out of frames half-way in mmu.c, a frame is marked used
\* exactly when one entry maps it, it holds the image or it was leaked, the counter
\* counts the marks, and every page directory is present, contiguous and its owner's only.
THEOREM MemoryCorrect == Spec => []MemoryExact
<1>1. MInv => MemoryExact
  BY DEF MInv
<1> QED
  BY <1>1, InitOK, NextOK, PTL DEF Spec
=============================================================================
