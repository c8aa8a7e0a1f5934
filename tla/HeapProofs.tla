----------------------------- MODULE HeapProofs -----------------------------
(***************************************************************************)
(* The kernel heap never hands out overlapping memory, for every header,    *)
(* page and chunk size and every sequence of calls.                         *)
(***************************************************************************)
EXTENDS Heap, TLAPS

EntryFun(h) == DOMAIN h \subseteq Nat \ {0} /\ h \in [DOMAIN h -> Entry]

\* The type of a list of headers, one atom per field.
LEMMA Fields ==
  ASSUME NEW h, EntryFun(h), NEW a \in DOMAIN h
  PROVE  /\ a \in Nat /\ a > 0 /\ h[a].size \in Nat /\ h[a].n \in Nat
         /\ h[a].free \in BOOLEAN /\ h[a].final \in BOOLEAN
  BY DEF EntryFun, Entry

\* merge_headers keeps the list, the regions and the blocks in use.
LEMMA MergeGood ==
  ASSUME NEW h, NEW first, NEW last, NEW reg, NEW top, NEW held, NEW b \in DOMAIN h,
         EntryFun(h), ListOK(h, first, last), RegionOK(h, reg, top), HeldOK(h, held),
         DOMAIN reg \subseteq Nat, \A r \in DOMAIN reg : reg[r] \in Nat,
         Mergeable(h, b)
  PROVE  LET m == Merged(h, b)
             l == IF h[b].n = last THEN b ELSE last
         IN /\ EntryFun(m) /\ ListOK(m, first, l)
            /\ RegionOK(m, reg, top) /\ HeldOK(m, held)
            /\ DOMAIN m \subseteq DOMAIN h /\ b \in DOMAIN m
            /\ m[l].size >= h[last].size /\ m[b].free
<1> DEFINE n == h[b].n
           m == Merged(h, b)
           l == IF n = last THEN b ELSE last
<1>f. \A a \in DOMAIN h : /\ a \in Nat /\ a > 0 /\ h[a].size \in Nat /\ h[a].n \in Nat
                          /\ h[a].free \in BOOLEAN /\ h[a].final \in BOOLEAN
  BY Fields
<1>h. H \in Nat /\ H > 0
  BY HeapAssumption
<1>1. b # last /\ n \in DOMAIN h /\ b < n /\ h[n].free /\ h[b].free /\ ~h[b].final
  BY DEF ListOK, Mergeable, NULL
<1>2. /\ DOMAIN m = DOMAIN h \ {n}
      /\ m[b] = [size |-> h[b].size + h[n].size, free |-> TRUE,
                 final |-> h[n].final, n |-> h[n].n]
      /\ \A a \in DOMAIN m : a # b => m[a] = h[a]
  BY <1>1, <1>f DEF Merged
<1>3. b \in DOMAIN m
  BY <1>1, <1>2, <1>f
<1>4. EntryFun(m)
  <2>1. DOMAIN m \subseteq Nat \ {0}
    BY <1>2 DEF EntryFun
  <2>2. m[b] \in Entry
    BY <1>1, <1>2, <1>f DEF Entry
  <2>3. \A a \in DOMAIN m : m[a] \in Entry
    BY <1>2, <2>2 DEF EntryFun
  <2>4. m = [a \in DOMAIN m |-> m[a]]
    BY <1>2 DEF Merged
  <2> QED BY <2>1, <2>3, <2>4 DEF EntryFun
<1>a. /\ m[b].size = h[b].size + h[n].size /\ m[b].free /\ m[b].final = h[n].final
      /\ m[b].n = h[n].n
  BY <1>2
<1> HIDE DEF m, n
<1>5. ListOK(m, first, l)
  <2>1. first \in DOMAIN m /\ first <= b
    BY <1>1, <1>2, <1>f DEF ListOK
  <2>2. l \in DOMAIN m /\ m[l].n = NULL /\ m[l].free /\ m[l].final
    <3>1. CASE n = last
      BY <1>3, <1>a, <3>1 DEF ListOK
    <3>2. CASE n # last
      BY <1>1, <1>2, <3>2 DEF ListOK
    <3> QED BY <3>1, <3>2
  <2>3. ASSUME NEW x \in DOMAIN m
        PROVE  /\ first <= x /\ x <= l
               /\ x # l => m[x].n \in DOMAIN m /\ x < m[x].n
    <3>1. x \in DOMAIN h /\ x # n /\ first <= x /\ x <= last
      BY <1>2 DEF ListOK
    <3>2. x <= l
      <4>1. CASE n = last
        <5>1. x < n
          BY <1>1, <1>f, <3>1, <4>1
        <5>2. ~(b < x)
          <6> SUFFICES ASSUME b < x PROVE FALSE
            OBVIOUS
          <6>1. n <= x
            BY <3>1 DEF ListOK, n
          <6> QED BY <1>1, <1>f, <3>1, <5>1, <6>1
        <5> QED BY <1>1, <1>f, <3>1, <4>1, <5>2
      <4>2. CASE n # last
        BY <3>1, <4>2
      <4> QED BY <4>1, <4>2
    <3>3. ASSUME x # l PROVE m[x].n \in DOMAIN m /\ x < m[x].n
      <4>1. CASE x = b
        <5>1. n # last
          BY <3>3, <4>1
        <5>2. h[n].n \in DOMAIN h /\ n < h[n].n
          BY <1>1, <5>1 DEF ListOK
        <5> QED BY <1>1, <1>2, <1>a, <1>f, <4>1, <5>2
      <4>2. CASE x # b
        <5>1. m[x] = h[x]
          BY <1>2, <4>2
        <5>2. x # last
          BY <3>1, <3>3
        <5>3. h[x].n \in DOMAIN h /\ x < h[x].n
          BY <3>1, <5>2 DEF ListOK
        <5>4. h[x].n # n
          <6> SUFFICES ASSUME h[x].n = n PROVE FALSE
            OBVIOUS
          <6>1. CASE x < b
            <7>1. h[x].n <= b
              BY <3>1, <6>1 DEF ListOK
            <7> QED BY <1>1, <1>f, <7>1
          <6>2. CASE b < x
            <7>1. n <= x
              BY <3>1, <6>2 DEF ListOK, n
            <7> QED BY <1>1, <1>f, <3>1, <5>3, <7>1
          <6> QED BY <1>f, <3>1, <4>2, <6>1, <6>2
        <5> QED BY <1>2, <5>1, <5>3, <5>4
      <4> QED BY <4>1, <4>2
    <3> QED BY <3>1, <3>2, <3>3
  <2>4. ASSUME NEW x \in DOMAIN m, NEW y \in DOMAIN m, x < y
        PROVE  x + H + m[x].size <= y /\ m[x].n <= y
    <3>1. x \in DOMAIN h /\ y \in DOMAIN h /\ x # n /\ y # n
      BY <1>2
    <3>2. CASE x # b
      BY <1>2, <2>4, <3>1, <3>2 DEF ListOK
    <3>3. CASE x = b
      <4>1. n <= y /\ b + H + h[b].size <= n
        BY <1>1, <2>4, <3>1, <3>3 DEF ListOK, n
      <4>2. n < y
        BY <1>1, <1>f, <3>1, <4>1
      <4>3. n + H + h[n].size <= y /\ h[n].n <= y
        BY <1>1, <3>1, <4>2 DEF ListOK
      <4>4. b + H + (h[b].size + h[n].size) <= y
        BY <1>1, <1>f, <1>h, <3>1, <4>1, <4>3
      <4> QED BY <1>a, <3>3, <4>3, <4>4
    <3> QED BY <3>2, <3>3
  <2> QED BY <2>1, <2>2, <2>3, <2>4 DEF ListOK
<1>6. RegionOK(m, reg, top)
  <2>1. ASSUME NEW x \in DOMAIN m
        PROVE  \E r \in DOMAIN reg : /\ r <= x /\ x + H + m[x].size <= reg[r]
                                     /\ ~m[x].final => m[x].n < reg[r]
    <3>1. CASE x # b
      BY <1>2, <3>1 DEF RegionOK
    <3>2. CASE x = b
      <4>1. PICK r \in DOMAIN reg : /\ r <= b /\ n < reg[r]
        BY <1>1 DEF RegionOK, n
      <4>2. PICK q \in DOMAIN reg : /\ q <= n /\ n + H + h[n].size <= reg[q]
                                    /\ ~h[n].final => h[n].n < reg[q]
        BY <1>1 DEF RegionOK
      <4>3. r \in Nat /\ q \in Nat /\ reg[r] \in Nat /\ reg[q] \in Nat
        OBVIOUS
      <4>4. r = q
        <5>1. ~(r < q)
          BY <1>1, <1>f, <4>1, <4>2, <4>3 DEF RegionOK
        <5>2. ~(q < r)
          <6> SUFFICES ASSUME q < r PROVE FALSE
            OBVIOUS
          <6>1. reg[q] <= r
            BY DEF RegionOK
          <6>2. n < reg[q]
            BY <1>1, <1>f, <1>h, <4>2, <4>3
          <6> QED BY <1>1, <1>f, <4>1, <4>3, <6>1, <6>2
        <5> QED BY <4>3, <5>1, <5>2
      <4>5. b + H + h[b].size <= n
        BY <1>1 DEF ListOK
      <4>6. b + H + (h[b].size + h[n].size) <= reg[q]
        BY <1>1, <1>f, <1>h, <4>2, <4>3, <4>5
      <4> QED BY <1>a, <3>2, <4>1, <4>2, <4>4, <4>6
    <3> QED BY <3>1, <3>2
  <2>2. /\ \A r \in DOMAIN reg : r < reg[r] /\ reg[r] <= top
        /\ \A r, q \in DOMAIN reg : r < q => reg[r] <= q
    BY DEF RegionOK
  <2> QED BY <2>1, <2>2, Zenon DEF RegionOK
<1>7. HeldOK(m, held)
  BY <1>1, <1>2, <1>a DEF HeldOK
<1>8. m[l].size >= h[last].size
  <2>1. CASE n = last
    BY <1>1, <1>a, <1>f, <2>1
  <2>2. CASE n # last
    <3>1. last \in DOMAIN h /\ m[last] = h[last]
      BY <1>1, <1>2, <2>2 DEF ListOK
    <3> QED BY <1>f, <2>2, <3>1
  <2> QED BY <2>1, <2>2
<1> QED BY <1>2, <1>3, <1>4, <1>5, <1>6, <1>7, <1>8, <1>a DEF m, n

\* merge_headers as the code calls it: the guard may also fail.
LEMMA MergeStep ==
  ASSUME NEW h, NEW f, NEW reg, NEW top, NEW held, NEW b \in DOMAIN h,
         EntryFun(h), ListOK(h, head, f), RegionOK(h, reg, top), HeldOK(h, held),
         DOMAIN reg \subseteq Nat, \A r \in DOMAIN reg : reg[r] \in Nat,
         merge_headers(h, f, b)
  PROVE  /\ EntryFun(hdr') /\ ListOK(hdr', head, final')
         /\ RegionOK(hdr', reg, top) /\ HeldOK(hdr', held)
         /\ b \in DOMAIN hdr'
         /\ hdr'[final'].size >= h[f].size
         /\ h[b].free => hdr'[b].free
<1>1. CASE Mergeable(h, b)
  <2>1. hdr' = Merged(h, b) /\ final' = IF h[b].n = f THEN b ELSE f
    BY <1>1 DEF merge_headers
  <2> QED BY <1>1, <2>1, MergeGood
<1>2. CASE ~Mergeable(h, b)
  <2>1. hdr' = h /\ final' = f
    BY <1>2 DEF merge_headers
  <2>2. h[f].size \in Nat
    BY Fields DEF ListOK
  <2> QED BY <2>1, <2>2
<1> QED BY <1>1, <1>2

\* What the lemmas on int_kmalloc and kfree start from.
Good == /\ EntryFun(hdr) /\ ListOK(hdr, head, final)
        /\ RegionOK(hdr, region, brk) /\ HeldOK(hdr, live)
        /\ DOMAIN region \subseteq Nat /\ \A r \in DOMAIN region : region[r] \in Nat

\* Cutting a large enough free block leaves a well-formed list.
LEMMA CutGood ==
  ASSUME Good, NEW a \in Hdrs, NEW s \in Nat, hdr[a].free, hdr[a].size >= s + H
  PROVE  LET c == Cut(a, s)
             e == a + H + s
             l == IF a = final THEN e ELSE final
         IN /\ EntryFun(c) /\ ListOK(c, head, l) /\ RegionOK(c, region, brk)
            /\ HeldOK(c, [x \in DOMAIN live \cup {a} |-> IF x = a THEN s ELSE live[x]])
            /\ e \in DOMAIN c
<1> DEFINE c == Cut(a, s)
           e == a + H + s
           l == IF a = final THEN e ELSE final
           lv == [x \in DOMAIN live \cup {a} |-> IF x = a THEN s ELSE live[x]]
<1>f. \A x \in Hdrs : /\ x \in Nat /\ x > 0 /\ hdr[x].size \in Nat /\ hdr[x].n \in Nat
                      /\ hdr[x].free \in BOOLEAN /\ hdr[x].final \in BOOLEAN
  BY Fields DEF Good, Hdrs
<1>h. H \in Nat /\ H > 0
  BY HeapAssumption
<1>0. EntryFun(hdr) /\ ListOK(hdr, head, final) /\ RegionOK(hdr, region, brk) /\ HeldOK(hdr, live)
  BY DEF Good
<1>e. e \in Nat /\ a < e /\ e + H <= a + H + hdr[a].size
  BY <1>f, <1>h
<1>1. \A x \in Hdrs : a < x => e < x
  BY <1>0, <1>e, <1>f, <1>h DEF ListOK, Hdrs
<1>2. e \notin Hdrs
  BY <1>1, <1>e, <1>f
<1>3. hdr[a] \in Entry
  BY <1>0 DEF EntryFun, Hdrs
<1>4. /\ DOMAIN c = Hdrs \cup {e}
      /\ c[a] = [size |-> s, free |-> FALSE, final |-> FALSE, n |-> e]
      /\ c[e] = [hdr[a] EXCEPT !.size = hdr[a].size - s - H]
      /\ \A x \in Hdrs : x # a => c[x] = hdr[x]
  BY <1>2, <1>e, <1>f DEF Cut
<1>5. /\ c[e].size = hdr[a].size - s - H /\ c[e].free /\ c[e].final = hdr[a].final
      /\ c[e].n = hdr[a].n
      /\ c[a].size = s /\ ~c[a].free /\ ~c[a].final /\ c[a].n = e
  BY <1>3, <1>4 DEF Entry
<1>6. EntryFun(c)
  <2>1. hdr[a].size - s - H \in Nat
    BY <1>f, <1>h
  <2>2. c[e] \in Entry /\ c[a] \in Entry
    BY <1>3, <1>4, <1>e, <2>1 DEF Entry
  <2>3. \A x \in DOMAIN c : c[x] \in Entry
    BY <1>0, <1>4, <2>2 DEF EntryFun, Hdrs
  <2>4. c = [x \in DOMAIN c |-> c[x]]
    BY <1>4 DEF Cut
  <2>5. DOMAIN c \subseteq Nat \ {0}
    BY <1>4, <1>e, <1>f, <1>h
  <2> QED BY <2>3, <2>4, <2>5 DEF EntryFun
<1> HIDE DEF c, e
<1>s. c[e].size \in Nat /\ e + H + c[e].size = a + H + hdr[a].size
  BY <1>5, <1>f, <1>h DEF e
<1>7. ListOK(c, head, l)
  <2>1. head \in DOMAIN c /\ l \in DOMAIN c
    BY <1>0, <1>4 DEF ListOK, Hdrs
  <2>2. c[l].n = NULL /\ c[l].free /\ c[l].final
    BY <1>0, <1>4, <1>5 DEF ListOK, Hdrs
  <2>3. ASSUME NEW x \in DOMAIN c
        PROVE  head <= x /\ x <= l /\ (x # l => c[x].n \in DOMAIN c /\ x < c[x].n)
    <3>0. head \in Nat /\ final \in Nat /\ head <= a /\ a <= final
      BY <1>0, <1>f DEF ListOK, Hdrs
    <3>1. CASE x = e
      <4>1. head <= e
        BY <1>e, <1>f, <3>0
      <4>2. CASE a = final
        BY <1>e, <3>1, <4>1, <4>2
      <4>3. CASE a # final
        <5>1. a < final /\ final \in Hdrs
          BY <1>0, <1>f, <3>0, <4>3 DEF ListOK, Hdrs
        <5>2. e < final
          BY <1>1, <5>1
        <5>3. hdr[a].n \in Hdrs /\ a < hdr[a].n
          BY <1>0, <4>3 DEF ListOK, Hdrs
        <5>4. e < hdr[a].n
          BY <1>1, <5>3
        <5>5. e <= final
          BY <1>e, <3>0, <5>2
        <5>6. c[e].n \in DOMAIN c /\ e < c[e].n
          BY <1>4, <1>5, <5>3, <5>4
        <5> QED BY <3>1, <4>1, <4>3, <5>5, <5>6
      <4> QED BY <4>2, <4>3
    <3>2. CASE x = a
      <4>1. a <= l
        BY <1>e, <1>f, <3>0
      <4> QED BY <1>4, <1>5, <1>e, <3>0, <3>2, <4>1
    <3>3. CASE x # a /\ x # e
      <4>1. x \in Hdrs /\ c[x] = hdr[x] /\ head <= x /\ x <= final
        BY <1>0, <1>4, <3>3 DEF ListOK, Hdrs
      <4>2. x <= l
        BY <1>e, <1>f, <4>1
      <4>3. ASSUME x # l PROVE x # final
        BY <4>1, <4>3, <3>3
      <4>4. x # l => hdr[x].n \in Hdrs /\ x < hdr[x].n
        BY <1>0, <4>1, <4>3 DEF ListOK, Hdrs
      <4> QED BY <1>4, <4>1, <4>2, <4>4
    <3> QED BY <3>1, <3>2, <3>3
  <2>4. ASSUME NEW x \in DOMAIN c, NEW y \in DOMAIN c, x < y
        PROVE  x + H + c[x].size <= y /\ c[x].n <= y
    <3>t. x \in Nat /\ y \in Nat
      BY <1>4, <1>e, <1>f
    <3>1. CASE x = e
      <4>1. y \in Hdrs /\ a < y
        BY <1>4, <1>e, <1>f, <2>4, <3>1, <3>t
      <4>2. a + H + hdr[a].size <= y /\ hdr[a].n <= y
        BY <1>0, <4>1 DEF ListOK, Hdrs
      <4> QED BY <1>5, <1>s, <3>1, <4>2
    <3>2. CASE x = a
      <4>1. e <= y
        BY <1>1, <1>4, <1>e, <1>f, <2>4, <3>2, <3>t
      <4>2. x + H + c[x].size = e
        BY <1>5, <3>2 DEF e
      <4> QED BY <1>5, <3>2, <4>1, <4>2
    <3>3. CASE x # a /\ x # e
      <4>1. x \in Hdrs /\ c[x] = hdr[x]
        BY <1>4, <3>3
      <4>2. CASE y = e
        <5>1. x < a
          BY <1>1, <1>e, <1>f, <2>4, <3>3, <4>1, <4>2, <3>t
        <5>2. x + H + hdr[x].size <= a /\ hdr[x].n <= a
          BY <1>0, <4>1, <5>1 DEF ListOK, Hdrs
        <5> QED BY <1>e, <1>f, <1>h, <4>1, <4>2, <5>2
      <4>3. CASE y # e
        BY <1>0, <1>4, <2>4, <4>1, <4>3 DEF ListOK, Hdrs
      <4> QED BY <4>2, <4>3
    <3> QED BY <3>1, <3>2, <3>3
  <2> QED BY <2>1, <2>2, <2>3, <2>4 DEF ListOK
<1>8. RegionOK(c, region, brk)
  <2>1. ASSUME NEW x \in DOMAIN c
        PROVE  \E r \in DOMAIN region : /\ r <= x /\ x + H + c[x].size <= region[r]
                                        /\ ~c[x].final => c[x].n < region[r]
    <3>1. PICK r \in DOMAIN region : /\ r <= a /\ a + H + hdr[a].size <= region[r]
                                     /\ ~hdr[a].final => hdr[a].n < region[r]
      BY <1>0 DEF RegionOK, Hdrs
    <3>2. r \in Nat /\ region[r] \in Nat
      BY DEF Good
    <3>3. CASE x = e
      BY <1>5, <1>e, <1>f, <1>s, <3>1, <3>2, <3>3
    <3>4. CASE x = a
      <4>1. a + H + s <= region[r] /\ e < region[r]
        BY <1>e, <1>f, <1>h, <3>1, <3>2 DEF e
      <4> QED BY <1>5, <3>1, <3>4, <4>1
    <3>5. CASE x # a /\ x # e
      BY <1>0, <1>4, <3>5 DEF RegionOK, Hdrs
    <3> QED BY <3>3, <3>4, <3>5
  <2>2. /\ \A r \in DOMAIN region : r < region[r] /\ region[r] <= brk
        /\ \A r, q \in DOMAIN region : r < q => region[r] <= q
    BY <1>0 DEF RegionOK
  <2> QED BY <2>1, <2>2, Zenon DEF RegionOK
<1>9. HeldOK(c, lv)
  <2>1. DOMAIN lv = {x \in DOMAIN c : ~c[x].free}
    BY <1>0, <1>2, <1>4, <1>5 DEF HeldOK, Hdrs
  <2>2. \A x \in DOMAIN lv : c[x].size = lv[x]
    BY <1>0, <1>4, <1>5 DEF HeldOK, Hdrs
  <2> QED BY <2>1, <2>2 DEF HeldOK
<1> QED BY <1>4, <1>6, <1>7, <1>8, <1>9 DEF c, e

\* Marking a held block free leaves a well-formed list.
LEMMA FreeGood ==
  ASSUME Good, NEW a \in DOMAIN live
  PROVE  LET h == [hdr EXCEPT ![a].free = TRUE]
         IN /\ EntryFun(h) /\ ListOK(h, head, final) /\ RegionOK(h, region, brk)
            /\ HeldOK(h, [x \in DOMAIN live \ {a} |-> live[x]])
            /\ a \in DOMAIN h /\ h[final].size = hdr[final].size
<1> DEFINE h == [hdr EXCEPT ![a].free = TRUE]
<1>0. EntryFun(hdr) /\ ListOK(hdr, head, final) /\ RegionOK(hdr, region, brk) /\ HeldOK(hdr, live)
  BY DEF Good
<1>1. a \in Hdrs /\ hdr[a] \in Entry /\ ~hdr[a].free
  BY <1>0 DEF HeldOK, EntryFun, Hdrs
<1>2. /\ DOMAIN h = Hdrs
      /\ \A x \in Hdrs : x # a => h[x] = hdr[x]
      /\ h[a] = [hdr[a] EXCEPT !.free = TRUE]
  BY <1>1 DEF Hdrs
<1>3. /\ h[a].size = hdr[a].size /\ h[a].n = hdr[a].n /\ h[a].final = hdr[a].final
      /\ h[a].free /\ h[a] \in Entry
  BY <1>1, <1>2 DEF Entry
<1>4. EntryFun(h)
  <2>1. \A x \in Hdrs : h[x] \in Entry
    BY <1>0, <1>2, <1>3 DEF EntryFun, Hdrs
  <2>2. h = [x \in Hdrs |-> h[x]]
    BY <1>0 DEF EntryFun, Hdrs
  <2> QED BY <1>0, <1>2, <2>1, <2>2 DEF EntryFun, Hdrs
<1> HIDE DEF h
<1>5. \A x \in Hdrs : h[x].size = hdr[x].size /\ h[x].n = hdr[x].n /\ h[x].final = hdr[x].final
  BY <1>2, <1>3
<1>6. final \in Hdrs /\ final # a /\ h[final].free /\ h[final] = hdr[final]
  BY <1>0, <1>1, <1>2 DEF ListOK, Hdrs
<1>7. ListOK(h, head, final)
  BY <1>0, <1>2, <1>5, <1>6 DEF ListOK, Hdrs
<1>8. RegionOK(h, region, brk)
  BY <1>0, <1>2, <1>5 DEF RegionOK, Hdrs
<1>9. HeldOK(h, [x \in DOMAIN live \ {a} |-> live[x]])
  BY <1>0, <1>2, <1>3, <1>5 DEF HeldOK, Hdrs
<1> QED BY <1>1, <1>2, <1>4, <1>6, <1>7, <1>8, <1>9 DEF h

-----------------------------------------------------------------------------
OpType == [pc : Pc, s : Nat, p : Nat, old : Nat, grown : BOOLEAN]

\* HeapInv, unfolded once.
LEMMA Unfold ==
  ASSUME HeapInv
  PROVE  /\ EntryFun(hdr) /\ head \in Nat /\ final \in Nat /\ brk \in Nat /\ brk > 0
         /\ DOMAIN region \subseteq Nat \ {0} /\ region \in [DOMAIN region -> Nat]
         /\ live \in [DOMAIN live -> Nat]
         /\ op \in OpType
         /\ head # NULL => Good
  BY DEF HeapInv, HeapTypeOK, EntryFun, ListInv, Good, Hdrs, OpType

\* The other direction, on the next state.
LEMMA Fold ==
  ASSUME EntryFun(hdr'), head' \in Nat, final' \in Nat, brk' \in Nat, brk' > 0,
         DOMAIN region' \subseteq Nat \ {0}, region' \in [DOMAIN region' -> Nat],
         live' \in [DOMAIN live' -> Nat], op' \in OpType,
         head' # NULL, ListOK(hdr', head', final'), RegionOK(hdr', region', brk'),
         HeldOK(hdr', live'), CallInv'
  PROVE  HeapInv'
  BY DEF HeapInv, HeapTypeOK, EntryFun, ListInv, Hdrs, OpType

LEMMA InitInv == HeapInit => HeapInv
<1> SUFFICES ASSUME HeapInit PROVE HeapInv
  OBVIOUS
<1>1. DOMAIN hdr = {} /\ DOMAIN region = {} /\ DOMAIN live = {}
  BY DEF HeapInit
<1>2. HeapTypeOK
  BY <1>1, HeapAssumption DEF HeapInit, HeapTypeOK, Hdrs, Entry, Idle, NULL, Pc
<1>3. ListInv
  BY <1>1 DEF HeapInit, ListInv, Hdrs
<1>4. RegionOK(hdr, region, brk) /\ HeldOK(hdr, live)
  BY <1>1 DEF RegionOK, HeldOK
<1>5. CallInv
  BY DEF HeapInit, CallInv, Idle
<1> QED BY <1>2, <1>3, <1>4, <1>5 DEF HeapInv

\* More memory under data_end never hurts.
LEMMA HigherBrk ==
  ASSUME NEW h, NEW reg, NEW top \in Nat, NEW t \in Nat, RegionOK(h, reg, top), top <= t,
         DOMAIN reg \subseteq Nat, \A r \in DOMAIN reg : reg[r] \in Nat
  PROVE  RegionOK(h, reg, t)
<1>1. \A r \in DOMAIN reg : r < reg[r] /\ reg[r] <= t
  BY DEF RegionOK
<1>2. /\ \A r, q \in DOMAIN reg : r < q => reg[r] <= q
      /\ \A a \in DOMAIN h : \E r \in DOMAIN reg :
           /\ r <= a /\ a + H + h[a].size <= reg[r]
           /\ ~h[a].final => h[a].n < reg[r]
  BY DEF RegionOK
<1> QED BY <1>1, <1>2, Zenon DEF RegionOK

LEMMA OpFields ==
  ASSUME op \in OpType
  PROVE  /\ op.pc \in Pc /\ op.s \in Nat /\ op.p \in Nat /\ op.old \in Nat
         /\ op.grown \in BOOLEAN
  BY DEF OpType

\* The blocks held are headers, so not NULL.
LEMMA HeldIsHeader ==
  ASSUME HeapInv, NEW a \in DOMAIN live
  PROVE  a \in Hdrs /\ a \in Nat /\ a # NULL /\ head # NULL /\ ~hdr[a].free
  BY DEF HeapInv, HeldOK, ListInv, Hdrs, HeapTypeOK, NULL

LEMMA StartInv ==
  ASSUME HeapInv, NEW s \in Nat, NEW old, old = NULL \/ old \in DOMAIN live, Start(s, old)
  PROVE  HeapInv'
<1>o. old \in Nat
  BY HeldIsHeader DEF NULL
<1>u. /\ EntryFun(hdr) /\ head \in Nat /\ final \in Nat /\ brk \in Nat /\ brk > 0
      /\ DOMAIN region \subseteq Nat \ {0} /\ region \in [DOMAIN region -> Nat]
      /\ live \in [DOMAIN live -> Nat]
      /\ head # NULL => Good
  BY Unfold
<1>1. CASE /\ head # NULL
           /\ op' = [pc |-> "scan", s |-> s, p |-> head, old |-> old, grown |-> FALSE]
           /\ UNCHANGED <<hdr, head, final, brk, region, live>>
  <2>1. op' \in OpType
    BY <1>1, <1>o, <1>u DEF OpType, Pc
  <2>2. head \in Hdrs
    BY <1>1, <1>u DEF Good, ListOK, Hdrs
  <2>3. CallInv'
    BY <1>1, <2>2 DEF CallInv, Hdrs, NULL
  <2> QED BY <1>1, <1>u, <2>1, <2>3, Fold DEF Good
<1>2. ASSUME NEW p \in brk..MaxBrk, init_heap(p),
             op' = [pc |-> "scan", s |-> s, p |-> head', old |-> old, grown |-> FALSE]
      PROVE  HeapInv'
  <2>a. p \in Nat /\ p > 0 /\ NewAlloc \in Nat /\ NewAlloc > H /\ H \in Nat
    <3>1. p \in Nat /\ brk \in Nat /\ brk <= p /\ NewAlloc \in Nat /\ NewAlloc > H /\ H \in Nat
      BY <1>u, HeapAssumption
    <3>2. brk > 0
      BY <1>u
    <3> QED BY <3>1, <3>2
  <2>b. /\ head = NULL /\ head' = p /\ final' = p /\ brk' = p + NewAlloc /\ live' = live
        /\ hdr' = [a \in {p} |-> FreshEntry(NewAlloc - H)]
        /\ region' = [r \in {p} |-> p + NewAlloc]
    BY <1>2 DEF init_heap, ksbrk
  <2>c. /\ DOMAIN hdr' = {p} /\ hdr'[p].size = NewAlloc - H /\ hdr'[p].free
        /\ hdr'[p].final /\ hdr'[p].n = NULL /\ DOMAIN region' = {p} /\ region'[p] = p + NewAlloc
    BY <2>b DEF FreshEntry
  <2>1. EntryFun(hdr')
    BY <2>a, <2>b DEF EntryFun, FreshEntry, Entry, NULL
  <2>2. ListOK(hdr', head', final')
    BY <2>a, <2>b, <2>c DEF ListOK
  <2>3. RegionOK(hdr', region', brk')
    BY <2>a, <2>b, <2>c DEF RegionOK
  <2>4. DOMAIN live = {}
    BY <2>b DEF HeapInv, ListInv, HeldOK, Hdrs
  <2>5. HeldOK(hdr', live')
    BY <2>b, <2>c, <2>4 DEF HeldOK
  <2>6. op' \in OpType
    BY <1>2, <1>o, <2>a, <2>b DEF OpType, Pc
  <2>7. CallInv'
    BY <1>2, <2>4, <2>a, <2>b, <2>c DEF CallInv, Hdrs, NULL
  <2>8. /\ head' \in Nat /\ final' \in Nat /\ brk' \in Nat /\ brk' > 0 /\ head' # NULL
        /\ DOMAIN region' \subseteq Nat \ {0} /\ region' \in [DOMAIN region' -> Nat]
    BY <2>a, <2>b, <2>c DEF NULL
  <2> QED BY <1>u, <2>1, <2>2, <2>3, <2>5, <2>6, <2>7, <2>8, <2>b, Fold
<1> QED BY <1>1, <1>2 DEF Start

LEMMA ShrinkInv ==
  ASSUME HeapInv, NEW a \in DOMAIN live, NEW size \in Nat, op.pc = "idle", live[a] > size,
         hdr' = [hdr EXCEPT ![a].size = size], live' = [live EXCEPT ![a] = size],
         UNCHANGED <<head, final, brk, region, op>>
  PROVE  HeapInv'
<1>1. /\ a \in Hdrs /\ a \in Nat /\ head # NULL /\ ~hdr[a].free
  BY HeldIsHeader
<1>u. /\ EntryFun(hdr) /\ head \in Nat /\ final \in Nat /\ brk \in Nat /\ brk > 0
      /\ DOMAIN region \subseteq Nat \ {0} /\ region \in [DOMAIN region -> Nat]
      /\ live \in [DOMAIN live -> Nat] /\ op \in OpType
      /\ ListOK(hdr, head, final) /\ RegionOK(hdr, region, brk) /\ HeldOK(hdr, live)
  BY <1>1, Unfold DEF Good
<1>f. \A x \in Hdrs : x \in Nat /\ hdr[x].size \in Nat /\ hdr[x].n \in Nat
  BY <1>u, Fields DEF Hdrs
<1>h. H \in Nat
  BY HeapAssumption
<1>2. hdr[a].size = live[a] /\ hdr[a] \in Entry
  BY <1>1, <1>u DEF HeldOK, EntryFun, Hdrs
<1>3. /\ DOMAIN hdr' = Hdrs /\ hdr'[a] = [hdr[a] EXCEPT !.size = size]
      /\ \A x \in Hdrs : x # a => hdr'[x] = hdr[x]
  BY <1>1 DEF Hdrs
<1>4. /\ hdr'[a].size = size /\ hdr'[a].n = hdr[a].n /\ hdr'[a].free = hdr[a].free
      /\ hdr'[a].final = hdr[a].final /\ hdr'[a] \in Entry
  BY <1>2, <1>3 DEF Entry
<1>5. \A x \in Hdrs : /\ hdr'[x].size \in Nat /\ hdr'[x].size <= hdr[x].size
                      /\ hdr'[x].n = hdr[x].n
                      /\ hdr'[x].free = hdr[x].free /\ hdr'[x].final = hdr[x].final
  BY <1>2, <1>3, <1>4, <1>f
<1>6. EntryFun(hdr')
  <2>1. \A x \in Hdrs : hdr'[x] \in Entry
    BY <1>3, <1>4, <1>u DEF EntryFun, Hdrs
  <2> QED BY <1>3, <1>u, <2>1 DEF EntryFun, Hdrs
<1>7. ListOK(hdr', head', final')
  <2>1. \A x, y \in Hdrs : x < y => x + H + hdr'[x].size <= y /\ hdr'[x].n <= y
    <3> SUFFICES ASSUME NEW x \in Hdrs, NEW y \in Hdrs, x < y
                 PROVE  x + H + hdr'[x].size <= y /\ hdr'[x].n <= y
      OBVIOUS
    <3>1. x + H + hdr[x].size <= y /\ hdr[x].n <= y
      BY <1>u DEF ListOK, Hdrs
    <3> QED BY <1>5, <1>f, <1>h, <3>1
  <2> QED BY <1>3, <1>5, <1>u, <2>1 DEF ListOK, Hdrs
<1>8. RegionOK(hdr', region', brk')
  <2>1. ASSUME NEW x \in Hdrs
        PROVE  \E r \in DOMAIN region : /\ r <= x /\ x + H + hdr'[x].size <= region[r]
                                        /\ ~hdr'[x].final => hdr'[x].n < region[r]
    <3>1. PICK r \in DOMAIN region : /\ r <= x /\ x + H + hdr[x].size <= region[r]
                                     /\ ~hdr[x].final => hdr[x].n < region[r]
      BY <1>u DEF RegionOK, Hdrs
    <3>2. x + H + hdr'[x].size <= region[r]
      <4>1. region[r] \in Nat
        BY <1>u
      <4> QED BY <1>5, <1>f, <1>h, <3>1, <4>1
    <3> QED BY <1>5, <3>1, <3>2
  <2>2. /\ \A r \in DOMAIN region : r < region[r] /\ region[r] <= brk
        /\ \A r, q \in DOMAIN region : r < q => region[r] <= q
    BY <1>u DEF RegionOK
  <2> QED BY <1>3, <2>1, <2>2, Zenon DEF RegionOK
<1>9. HeldOK(hdr', live')
  BY <1>3, <1>4, <1>5, <1>u DEF HeldOK, Hdrs
<1>10. CallInv'
  BY <1>u, <1>3 DEF HeapInv, CallInv, Hdrs
<1>11. live' \in [DOMAIN live' -> Nat]
  BY <1>u
<1> QED BY <1>1, <1>6, <1>7, <1>8, <1>9, <1>10, <1>11, <1>u, Fold

\* kfree, and the end of krealloc.
LEMMA FreeInv ==
  ASSUME HeapInv, NEW a \in DOMAIN live, Free(a),
         \/ op.pc = "idle" /\ op' = op
         \/ op.pc = "free" /\ op' = Idle
  PROVE  HeapInv'
<1>1. head # NULL
  BY HeldIsHeader
<1>u. /\ EntryFun(hdr) /\ head \in Nat /\ final \in Nat /\ brk \in Nat /\ brk > 0
      /\ DOMAIN region \subseteq Nat \ {0} /\ region \in [DOMAIN region -> Nat]
      /\ live \in [DOMAIN live -> Nat] /\ op \in OpType /\ Good
  BY <1>1, Unfold
<1> DEFINE h == [hdr EXCEPT ![a].free = TRUE]
           lv == [x \in DOMAIN live \ {a} |-> live[x]]
<1>2. /\ EntryFun(h) /\ ListOK(h, head, final) /\ RegionOK(h, region, brk)
      /\ HeldOK(h, lv) /\ a \in DOMAIN h
  BY <1>u, FreeGood
<1>3. merge_headers(h, final, a) /\ live' = lv /\ UNCHANGED <<head, brk, region>>
  BY DEF Free
<1>4. DOMAIN region \subseteq Nat /\ \A r \in DOMAIN region : region[r] \in Nat
  BY <1>u
<1> HIDE DEF h
<1>5. /\ EntryFun(hdr') /\ ListOK(hdr', head, final')
      /\ RegionOK(hdr', region, brk) /\ HeldOK(hdr', lv)
  BY <1>2, <1>3, <1>4, MergeStep
<1>6. op' \in OpType /\ op'.pc = "idle" /\ op'.old = NULL
  <2>1. CASE op.pc = "idle" /\ op' = op
    BY <1>u, <2>1 DEF HeapInv, CallInv
  <2>2. CASE op' = Idle
    BY <2>2 DEF Idle, OpType, Pc, NULL
  <2> QED BY <2>1, <2>2
<1>7. CallInv'
  BY <1>6 DEF CallInv
<1>8. lv \in [DOMAIN lv -> Nat]
  BY <1>u
<1>9. final' \in Nat
  BY <1>5, Fields DEF ListOK
<1> QED BY <1>1, <1>3, <1>5, <1>6, <1>7, <1>8, <1>9, <1>u, Fold

\* int_kmalloc after find_free_entry has found its block.
LEMMA TakeInv ==
  ASSUME HeapInv, Take
  PROVE  HeapInv'
<1> DEFINE a == op.p
           e == a + H + op.s
           c == Cut(a, op.s)
           l == IF a = final THEN e ELSE final
           lv == [x \in DOMAIN live \cup {a} |-> IF x = a THEN op.s ELSE live[x]]
<1>1. /\ op.pc \in {"scan", "merge"} /\ hdr[a].free /\ hdr[a].size >= op.s + H
      /\ merge_headers(c, l, e) /\ live' = lv /\ UNCHANGED <<head, brk, region>>
      /\ op' = IF op.old = NULL THEN Idle ELSE [op EXCEPT !.pc = "free", !.p = NULL]
  BY DEF Take, Found, Required, HeapInv, CallInv
<1>2. a \in Hdrs /\ head # NULL
  BY <1>1 DEF HeapInv, CallInv
<1>u. /\ EntryFun(hdr) /\ head \in Nat /\ final \in Nat /\ brk \in Nat /\ brk > 0
      /\ DOMAIN region \subseteq Nat \ {0} /\ region \in [DOMAIN region -> Nat]
      /\ live \in [DOMAIN live -> Nat] /\ op \in OpType /\ Good
  BY <1>2, Unfold
<1>s. op.s \in Nat /\ op.old \in Nat
  BY <1>u, OpFields
<1>3. /\ EntryFun(c) /\ ListOK(c, head, l) /\ RegionOK(c, region, brk)
      /\ HeldOK(c, lv) /\ e \in DOMAIN c
  BY <1>1, <1>2, <1>s, <1>u, CutGood
<1>4. DOMAIN region \subseteq Nat /\ \A r \in DOMAIN region : region[r] \in Nat
  BY <1>u
<1>m. merge_headers(c, l, e) /\ live' = lv
  BY <1>1
<1>x. DOMAIN lv = DOMAIN live \cup {a} /\ lv \in [DOMAIN lv -> Nat]
  BY <1>s, <1>u
<1> HIDE DEF c, l, e, lv
<1>5. /\ EntryFun(hdr') /\ ListOK(hdr', head, final')
      /\ RegionOK(hdr', region, brk) /\ HeldOK(hdr', lv)
  BY <1>3, <1>4, <1>m, MergeStep
<1>6. op' \in OpType /\ op'.pc \in {"idle", "free"}
      /\ op'.old = op.old
      /\ (op'.pc = "idle" <=> op.old = NULL)
  BY <1>1, <1>s, <1>u DEF Idle, OpType, Pc, NULL
<1>7. CallInv'
  <2>1. op.old # NULL => op.old \in DOMAIN live
    BY DEF HeapInv, CallInv
  <2>2. head' # NULL /\ (op'.old # NULL => op'.old \in DOMAIN live')
    BY <1>1, <1>2, <1>6, <1>m, <1>x, <2>1
  <2>3. op'.pc # "scan" /\ op'.pc # "merge" /\ op'.pc # "grow"
    BY <1>6
  <2> QED BY <1>6, <2>2, <2>3 DEF CallInv
<1>9. final' \in Nat
  BY <1>5, Fields DEF ListOK
<1> QED BY <1>1, <1>2, <1>5, <1>6, <1>7, <1>9, <1>m, <1>u, <1>x, Fold

\* A step that moves only the call record.
LEMMA OpOnly ==
  ASSUME HeapInv, head # NULL, op' \in OpType, CallInv',
         UNCHANGED <<hdr, head, final, brk, region, live>>
  PROVE  HeapInv'
  BY Unfold, Fold DEF Good

\* The loop of find_free_entry moves on; after a growth it never reaches NULL.
LEMMA AdvanceInv ==
  ASSUME HeapInv, op.pc \in {"scan", "merge"}, Advance,
         ~hdr[op.p].free \/ hdr[op.p].size < Required
  PROVE  HeapInv'
<1>1. op.p \in Hdrs /\ head # NULL /\ op \in OpType /\ Good
  BY Unfold DEF HeapInv, CallInv
<1>o. op.s \in Nat /\ op.old \in Nat /\ op.grown \in BOOLEAN
  BY <1>1, OpFields
<1>f. hdr[op.p].n \in Nat /\ hdr[final].size \in Nat /\ hdr[op.p].size \in Nat
  BY <1>1, Fields DEF Good, Hdrs, ListOK
<1>h. H \in Nat
  BY HeapAssumption
<1>2. op' \in OpType /\ op'.old = op.old /\ op'.s = op.s /\ op'.grown = op.grown
  BY <1>1, <1>f DEF Advance, OpType, Pc, NULL
<1>3. CASE hdr[op.p].n = NULL
  <2>1. op.p = final
    BY <1>1, <1>3 DEF Good, ListOK, Hdrs, EntryFun, NULL
  <2>2. hdr[final].free /\ hdr[final].size < Required
    BY <1>1, <2>1 DEF Good, ListOK
  <2>3. Required \in Nat
    BY <1>h, <1>o DEF Required
  <2>4. ~op.grown
    BY <1>f, <2>2, <2>3 DEF HeapInv, CallInv
  <2>5. op'.pc = "grow"
    BY <1>1, <1>3 DEF Advance, OpType
  <2>6. CallInv'
    BY <1>1, <1>2, <2>4, <2>5 DEF HeapInv, CallInv, Advance
  <2> QED BY <1>1, <1>2, <2>6, OpOnly DEF Advance
<1>4. CASE hdr[op.p].n # NULL
  <2>1. hdr[op.p].n \in Hdrs
    BY <1>1, <1>4 DEF Good, ListOK, Hdrs
  <2>2. op'.pc = "scan" /\ op'.p = hdr[op.p].n
    BY <1>1, <1>4 DEF Advance, OpType
  <2>3. UNCHANGED <<hdr, head, final, brk, region, live>>
    BY DEF Advance
  <2>4. CallInv'
    BY <1>1, <1>2, <2>1, <2>2, <2>3 DEF HeapInv, CallInv, Required, Hdrs
  <2> QED BY <1>1, <1>2, <2>3, <2>4, OpOnly
<1> QED BY <1>3, <1>4

LEMMA TooSmallInv ==
  ASSUME HeapInv, TooSmall
  PROVE  HeapInv'
<1>1. head # NULL /\ op \in OpType /\ op.pc = "scan" /\ hdr[op.p].free
  BY Unfold DEF HeapInv, CallInv, TooSmall
<1>2. /\ op' \in OpType /\ op'.pc = "merge" /\ op'.p = op.p /\ op'.old = op.old
      /\ op'.s = op.s /\ op'.grown = op.grown
  BY <1>1 DEF TooSmall, OpType, Pc
<1>3. UNCHANGED <<hdr, head, final, brk, region, live>>
  BY DEF TooSmall
<1>4. CallInv'
  BY <1>1, <1>2, <1>3 DEF HeapInv, CallInv, Required, Hdrs
<1> QED BY <1>1, <1>2, <1>3, <1>4, OpOnly

LEMMA MergeOneInv ==
  ASSUME HeapInv, MergeOne
  PROVE  HeapInv'
<1>1. /\ op.pc = "merge" /\ op.p \in Hdrs /\ hdr[op.p].free /\ head # NULL
      /\ merge_headers(hdr, final, op.p) /\ UNCHANGED <<head, brk, region, live, op>>
  BY DEF HeapInv, CallInv, MergeOne
<1>u. /\ EntryFun(hdr) /\ head \in Nat /\ final \in Nat /\ brk \in Nat /\ brk > 0
      /\ DOMAIN region \subseteq Nat \ {0} /\ region \in [DOMAIN region -> Nat]
      /\ live \in [DOMAIN live -> Nat] /\ op \in OpType /\ Good
  BY <1>1, Unfold
<1>2. /\ EntryFun(hdr') /\ ListOK(hdr', head, final')
      /\ RegionOK(hdr', region, brk) /\ HeldOK(hdr', live)
      /\ op.p \in DOMAIN hdr' /\ hdr'[final'].size >= hdr[final].size /\ hdr'[op.p].free
  BY <1>1, <1>u, MergeStep DEF Good, Hdrs
<1>3. hdr[final].size \in Nat /\ hdr'[final'].size \in Nat /\ final' \in Nat
  BY <1>2, <1>u, Fields DEF Good, ListOK
<1>4. Required \in Nat
  BY <1>u, OpFields, HeapAssumption DEF Required
<1>5. op.grown => hdr'[final'].size >= Required
  <2>1. op.grown => hdr[final].size >= Required
    BY <1>1 DEF HeapInv, CallInv
  <2> QED BY <1>2, <1>3, <1>4, <2>1
<1>6. CallInv'
  BY <1>1, <1>2, <1>5 DEF HeapInv, CallInv, Required, Hdrs
<1> QED BY <1>1, <1>2, <1>3, <1>6, <1>u, Fold

LEMMA ModRange ==
  ASSUME NEW a \in Nat, NEW p \in Nat \ {0}
  PROVE  a % p \in Nat /\ a % p < p
  OBVIOUS

\* What add_heap_memory asks for leaves room for the request and two headers.
LEMMA GrowthEnough ==
  ASSUME NEW s \in Nat
  PROVE  Growth(s) \in Nat /\ Growth(s) >= s + H + H /\ Growth(s) > H
<1> DEFINE want == IF s + H > NewAlloc THEN s + H ELSE NewAlloc
<1>1. /\ want \in Nat /\ want >= s + H /\ PageSize \in Nat \ {0}
      /\ NewAlloc \in Nat /\ NewAlloc > H /\ H \in Nat
  BY HeapAssumption
<1>2. Growth(s) = want + (PageSize - (want % PageSize)) + NewAlloc
  BY DEF Growth
<1> HIDE DEF want
<1>3. want % PageSize \in Nat /\ want % PageSize < PageSize
  BY <1>1, ModRange
<1> QED BY <1>1, <1>2, <1>3

LEMMA RetryInv ==
  ASSUME op \in OpType, head \in Nat, op.pc = "grow"
  PROVE  /\ Retry \in OpType /\ Retry.pc = "scan" /\ Retry.p = head
         /\ Retry.s = op.s /\ Retry.old = op.old /\ Retry.grown
  BY DEF Retry, OpType, Pc

LEMMA GrowRegionInv ==
  ASSUME HeapInv, NEW p \in brk..MaxBrk, GrowRegion(p)
  PROVE  HeapInv'
<1> DEFINE g == Growth(op.s)
<1>1. /\ op.pc = "grow" /\ p >= brk /\ brk' = p + g /\ final' = p /\ op' = Retry
      /\ UNCHANGED <<head, live>>
      /\ hdr' = [a \in Hdrs \cup {p} |->
                   IF a = p THEN FreshEntry(g - H)
                   ELSE IF a = final THEN [hdr[a] EXCEPT !.n = p] ELSE hdr[a]]
      /\ region' = [r \in DOMAIN region \cup {p} |-> IF r = p THEN brk' ELSE region[r]]
  BY DEF GrowRegion, ksbrk
<1>2. head # NULL
  BY <1>1 DEF HeapInv, CallInv
<1>u. /\ EntryFun(hdr) /\ head \in Nat /\ final \in Nat /\ brk \in Nat /\ brk > 0
      /\ DOMAIN region \subseteq Nat \ {0} /\ region \in [DOMAIN region -> Nat]
      /\ live \in [DOMAIN live -> Nat] /\ op \in OpType
      /\ ListOK(hdr, head, final) /\ RegionOK(hdr, region, brk) /\ HeldOK(hdr, live)
  BY <1>2, Unfold DEF Good
<1>g. g \in Nat /\ g >= op.s + H + H /\ g > H /\ H \in Nat /\ H > 0 /\ op.s \in Nat
  BY <1>u, OpFields, GrowthEnough, HeapAssumption
<1>f. \A x \in Hdrs : x \in Nat /\ hdr[x].size \in Nat /\ hdr[x].n \in Nat
  BY <1>u, Fields DEF Hdrs
<1> HIDE DEF g
<1>p. p \in Nat /\ p > 0 /\ brk <= p
  BY <1>1, <1>u
<1>3. \A x \in Hdrs : x + H + hdr[x].size <= p /\ x < p
  <2> SUFFICES ASSUME NEW x \in Hdrs PROVE x + H + hdr[x].size <= p /\ x < p
    OBVIOUS
  <2>1. PICK r \in DOMAIN region : r <= x /\ x + H + hdr[x].size <= region[r]
    BY <1>u DEF RegionOK, Hdrs
  <2>2. region[r] \in Nat /\ region[r] <= brk
    BY <1>u DEF RegionOK
  <2> QED BY <1>f, <1>g, <1>p, <1>u, <2>1, <2>2
<1>4. p \notin Hdrs /\ final \in Hdrs /\ final # p /\ hdr[final] \in Entry
  BY <1>3, <1>f, <1>u DEF ListOK, EntryFun, Hdrs
<1>5. /\ DOMAIN hdr' = Hdrs \cup {p} /\ hdr'[p] = FreshEntry(g - H)
      /\ hdr'[final] = [hdr[final] EXCEPT !.n = p]
      /\ \A x \in Hdrs : x # final => hdr'[x] = hdr[x]
  BY <1>1, <1>4
<1>6. /\ hdr'[p].size = g - H /\ hdr'[p].free /\ hdr'[p].final /\ hdr'[p].n = NULL
      /\ hdr'[p] \in Entry /\ hdr'[final] \in Entry
      /\ hdr'[final].n = p /\ hdr'[final].size = hdr[final].size
      /\ hdr'[final].free = hdr[final].free /\ hdr'[final].final = hdr[final].final
  BY <1>4, <1>5, <1>g, <1>p DEF FreshEntry, Entry, NULL
<1>7. EntryFun(hdr')
  <2>1. \A x \in DOMAIN hdr' : hdr'[x] \in Entry
    BY <1>5, <1>6, <1>u DEF EntryFun, Hdrs
  <2>2. hdr' = [x \in DOMAIN hdr' |-> hdr'[x]]
    BY <1>1
  <2>3. DOMAIN hdr' \subseteq Nat \ {0}
    BY <1>5, <1>p, <1>u DEF EntryFun, Hdrs
  <2> QED BY <2>1, <2>2, <2>3 DEF EntryFun
<1>8. ListOK(hdr', head', final')
  <2>1. /\ head \in DOMAIN hdr' /\ head \in Hdrs /\ p \in DOMAIN hdr'
    BY <1>5, <1>u DEF ListOK, Hdrs
  <2>2. ASSUME NEW x \in DOMAIN hdr'
        PROVE  head <= x /\ x <= p /\ (x # p => hdr'[x].n \in DOMAIN hdr' /\ x < hdr'[x].n)
    <3>1. CASE x = p
      BY <1>3, <1>f, <1>p, <2>1, <3>1
    <3>2. CASE x = final
      <4>1. head <= final /\ final < p /\ final \in Nat
        BY <1>3, <1>4, <1>u DEF ListOK, Hdrs
      <4>2. hdr'[final].n \in DOMAIN hdr' /\ final < hdr'[final].n /\ final <= p
        BY <1>5, <1>6, <1>p, <4>1
      <4> QED BY <3>2, <4>1, <4>2
    <3>3. CASE x # p /\ x # final
      <4>1. x \in Hdrs /\ hdr'[x] = hdr[x]
        BY <1>5, <3>3
      <4>2. head <= x /\ hdr[x].n \in Hdrs /\ x < hdr[x].n
        BY <1>u, <3>3, <4>1 DEF ListOK, Hdrs
      <4> QED BY <1>3, <1>5, <1>f, <1>p, <4>1, <4>2
    <3> QED BY <3>1, <3>2, <3>3
  <2>3. ASSUME NEW x \in DOMAIN hdr', NEW y \in DOMAIN hdr', x < y
        PROVE  x + H + hdr'[x].size <= y /\ hdr'[x].n <= y
    <3>1. x \in Hdrs
      BY <1>3, <1>5, <1>f, <1>p, <2>3
    <3>2. hdr'[x].size = hdr[x].size
      BY <1>5, <1>6, <3>1
    <3>3. CASE y = p
      <4>1. hdr'[x].n <= p
        <5>1. CASE x = final
          BY <1>6, <1>p, <5>1
        <5>2. CASE x # final
          <6>1. hdr'[x].n \in Hdrs
            BY <1>5, <1>u, <3>1, <5>2 DEF ListOK, Hdrs
          <6> QED BY <1>3, <1>f, <1>p, <6>1
        <5> QED BY <5>1, <5>2
      <4> QED BY <1>3, <3>1, <3>2, <3>3, <4>1
    <3>4. CASE y # p
      <4>1. y \in Hdrs /\ y <= final
        BY <1>5, <1>u, <3>4 DEF ListOK, Hdrs
      <4>2. x # final
        BY <1>f, <1>u, <2>3, <3>1, <4>1
      <4> QED BY <1>5, <1>u, <2>3, <3>1, <4>1, <4>2 DEF ListOK, Hdrs
    <3> QED BY <3>3, <3>4
  <2> QED BY <1>1, <1>6, <2>1, <2>2, <2>3 DEF ListOK
<1>r. /\ DOMAIN region' = DOMAIN region \cup {p} /\ brk' = p + g /\ brk' \in Nat /\ brk' > 0
      /\ brk <= brk' /\ p < brk' /\ region'[p] = brk'
      /\ \A r \in DOMAIN region : r < region[r] /\ region[r] <= brk /\ r \in Nat /\ region[r] \in Nat
  BY <1>1, <1>g, <1>p, <1>u DEF RegionOK
<1>q. /\ p \notin DOMAIN region
      /\ \A r \in DOMAIN region : region'[r] = region[r]
  BY <1>1, <1>p, <1>r, <1>u
<1>9. RegionOK(hdr', region', brk')
  <2>1. \A r \in DOMAIN region' : r < region'[r] /\ region'[r] <= brk'
    BY <1>q, <1>r, <1>u
  <2>2. \A r, q \in DOMAIN region' : r < q => region'[r] <= q
    <3> SUFFICES ASSUME NEW r \in DOMAIN region', NEW q \in DOMAIN region', r < q
                 PROVE  region'[r] <= q
      OBVIOUS
    <3>1. r # p
      BY <1>p, <1>q, <1>r, <1>u
    <3>2. CASE q = p
      BY <1>p, <1>q, <1>r, <1>u, <3>1, <3>2
    <3>3. CASE q # p
      BY <1>q, <1>r, <1>u, <3>1, <3>3 DEF RegionOK
    <3> QED BY <3>2, <3>3
  <2>3. ASSUME NEW x \in DOMAIN hdr'
        PROVE  \E r \in DOMAIN region' : /\ r <= x /\ x + H + hdr'[x].size <= region'[r]
                                         /\ ~hdr'[x].final => hdr'[x].n < region'[r]
    <3>1. CASE x = p
      <4>1. p <= p /\ p + H + (g - H) <= brk'
        BY <1>g, <1>p, <1>r
      <4> QED BY <1>6, <1>r, <3>1, <4>1
    <3>2. CASE x # p
      <4>1. x \in Hdrs /\ hdr'[x].size = hdr[x].size /\ hdr'[x].final = hdr[x].final
        BY <1>5, <1>6, <3>2
      <4>2. ~hdr'[x].final => hdr'[x].n = hdr[x].n
        BY <1>5, <1>6, <1>u, <4>1 DEF ListOK
      <4>3. PICK r \in DOMAIN region : /\ r <= x /\ x + H + hdr[x].size <= region[r]
                                       /\ ~hdr[x].final => hdr[x].n < region[r]
        BY <1>u, <4>1 DEF RegionOK, Hdrs
      <4>4. r \in DOMAIN region' /\ region'[r] = region[r]
        BY <1>q, <1>r
      <4> QED BY <4>1, <4>2, <4>3, <4>4
    <3> QED BY <3>1, <3>2
  <2> QED BY <2>1, <2>2, <2>3, Zenon DEF RegionOK
<1>10. HeldOK(hdr', live')
  BY <1>1, <1>4, <1>5, <1>6, <1>u DEF HeldOK, Hdrs
<1>o. op' \in OpType /\ op'.pc = "scan" /\ op'.p = head /\ op'.s = op.s /\ op'.old = op.old
  BY <1>1, <1>u, RetryInv
<1>11. CallInv'
  <2>1. hdr'[final'].size >= op.s + H
    BY <1>1, <1>6, <1>g
  <2>2. head \in Hdrs'
    BY <1>5, <1>u DEF ListOK, Hdrs
  <2> QED BY <1>1, <1>2, <1>o, <2>1, <2>2 DEF HeapInv, CallInv, Required
<1>12. region' \in [DOMAIN region' -> Nat] /\ DOMAIN region' \subseteq Nat \ {0}
  BY <1>1, <1>p, <1>r, <1>u
<1> QED BY <1>1, <1>2, <1>7, <1>8, <1>9, <1>10, <1>11, <1>12, <1>o, <1>p, <1>r, <1>u, Fold

LEMMA GrowFinalInv ==
  ASSUME HeapInv, GrowFinal
  PROVE  HeapInv'
<1> DEFINE g == Growth(op.s)
           e == End(final)
<1>1. /\ op.pc = "grow" /\ e >= brk /\ brk' = e + g /\ op' = Retry
      /\ UNCHANGED <<head, final, live>>
      /\ hdr' = [hdr EXCEPT ![final].size = hdr[final].size + g - H]
      /\ region' = [r \in DOMAIN region |-> IF region[r] = e THEN brk' ELSE region[r]]
  BY DEF GrowFinal, ksbrk
<1>2. head # NULL
  BY <1>1 DEF HeapInv, CallInv
<1>u. /\ EntryFun(hdr) /\ head \in Nat /\ final \in Nat /\ brk \in Nat /\ brk > 0
      /\ DOMAIN region \subseteq Nat \ {0} /\ region \in [DOMAIN region -> Nat]
      /\ live \in [DOMAIN live -> Nat] /\ op \in OpType
      /\ ListOK(hdr, head, final) /\ RegionOK(hdr, region, brk) /\ HeldOK(hdr, live)
  BY <1>2, Unfold DEF Good
<1>g. g \in Nat /\ g >= op.s + H + H /\ g > H /\ H \in Nat /\ H > 0 /\ op.s \in Nat
  BY <1>u, OpFields, GrowthEnough, HeapAssumption
<1>f. \A x \in Hdrs : x \in Nat /\ hdr[x].size \in Nat /\ hdr[x].n \in Nat
  BY <1>u, Fields DEF Hdrs
<1>4. final \in Hdrs /\ hdr[final] \in Entry /\ hdr[final].free
  BY <1>u DEF ListOK, EntryFun, Hdrs
<1>e. e = final + H + hdr[final].size /\ e \in Nat /\ final < e
  BY <1>4, <1>f, <1>g DEF End
<1> HIDE DEF g, e
<1>5. /\ DOMAIN hdr' = Hdrs
      /\ hdr'[final] = [hdr[final] EXCEPT !.size = hdr[final].size + g - H]
      /\ \A x \in Hdrs : x # final => hdr'[x] = hdr[x]
  BY <1>1, <1>4 DEF Hdrs
<1>6. /\ hdr'[final].size = hdr[final].size + g - H /\ hdr'[final].size \in Nat
      /\ hdr'[final].n = hdr[final].n /\ hdr'[final].free = hdr[final].free
      /\ hdr'[final].final = hdr[final].final /\ hdr'[final] \in Entry
  <2>1. hdr[final].size + g - H \in Nat
    BY <1>4, <1>f, <1>g
  <2> QED BY <1>4, <1>5, <2>1 DEF Entry
<1>7. EntryFun(hdr')
  <2>1. \A x \in Hdrs : hdr'[x] \in Entry
    BY <1>5, <1>6, <1>u DEF EntryFun, Hdrs
  <2> QED BY <1>1, <1>5, <1>u, <2>1 DEF EntryFun, Hdrs
<1>s. \A x \in Hdrs : hdr'[x].n = hdr[x].n /\ hdr'[x].free = hdr[x].free
                      /\ hdr'[x].final = hdr[x].final
  BY <1>5, <1>6
<1>8. ListOK(hdr', head', final')
  <2>1. ASSUME NEW x \in Hdrs, NEW y \in Hdrs, x < y
        PROVE  x + H + hdr'[x].size <= y /\ hdr'[x].n <= y
    <3>1. x # final
      BY <1>f, <1>u, <2>1 DEF ListOK, Hdrs
    <3> QED BY <1>5, <1>u, <2>1, <3>1 DEF ListOK, Hdrs
  <2>2. /\ head \in Hdrs /\ final \in Hdrs
        /\ hdr'[final].n = NULL /\ hdr'[final].free /\ hdr'[final].final
    BY <1>6, <1>u DEF ListOK, Hdrs
  <2>3. \A x \in Hdrs : /\ head <= x /\ x <= final
                        /\ x # final => hdr'[x].n \in Hdrs /\ x < hdr'[x].n
    BY <1>s, <1>u DEF ListOK, Hdrs
  <2>4. head' = head /\ final' = final
    BY <1>1
  <2> QED BY <1>5, <2>1, <2>2, <2>3, <2>4 DEF ListOK
<1>r. /\ DOMAIN region' = DOMAIN region /\ brk' \in Nat /\ brk' > 0 /\ brk <= brk' /\ e <= brk'
      /\ \A r \in DOMAIN region : r < region[r] /\ region[r] <= brk /\ r \in Nat /\ region[r] \in Nat
      /\ \A r \in DOMAIN region : region'[r] = IF region[r] = e THEN brk' ELSE region[r]
  BY <1>1, <1>e, <1>g, <1>u DEF RegionOK
<1>m. \A r \in DOMAIN region : region[r] <= region'[r] /\ region'[r] \in Nat
  BY <1>e, <1>r
<1>9. RegionOK(hdr', region', brk')
  <2>1. \A r \in DOMAIN region' : r < region'[r] /\ region'[r] <= brk'
    BY <1>e, <1>m, <1>r, <1>u
  <2>2. \A r, q \in DOMAIN region' : r < q => region'[r] <= q
    <3> SUFFICES ASSUME NEW r \in DOMAIN region', NEW q \in DOMAIN region', r < q
                 PROVE  region'[r] <= q
      OBVIOUS
    <3>1. r \in DOMAIN region /\ q \in DOMAIN region /\ region[r] <= q
      BY <1>r, <1>u DEF RegionOK
    <3>2. region[r] # e
      BY <1>1, <1>e, <1>r, <1>u, <3>1
    <3> QED BY <1>r, <3>1, <3>2
  <2>3. ASSUME NEW x \in Hdrs
        PROVE  \E r \in DOMAIN region' : /\ r <= x /\ x + H + hdr'[x].size <= region'[r]
                                         /\ ~hdr'[x].final => hdr'[x].n < region'[r]
    <3>1. PICK r \in DOMAIN region : /\ r <= x /\ x + H + hdr[x].size <= region[r]
                                     /\ ~hdr[x].final => hdr[x].n < region[r]
      BY <1>u DEF RegionOK, Hdrs
    <3>2. ~hdr'[x].final => hdr'[x].n < region'[r]
      BY <1>f, <1>m, <1>r, <1>s, <3>1
    <3>3. CASE x # final
      <4>1. hdr'[x].size = hdr[x].size
        BY <1>5, <3>3
      <4>2. x + H + hdr'[x].size <= region'[r]
        BY <1>f, <1>g, <1>m, <1>r, <3>1, <4>1
      <4> QED BY <1>r, <3>1, <3>2, <4>2
    <3>4. CASE x = final
      <4>1. region[r] = e
        BY <1>1, <1>e, <1>r, <1>u, <3>1, <3>4
      <4>2. region'[r] = e + g
        BY <1>1, <1>r, <4>1
      <4>3. x + H + hdr'[x].size <= region'[r]
        BY <1>4, <1>6, <1>e, <1>f, <1>g, <3>4, <4>2
      <4> QED BY <1>r, <3>1, <3>2, <4>3
    <3> QED BY <3>3, <3>4
  <2> QED BY <1>5, <2>1, <2>2, <2>3, Zenon DEF RegionOK
<1>10. HeldOK(hdr', live')
  BY <1>1, <1>4, <1>5, <1>s, <1>u DEF HeldOK, Hdrs
<1>o. op' \in OpType /\ op'.pc = "scan" /\ op'.p = head /\ op'.s = op.s /\ op'.old = op.old
  BY <1>1, <1>u, RetryInv
<1>11. CallInv'
  <2>1. hdr'[final'].size >= op.s + H
    BY <1>1, <1>4, <1>6, <1>f, <1>g
  <2>2. head \in Hdrs'
    BY <1>5, <1>u DEF ListOK, Hdrs
  <2> QED BY <1>1, <1>2, <1>o, <2>1, <2>2 DEF HeapInv, CallInv, Required
<1>12. region' \in [DOMAIN region' -> Nat] /\ DOMAIN region' \subseteq Nat \ {0}
  BY <1>1, <1>m, <1>r, <1>u
<1> QED BY <1>1, <1>2, <1>7, <1>8, <1>9, <1>10, <1>11, <1>12, <1>o, <1>r, <1>u, Fold

\* ksbrk fails, or serves somebody else.
LEMMA SbrkInv ==
  ASSUME HeapInv, NEW p \in brk..MaxBrk, OutOfMemory(p) \/ OtherSbrk(p)
  PROVE  HeapInv'
<1>u. /\ EntryFun(hdr) /\ head \in Nat /\ final \in Nat /\ brk \in Nat /\ brk > 0
      /\ DOMAIN region \subseteq Nat \ {0} /\ region \in [DOMAIN region -> Nat]
      /\ live \in [DOMAIN live -> Nat] /\ op \in OpType
  BY Unfold
<1>p. p \in Nat /\ brk <= p
  BY <1>u
<1>1. brk' = p /\ UNCHANGED <<hdr, head, final, region, live>>
  BY DEF OutOfMemory, OtherSbrk
<1>2. op' \in OpType /\ op'.pc = "idle" /\ op'.old = NULL
  <2>1. CASE op' = Idle
    BY <2>1 DEF Idle, OpType, Pc, NULL
  <2>2. CASE op.pc = "idle" /\ op' = op
    BY <1>u, <2>2 DEF HeapInv, CallInv
  <2> QED BY <2>1, <2>2 DEF OutOfMemory, OtherSbrk
<1>3. CallInv'
  BY <1>2 DEF CallInv
<1>4. RegionOK(hdr, region, p)
  BY <1>p, <1>u, HigherBrk DEF HeapInv
<1> QED BY <1>1, <1>2, <1>3, <1>4, <1>p, <1>u
        DEF HeapInv, HeapTypeOK, EntryFun, ListInv, Hdrs, OpType

LEMMA StepInv == HeapInv /\ [HeapNext]_heap_vars => HeapInv'
<1> SUFFICES ASSUME HeapInv, [HeapNext]_heap_vars PROVE HeapInv'
  OBVIOUS
<1>0. CASE UNCHANGED heap_vars
  BY <1>0 DEF heap_vars, HeapInv, HeapTypeOK, ListInv, RegionOK, HeldOK, CallInv, Hdrs, Required, ListOK
<1>s. \A s \in Sizes : s \in Nat
  BY HeapAssumption
<1>1. ASSUME NEW s \in Sizes, kmalloc(s) PROVE HeapInv'
  BY <1>1, <1>s, StartInv DEF kmalloc
<1>2. ASSUME NEW a \in DOMAIN live, kfree(a) PROVE HeapInv'
  BY <1>2, FreeInv DEF kfree
<1>3. ASSUME NEW a \in DOMAIN live, NEW s \in Sizes, krealloc(a, s) PROVE HeapInv'
  BY <1>3, <1>s, StartInv, ShrinkInv DEF krealloc
<1>4. ASSUME NEW a \in DOMAIN live, NEW s \in Sizes, krecalloc(a, s) PROVE HeapInv'
  BY <1>4, <1>s, StartInv DEF krecalloc
<1>5. CASE Skip
  BY <1>5, AdvanceInv DEF Skip
<1>6. CASE GiveUp
  BY <1>6, AdvanceInv DEF GiveUp
<1>7. CASE TooSmall
  BY <1>7, TooSmallInv
<1>8. CASE MergeOne
  BY <1>8, MergeOneInv
<1>9. CASE Take
  BY <1>9, TakeInv
<1>10. CASE GrowFinal
  BY <1>10, GrowFinalInv
<1>11. ASSUME NEW p \in brk..MaxBrk, GrowRegion(p) \/ OutOfMemory(p) \/ OtherSbrk(p)
       PROVE  HeapInv'
  BY <1>11, GrowRegionInv, SbrkInv
<1>12. CASE FreeOld
  <2>1. op.old \in DOMAIN live
    BY <1>12 DEF FreeOld, HeapInv, CallInv
  <2> QED BY <1>12, <2>1, FreeInv DEF FreeOld
<1> QED BY <1>0, <1>1, <1>2, <1>3, <1>4, <1>5, <1>6, <1>7, <1>8, <1>9, <1>10, <1>11, <1>12
        DEF HeapNext

\* kmalloc.c keeps its list of headers well formed: in address order, inside
\* the memory ksbrk gave it, with exactly the held blocks marked in use.
THEOREM HeapCorrect == HeapSpec => []HeapInv
<1> QED BY InitInv, StepInv, PTL DEF HeapSpec

\* No two callers of kmalloc ever hold the same byte, and none holds a header.
THEOREM HeapDisjoint == HeapSpec => []BlocksDisjoint
<1>1. HeapInv => BlocksDisjoint
  <2> SUFFICES ASSUME HeapInv, NEW a \in DOMAIN live
               PROVE  /\ \E r \in DOMAIN region : r <= a /\ a + H + live[a] <= region[r]
                      /\ \A b \in Hdrs : b # a => b + H <= a \/ a + H + live[a] <= b
                      /\ \A b \in DOMAIN live : b < a => b + H + live[b] <= a
    BY DEF BlocksDisjoint
  <2>1. a \in Hdrs /\ head # NULL /\ hdr[a].size = live[a]
    BY HeldIsHeader DEF HeapInv, HeldOK
  <2>2. EntryFun(hdr) /\ ListOK(hdr, head, final) /\ RegionOK(hdr, region, brk) /\ HeldOK(hdr, live)
    BY <2>1, Unfold DEF Good
  <2>f. \A x \in Hdrs : x \in Nat /\ hdr[x].size \in Nat
    BY <2>2, Fields DEF Hdrs
  <2>3. \E r \in DOMAIN region : r <= a /\ a + H + live[a] <= region[r]
    BY <2>1, <2>2 DEF RegionOK, Hdrs
  <2>4. \A b \in Hdrs : b < a => b + H + hdr[b].size <= a
    BY <2>1, <2>2 DEF ListOK, Hdrs
  <2>5. \A b \in Hdrs : a < b => a + H + live[a] <= b
    BY <2>1, <2>2 DEF ListOK, Hdrs
  <2>6. \A b \in Hdrs : b # a => b + H <= a \/ a + H + live[a] <= b
    BY <2>1, <2>4, <2>5, <2>f, HeapAssumption
  <2>7. \A b \in DOMAIN live : b \in Hdrs /\ hdr[b].size = live[b]
    BY <2>2 DEF HeldOK, Hdrs
  <2> QED BY <2>3, <2>4, <2>6, <2>7
<1> QED BY <1>1, HeapCorrect, PTL

\* One add_heap_memory is enough: the retry in int_kmalloc cannot recurse again.
THEOREM HeapGrowsOnce == HeapSpec => []GrowsOnce
<1>1. HeapInv => GrowsOnce
  BY DEF HeapInv, CallInv, GrowsOnce
<1> QED BY <1>1, HeapCorrect, PTL

\* The three together: the heap that kmalloc, kfree and krealloc keep is sound.
THEOREM HeapSafe == HeapSpec => []HeapSound
<1>1. HeapInv /\ BlocksDisjoint /\ GrowsOnce => HeapSound
  BY DEF HeapSound
<1> QED BY <1>1, HeapCorrect, HeapDisjoint, HeapGrowsOnce, PTL
=============================================================================
