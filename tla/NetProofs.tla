----------------------------- MODULE NetProofs -----------------------------
(***************************************************************************)
(* What is proved of the network card and the sends through it.            *)
(*  - The receive ring hands over every packet whole and in order, for     *)
(*    every size of the ring that divides the card's 16-bit offset.        *)
(*  - A frame or packet that is sent is the one that was built, for every  *)
(*    number of buffers, table entries, hosts and senders.                 *)
(***************************************************************************)
EXTENDS NicRing, NetSend, WellFoundedInduction, TLAPS

LEMMA Division ==
  ASSUME NEW N \in Nat \ {0}, NEW x \in Int
  PROVE  x % N \in 0..(N - 1) /\ x \div N \in Int /\ x = (x \div N) * N + (x % N)
  OBVIOUS

LEMMA NoMultiple ==
  ASSUME NEW N \in Nat \ {0}, NEW q \in Int, q * N < N, -N < q * N
  PROVE  q = 0
<1>1. q < 1
  <2>1. q >= 1 => q * N >= 1 * N
    OBVIOUS
  <2> QED  BY <2>1
<1>2. q > -1
  <2>1. q <= -1 => q * N <= (-1) * N
    OBVIOUS
  <2> QED  BY <2>1
<1> QED
  BY <1>1, <1>2

LEMMA Remainder ==
  ASSUME NEW N \in Nat \ {0}, NEW q \in Int, NEW r \in 0..(N - 1)
  PROVE  (q * N + r) % N = r
<1> DEFINE x == q * N + r
           d == q - (x \div N)
<1>1. x \in Int
  OBVIOUS
<1>2. x % N \in 0..(N - 1) /\ x \div N \in Int /\ x = (x \div N) * N + (x % N)
  <2> HIDE DEF x
  <2> QED  BY <1>1, Division
<1>3. d \in Int /\ d * N = (x % N) - r
  BY <1>2
<1>4. d = 0
  <2> HIDE DEF d
  <2>1. d * N < N /\ -N < d * N
    BY <1>2, <1>3
  <2> QED  BY <1>3, <2>1, NoMultiple
<1> QED
  BY <1>2, <1>3, <1>4

\* Numbers that differ by a multiple have the same remainder.
LEMMA SameRemainder ==
  ASSUME NEW N \in Nat \ {0}, NEW x \in Int, NEW q \in Int, NEW y, y = x + q * N
  PROVE  y % N = x % N
<1> DEFINE p == (x \div N) + q
           r == x % N
<1>1. p \in Int /\ r \in 0..(N - 1) /\ y = p * N + r
  BY Division
<1> HIDE DEF p, r
<1>2. (p * N + r) % N = r
  BY <1>1, Remainder, Zenon
<1> QED
  BY <1>1, <1>2 DEF r

-----------------------------------------------------------------------------
LEMMA CellRange == ASSUME NEW x \in Int PROVE Cell(x) \in 0..(RingCells - 1)
  BY NicAssumption, Division DEF Cell

LEMMA CellIs ==
  ASSUME NEW x \in Int, NEW q \in Int, x + q * RingCells \in 0..(RingCells - 1)
  PROVE  Cell(x) = x + q * RingCells
<1> DEFINE r == x + q * RingCells
<1>1. RingCells \in Nat \ {0} /\ -q \in Int /\ r \in 0..(RingCells - 1) /\ x = (-q) * RingCells + r
  BY NicAssumption
<1> HIDE DEF r
<1>2. ((-q) * RingCells + r) % RingCells = r
  BY <1>1, Remainder, Zenon
<1> QED
  BY <1>1, <1>2 DEF Cell, r

\* Positions with the same cell differ by a multiple of the ring's size.
LEMMA CellApart ==
  ASSUME NEW x \in Int, NEW y \in Int, Cell(x) = Cell(y)
  PROVE  \E q \in Int : y = x + q * RingCells
<1>1. RingCells \in Nat \ {0}
  BY NicAssumption
<1>2. x \div RingCells \in Int /\ x = (x \div RingCells) * RingCells + Cell(x)
  BY <1>1, Division DEF Cell
<1>3. y \div RingCells \in Int /\ y = (y \div RingCells) * RingCells + Cell(y)
  BY <1>1, Division DEF Cell
<1>4. Cell(x) \in Int
  BY <1>1, CellRange
<1> DEFINE q == (y \div RingCells) - (x \div RingCells)
<1>5. q \in Int /\ y = x + q * RingCells
  BY <1>1, <1>2, <1>3, <1>4
<1> QED
  BY <1>5

LEMMA CellSame ==
  ASSUME NEW x \in Int, NEW y \in Int, NEW q \in Int, y = x + q * RingCells
  PROVE  Cell(y) = Cell(x)
  BY NicAssumption, SameRemainder, ZenonT(40) DEF Cell

LEMMA CellDiff ==
  ASSUME NEW x \in Int, NEW y \in Int, NEW u \in Int, NEW v \in Int, Cell(x) = Cell(y), Cell(u) = Cell(v)
  PROVE  /\ Cell(x + u) = Cell(y + v)
         /\ Cell(x - u) = Cell(y - v)
<1>1. PICK q \in Int : y = x + q * RingCells
  BY CellApart
<1>2. PICK p \in Int : v = u + p * RingCells
  BY CellApart
<1>n. RingCells \in Int
  BY NicAssumption
<1>3. y + v = (x + u) + (q + p) * RingCells /\ y - v = (x - u) + (q - p) * RingCells
  BY <1>1, <1>2, <1>n
<1>4. q + p \in Int /\ q - p \in Int /\ x + u \in Int /\ y + v \in Int /\ x - u \in Int /\ y - v \in Int
  OBVIOUS
<1>5. Cell(y + v) = Cell(x + u)
  BY <1>3, <1>4, CellSame, Zenon
<1>6. Cell(y - v) = Cell(x - u)
  BY <1>3, <1>4, CellSame, Zenon
<1> QED
  BY <1>5, <1>6

LEMMA CellShift ==
  ASSUME NEW x \in Int, NEW y \in Int, NEW d \in Int, Cell(x) = Cell(y)
  PROVE  Cell(x + d) = Cell(y + d)
<1>1. PICK q \in Int : y = x + q * RingCells
  BY CellApart
<1>2. x + d \in Int /\ y + d \in Int /\ y + d = (x + d) + q * RingCells
  BY <1>1, NicAssumption
<1> QED
  BY <1>2, CellSame, Zenon

LEMMA CellSmall == ASSUME NEW x \in 0..(RingCells - 1) PROVE Cell(x) = x
<1>1. x \in Int /\ x + 0 * RingCells = x
  BY NicAssumption
<1> QED
  BY <1>1, CellIs

LEMMA CellBelow == ASSUME NEW x \in Int, -RingCells <= x, x < 0 PROVE Cell(x) = x + RingCells
<1>1. x + 1 * RingCells = x + RingCells /\ x + RingCells \in 0..(RingCells - 1)
  BY NicAssumption
<1> QED
  BY <1>1, CellIs

LEMMA CellAbove == ASSUME NEW x \in Int, RingCells <= x, x < 2 * RingCells PROVE Cell(x) = x - RingCells
<1>1. x + (-1) * RingCells = x - RingCells /\ x - RingCells \in 0..(RingCells - 1)
  BY NicAssumption
<1> QED
  BY <1>1, CellIs

LEMMA CellCell == ASSUME NEW x \in Int PROVE Cell(Cell(x)) = Cell(x)
  BY CellRange, CellSmall

\* The wrap of current_packet_read does not change the cell it stands for.
LEMMA CellWrap == ASSUME NEW x \in Int PROVE x % Wrap \in Int /\ Cell(x % Wrap) = Cell(x)
<1>1. RingCells \in Nat \ {0} /\ Wrap \in Nat \ {0} /\ Wrap % RingCells = 0
  BY NicAssumption
<1> DEFINE m == Wrap \div RingCells
           q == x \div Wrap
<1>2. m \in Int /\ Wrap = m * RingCells
  BY <1>1, Division
<1>3. q \in Int /\ x % Wrap \in Int /\ x = q * Wrap + (x % Wrap)
  BY <1>1, Division
<1> HIDE DEF m, q
<1>4. x = (x % Wrap) + (q * m) * RingCells
  <2>1. q * (m * RingCells) = (q * m) * RingCells
    BY <1>1, <1>2, <1>3
  <2> QED  BY <1>1, <1>2, <1>3, <2>1
<1>5. q * m \in Int
  BY <1>2, <1>3
<1> QED
  BY <1>3, <1>4, <1>5, CellSame

-----------------------------------------------------------------------------
\* The cell k of packet i of n data cells, and the data as handle_ethernet gets it.
PacketCell(i, n, k) == [id |-> i, pos |-> k, rx_size |-> n + 1]
Packet(i, n) == [k \in 1..n |-> PacketCell(i, n, k)]
Packets == Seq([id : Nat, pos : Nat, rx_size : Nat])

\* Packet j of the a in arr lies from position s[j] on: positions grow for ever, the
\* ring keeps them by their cells.
Positions(s, arr, a) ==
  /\ a \in Nat /\ arr \in [1..a -> Nat] /\ s \in [1..(a + 1) -> Int]
  /\ \A j \in 1..a : s[j + 1] = s[j] + arr[j] + 2
  /\ \A i \in 1..a, j \in 1..(a + 1) : i < j => s[i] + arr[i] + 2 <= s[j]

\* The packets after the first h lie in the ring rg, between the cells that the read
\* pointer rd and the card's pointer pt stand for, and leave at least a cell.
Between(s, a, h, pt, rd) ==
  /\ h \in 0..a /\ pt \in Int /\ rd \in Int
  /\ Cell(pt) = Cell(s[a + 1]) /\ Cell(rd) = Cell(s[h + 1])
  /\ s[a + 1] - s[h + 1] <= RingCells - 1
Stored(s, arr, a, h, rg) ==
  \A j \in (h + 1)..a : \A k \in 0..(arr[j] + 1) : rg[Cell(s[j] + k)] = PacketCell(j, arr[j], k)

\* The distance between the pointers, as the card computes it.
LEMMA Distance ==
  ASSUME NEW arr, NEW a, NEW s, NEW h, NEW pt, NEW rd, Positions(s, arr, a), Between(s, a, h, pt, rd)
  PROVE  /\ s[h + 1] \in Int /\ s[a + 1] \in Int
         /\ s[h + 1] <= s[a + 1]
         /\ Cell(pt - rd) = s[a + 1] - s[h + 1]
         /\ (Cell(pt) = Cell(rd)) = (h = a)
         /\ \A j \in (h + 1)..a :
              arr[j] \in Nat /\ s[j] \in Int /\ s[h + 1] <= s[j] /\ s[j] + arr[j] + 2 <= s[a + 1]
<1>0. a \in Nat /\ h \in 0..a /\ RingCells \in Nat \ {0} /\ h + 1 \in 1..(a + 1) /\ a + 1 \in 1..(a + 1)
  BY NicAssumption DEF Between, Positions
<1>p. /\ arr \in [1..a -> Nat] /\ s \in [1..(a + 1) -> Int]
      /\ \A i \in 1..a, j \in 1..(a + 1) : i < j => s[i] + arr[i] + 2 <= s[j]
  BY SMTT(30) DEF Positions
<1> DEFINE top == s[a + 1]
           low == s[h + 1]
<1>1. top \in Int /\ low \in Int
  BY <1>0, <1>p
<1>b. pt \in Int /\ rd \in Int /\ Cell(pt) = Cell(top) /\ Cell(rd) = Cell(low) /\ top - low <= RingCells - 1
  BY DEF Between
<1>2. h < a => arr[h + 1] \in Nat /\ low + arr[h + 1] + 2 <= top
  BY <1>0, <1>p
<1>3. h = a => low = top
  OBVIOUS
<1>4. low <= top /\ (low = top => h = a)
  <2> HIDE DEF top, low
  <2> QED  BY <1>0, <1>1, <1>2, <1>3
<1>5. Cell(pt - rd) = Cell(top - low)
  <2> HIDE DEF top, low
  <2> QED  BY <1>1, <1>b, CellDiff
<1>6. Cell(top - low) = top - low
  <2> HIDE DEF top, low
  <2>1. top - low \in 0..(RingCells - 1)
    BY <1>0, <1>1, <1>b, <1>4
  <2> QED  BY <2>1, CellSmall
<1>7. Cell(pt) = Cell(rd) => low = top
  <2> SUFFICES ASSUME Cell(pt) = Cell(rd) PROVE low = top
    OBVIOUS
  <2> HIDE DEF top, low
  <2>0. Cell(top) = Cell(low)
    BY <1>b, Zenon
  <2>1. Cell(top - low) = Cell(low - low)
    BY <1>1, <2>0, CellDiff
  <2>2. low - low = 0 /\ Cell(0) = 0
    BY <1>0, <1>1, CellSmall
  <2> QED  BY <1>1, <1>6, <2>1, <2>2
<1>8. (Cell(pt) = Cell(rd)) = (h = a)
  <2>1. h = a => Cell(pt) = Cell(rd)
    BY <1>b
  <2> QED  BY <1>4, <1>7, <2>1
<1>9. ASSUME NEW j \in (h + 1)..a
      PROVE  arr[j] \in Nat /\ s[j] \in Int /\ low <= s[j] /\ s[j] + arr[j] + 2 <= top
  <2>0. j \in 1..a /\ j \in 1..(a + 1) /\ j < a + 1
    BY <1>0
  <2>1. arr[j] \in Nat /\ s[j] \in Int /\ s[j] + arr[j] + 2 <= top
    BY <1>0, <1>p, <2>0
  <2>2. ASSUME j # h + 1 PROVE arr[h + 1] \in Nat /\ low + arr[h + 1] + 2 <= s[j]
    <3>1. h + 1 \in 1..a /\ h + 1 < j
      BY <1>0, <2>2
    <3> QED  BY <1>p, <2>0, <3>1
  <2>3. low <= s[j]
    <3> HIDE DEF top
    <3> QED  BY <1>0, <1>1, <2>1, <2>2
  <2> QED  BY <2>1, <2>3
<1> QED
  BY <1>1, <1>4, <1>5, <1>6, <1>8, <1>9

\* A packet of n cells that the card takes goes behind the others and over none.
Written(rg, pt, i, n) ==
  [c \in 0..(RingCells - 1) |-> IF Cell(c - pt) > n + 1 THEN rg[c] ELSE PacketCell(i, n, Cell(c - pt))]
Longer(arr, a, n) == [j \in 1..(a + 1) |-> IF j <= a THEN arr[j] ELSE n]
LEMMA Receives ==
  ASSUME NEW arr, NEW a, NEW s, NEW h, NEW pt, NEW rd, NEW rg, NEW n \in Nat,
         Positions(s, arr, a), Between(s, a, h, pt, rd), Stored(s, arr, a, h, rg),
         pt \in 0..(RingCells - 1), n + 2 <= RingCells - 1 - Cell(pt - rd)
  PROVE  \E s2 : /\ Positions(s2, Longer(arr, a, n), a + 1)
                 /\ Between(s2, a + 1, h, Cell(pt + n + 2), rd)
                 /\ Stored(s2, Longer(arr, a, n), a + 1, h, Written(rg, pt, a + 1, n))
<1>0. a \in Nat /\ h \in 0..a /\ RingCells \in Nat \ {0} /\ h + 1 \in 1..(a + 1) /\ pt \in Int /\ rd \in Int
  BY NicAssumption DEF Between, Positions
<1>p. /\ arr \in [1..a -> Nat] /\ s \in [1..(a + 1) -> Int]
      /\ \A j \in 1..a : s[j + 1] = s[j] + arr[j] + 2
      /\ \A i \in 1..a, j \in 1..(a + 1) : i < j => s[i] + arr[i] + 2 <= s[j]
  BY Zenon DEF Positions
<1>b. Cell(pt) = Cell(s[a + 1]) /\ Cell(rd) = Cell(s[h + 1])
  BY DEF Between
<1>d. /\ s[h + 1] \in Int /\ s[a + 1] \in Int /\ s[h + 1] <= s[a + 1]
      /\ Cell(pt - rd) = s[a + 1] - s[h + 1]
      /\ \A j \in (h + 1)..a :
           arr[j] \in Nat /\ s[j] \in Int /\ s[h + 1] <= s[j] /\ s[j] + arr[j] + 2 <= s[a + 1]
  BY Distance
<1> DEFINE top == s[a + 1]
           low == s[h + 1]
           s2  == [j \in 1..(a + 2) |-> IF j <= a + 1 THEN s[j] ELSE top + n + 2]
           arr2 == Longer(arr, a, n)
           rg2 == Written(rg, pt, a + 1, n)
<1>t. top \in Int /\ low \in Int /\ low <= top /\ Cell(pt) = Cell(top) /\ Cell(rd) = Cell(low)
  BY <1>b, <1>d, Zenon
<1>1. top - low + n + 2 <= RingCells - 1
  <2>1. Cell(pt - rd) = top - low
    BY <1>d
  <2> HIDE DEF top, low
  <2> QED  BY <1>0, <1>t, <2>1
<1>s. s2[a + 2] = top + n + 2 /\ s2[h + 1] = low /\ \A j \in 1..(a + 1) : s2[j] = s[j]
  BY <1>0
<1>r. arr2[a + 1] = n /\ \A j \in 1..a : arr2[j] = arr[j]
  BY <1>0 DEF Longer
<1>u. s[a + 1] = top
  OBVIOUS
<1>v. \A j \in (h + 1)..a : arr[j] \in Nat /\ s[j] \in Int /\ low <= s[j] /\ s[j] + arr[j] + 2 <= top
  BY <1>d, Zenon
<1>2. Positions(s2, arr2, a + 1)
  <2>1. a + 1 \in Nat /\ arr2 \in [1..(a + 1) -> Nat]
    <3>1. \A j \in 1..(a + 1) : j <= a => arr[j] \in Nat
      BY <1>0, <1>p
    <3> QED  BY <1>0, <3>1 DEF Longer
  <2>2. s2 \in [1..(a + 1 + 1) -> Int]
    <3>1. \A j \in 1..(a + 2) : j <= a + 1 => s[j] \in Int
      BY <1>0, <1>p
    <3>2. a + 1 + 1 = a + 2 /\ top + n + 2 \in Int
      BY <1>0, <1>t
    <3> HIDE DEF top
    <3> QED  BY <3>1, <3>2
  <2> HIDE DEF s2, top, low, arr2
  <2>3. ASSUME NEW j \in 1..(a + 1) PROVE s2[j + 1] = s2[j] + arr2[j] + 2
    <3>1. CASE j = a + 1
      BY <1>0, <1>s, <1>r, <1>u, <3>1
    <3>2. CASE j # a + 1
      <4>1. j \in 1..a /\ j + 1 \in 1..(a + 1)
        BY <1>0, <3>2
      <4> QED  BY <1>p, <1>s, <1>r, <4>1
    <3> QED  BY <3>1, <3>2
  <2>4. ASSUME NEW i \in 1..(a + 1), NEW j \in 1..(a + 1 + 1), i < j
        PROVE  s2[i] + arr2[i] + 2 <= s2[j]
    <3>1. CASE j \in 1..(a + 1)
      <4>1. i \in 1..a
        BY <1>0, <2>4, <3>1
      <4>2. s[i] + arr[i] + 2 <= s[j]
        BY <1>p, <2>4, <3>1, <4>1
      <4>3. i \in 1..(a + 1)
        OBVIOUS
      <4>4. s2[i] = s[i] /\ arr2[i] = arr[i] /\ s2[j] = s[j]
        BY <1>s, <1>r, <3>1, <4>1, <4>3
      <4> QED  BY <4>2, <4>4
    <3>2. CASE j = a + 2 /\ i = a + 1
      BY <1>0, <1>t, <1>s, <1>r, <1>u, <3>2
    <3>3. CASE j = a + 2 /\ i \in 1..a
      <4>1. a + 1 \in 1..(a + 1) /\ i < a + 1 /\ i \in 1..(a + 1)
        BY <1>0, <3>3
      <4>2. arr[i] \in Nat /\ s[i] \in Int /\ s[i] + arr[i] + 2 <= top
        BY <1>p, <1>u, <3>3, <4>1
      <4>3. s2[i] = s[i] /\ arr2[i] = arr[i] /\ s2[j] = top + n + 2
        BY <1>s, <1>r, <3>3, <4>1
      <4> QED  BY <1>t, <4>2, <4>3
    <3> QED  BY <1>0, <3>1, <3>2, <3>3
  <2> QED  BY <2>1, <2>2, <2>3, <2>4, Zenon DEF Positions
<1>3. Between(s2, a + 1, h, Cell(pt + n + 2), rd)
  <2> HIDE DEF s2, top, low
  <2>1. h \in 0..(a + 1) /\ a + 1 + 1 = a + 2
    BY <1>0
  <2>2. n + 2 \in Int /\ pt + n + 2 = pt + (n + 2) /\ top + n + 2 = top + (n + 2) /\ pt + n + 2 \in Int
    BY <1>0, <1>t
  <2>3. Cell(pt + (n + 2)) = Cell(top + (n + 2))
    BY <1>0, <1>t, <2>2, CellDiff
  <2>4. Cell(pt + n + 2) \in Int /\ Cell(Cell(pt + n + 2)) = Cell(pt + n + 2)
    BY <2>2, CellCell, CellRange
  <2>5. Cell(Cell(pt + n + 2)) = Cell(s2[a + 1 + 1])
    BY <1>s, <2>1, <2>2, <2>3, <2>4
  <2>6. Cell(rd) = Cell(s2[h + 1]) /\ s2[a + 1 + 1] - s2[h + 1] <= RingCells - 1
    BY <1>0, <1>1, <1>t, <1>s, <2>1
  <2> QED  BY <1>0, <2>1, <2>4, <2>5, <2>6 DEF Between
<1>4. Stored(s2, arr2, a + 1, h, rg2)
  <2> HIDE DEF s2, top, low, arr2, rg2
  <2> SUFFICES ASSUME NEW j \in (h + 1)..(a + 1), NEW k \in 0..(arr2[j] + 1)
               PROVE  rg2[Cell(s2[j] + k)] = PacketCell(j, arr2[j], k)
    BY DEF Stored
  <2>i. j \in 1..(a + 1)
    BY <1>0
  <2>j. s2[j] = s[j] /\ s[j] \in Int
    BY <1>p, <1>s, <2>i
  <2>1. CASE j = a + 1
    <3>1. k \in 0..(n + 1) /\ arr2[j] = n /\ s2[j] = top /\ k \in Int /\ top \in Int
      BY <1>t, <1>r, <1>u, <2>j, <2>1
    <3> DEFINE c == Cell(top + k)
    <3>2. c \in 0..(RingCells - 1) /\ c \in Int /\ Cell(c) = Cell(top + k)
      BY <3>1, CellRange, CellCell
    <3>3. Cell(c - pt) = Cell((top + k) - top)
      <4>1. top + k \in Int
        BY <3>1
      <4> HIDE DEF c
      <4> QED  BY <1>0, <1>t, <3>1, <3>2, <4>1, CellDiff
    <3>4. (top + k) - top = k /\ Cell(k) = k
      <4>1. k \in 0..(RingCells - 1)
        BY <1>0, <1>1, <1>t, <3>1
      <4> QED  BY <1>t, <3>1, <4>1, CellSmall
    <3>5. ~(Cell(c - pt) > n + 1)
      BY <3>1, <3>3, <3>4
    <3> HIDE DEF c
    <3>6. rg2[c] = PacketCell(a + 1, n, k)
      BY <3>2, <3>3, <3>4, <3>5 DEF rg2, Written
    <3> QED  BY <2>1, <3>1, <3>6 DEF c
  <2>2. CASE j # a + 1
    <3>1. j \in (h + 1)..a /\ j \in 1..a
      BY <1>0, <2>2
    <3>2. arr2[j] = arr[j] /\ arr[j] \in Nat /\ low <= s[j] /\ s[j] + arr[j] + 2 <= top
      BY <1>v, <1>r, <3>1
    <3>3. k \in 0..(arr[j] + 1) /\ rg[Cell(s[j] + k)] = PacketCell(j, arr[j], k) /\ s[j] + k \in Int
      BY <2>j, <3>1, <3>2 DEF Stored
    <3> DEFINE p == s[j] + k
               c == Cell(p)
    <3>4. p \in Int /\ low <= p /\ p < top
      BY <1>t, <2>j, <3>2, <3>3
    <3>5. c \in 0..(RingCells - 1) /\ c \in Int /\ Cell(c) = Cell(p)
      BY <3>4, CellRange, CellCell
    <3> HIDE DEF c, p
    <3>6. Cell(c - pt) = Cell(p - top)
      BY <1>0, <1>t, <3>4, <3>5, CellDiff
    <3>7. Cell(p - top) = p - top + RingCells
      <4>1. p - top \in Int /\ -RingCells <= p - top /\ p - top < 0
        BY <1>0, <1>1, <1>t, <3>4
      <4> QED  BY <4>1, CellBelow
    <3>8. Cell(c - pt) > n + 1
      BY <1>0, <1>1, <1>t, <3>4, <3>6, <3>7
    <3>9. rg2[c] = rg[c]
      BY <3>5, <3>8 DEF rg2, Written
    <3> QED  BY <2>j, <3>2, <3>3, <3>9 DEF c, p
  <2> QED  BY <2>1, <2>2
<1> QED
  <2> HIDE DEF s2
  <2> QED  BY <1>2, <1>3, <1>4, Zenon

\* What handle_packet finds at its pointer is the next packet, whole, and it moves on
\* to the one after it.
LEMMA Handles ==
  ASSUME NEW arr, NEW a, NEW s, NEW h, NEW pt, NEW rd,
         Positions(s, arr, a), Between(s, a, h, pt, rd), Stored(s, arr, a, h, ring), Cell(pt) # Cell(rd)
  PROVE  /\ h < a /\ arr[h + 1] \in Nat
         /\ ring[Cell(rd)].rx_size = arr[h + 1] + 1
         /\ PacketData(Cell(rd), arr[h + 1] + 1) = Packet(h + 1, arr[h + 1])
         /\ Between(s, a, h + 1, pt, (rd + (arr[h + 1] + 1) + 1) % Wrap)
         /\ Stored(s, arr, a, h + 1, ring)
<1>0. a \in Nat /\ h \in 0..a /\ RingCells \in Nat \ {0} /\ pt \in Int /\ rd \in Int
  BY NicAssumption DEF Between, Positions
<1>b. Cell(pt) = Cell(s[a + 1]) /\ Cell(rd) = Cell(s[h + 1]) /\ s[a + 1] - s[h + 1] <= RingCells - 1
  BY DEF Between
<1>d. /\ s[h + 1] \in Int /\ s[a + 1] \in Int /\ h # a
      /\ \A j \in (h + 1)..a :
           arr[j] \in Nat /\ s[j] \in Int /\ s[h + 1] <= s[j] /\ s[j] + arr[j] + 2 <= s[a + 1]
  BY Distance
<1>1. h < a /\ h + 1 \in (h + 1)..a /\ h + 1 \in 1..a
  BY <1>0, <1>d
<1> DEFINE n == arr[h + 1]
           low == s[h + 1]
           at == Cell(rd)
<1>2. n \in Nat /\ low \in Int /\ low + n + 2 <= s[a + 1] /\ n + 2 <= RingCells - 1
  BY <1>0, <1>1, <1>b, <1>d
<1>3. at \in 0..(RingCells - 1) /\ at \in Int /\ Cell(at) = Cell(low)
  BY <1>0, <1>b, CellRange, CellCell
<1>4. \A k \in 0..(n + 1) : ring[Cell(low + k)] = PacketCell(h + 1, n, k)
  BY <1>1 DEF Stored
<1> HIDE DEF n, low, at
<1>5. \A k \in 0..(n + 1) : Cell(at + k) = Cell(low + k)
  <2> TAKE k \in 0..(n + 1)
  <2>1. k \in Int
    OBVIOUS
  <2> QED  BY <1>2, <1>3, <2>1, CellDiff, ZenonT(40)
<1>6. ring[at].rx_size = n + 1
  <2>1. 0 \in 0..(n + 1) /\ low + 0 = low
    BY <1>2
  <2>2. at = Cell(low)
    BY <1>b DEF at, low
  <2>3. ring[at] = PacketCell(h + 1, n, 0)
    BY <1>4, <2>1, <2>2
  <2> QED  BY <2>3 DEF PacketCell
<1>7. PacketData(at, n + 1) = Packet(h + 1, n)
  <2> DEFINE end == RingCells - at - 1
             ix(k) == IF at + (n + 1) > RingCells THEN (IF k <= end THEN at + k ELSE k - end - 1) ELSE at + k
  <2>1. ASSUME NEW k \in 1..n PROVE ring[ix(k)] = PacketCell(h + 1, n, k)
    <3>1. k \in 0..(n + 1) /\ k \in Int
      BY <1>2
    <3>2. ix(k) = Cell(at + k)
      <4>1. CASE at + k \in 0..(RingCells - 1)
        <5>1. Cell(at + k) = at + k
          BY <4>1, CellSmall
        <5>2. ix(k) = at + k
          BY <1>0, <1>3, <3>1, <4>1
        <5> QED  BY <5>1, <5>2
      <4>2. CASE at + k >= RingCells
        <5>1. at + k \in Int /\ at + k < 2 * RingCells
          BY <1>0, <1>2, <1>3, <3>1
        <5>2. Cell(at + k) = (at + k) - RingCells
          <6> DEFINE x == at + k
          <6>1. x \in Int /\ RingCells <= x /\ x < 2 * RingCells
            BY <1>0, <4>2, <5>1
          <6> HIDE DEF x
          <6>2. Cell(x) = x - RingCells
            BY <6>1, CellAbove
          <6> QED  BY <6>2, Zenon DEF x
        <5>3. ix(k) = (at + k) - RingCells
          BY <1>0, <1>2, <1>3, <3>1, <4>2
        <5> QED  BY <5>2, <5>3
      <4> QED  BY <1>0, <1>3, <3>1, <4>1, <4>2
    <3> HIDE DEF ix
    <3> QED  BY <1>4, <1>5, <3>1, <3>2
  <2>2. (n + 1) - 1 = n
    BY <1>2
  <2>3. \A k \in 1..n : (IF at + (n + 1) > RingCells
                        THEN ring[IF k <= end THEN at + k ELSE k - end - 1]
                        ELSE ring[at + k]) = ring[ix(k)]
    OBVIOUS
  <2> HIDE DEF ix
  <2>4. [k \in 1..((n + 1) - 1) |-> IF at + (n + 1) > RingCells
                                 THEN ring[IF k <= end THEN at + k ELSE k - end - 1]
                                 ELSE ring[at + k]] = Packet(h + 1, n)
    BY <2>1, <2>2, <2>3 DEF Packet
  <2> QED  BY <2>4, Zenon DEF PacketData
<1>8. Between(s, a, h + 1, pt, (rd + (n + 1) + 1) % Wrap)
  <2> DEFINE to == rd + (n + 1) + 1
  <2>1. to \in Int /\ to = rd + (n + 2) /\ n + 2 \in Int
    BY <1>0, <1>2
  <2> HIDE DEF to
  <2>2. to % Wrap \in Int /\ Cell(to % Wrap) = Cell(to)
    BY <2>1, CellWrap
  <2>3. Cell(rd) = Cell(low)
    BY <1>b DEF low
  <2>4. Cell(rd + (n + 2)) = Cell(low + (n + 2))
    <3> DEFINE m == n + 2
    <3>1. m \in Int
      BY <2>1
    <3> HIDE DEF m
    <3>2. Cell(rd + m) = Cell(low + m)
      <4>1. rd \in Int /\ low \in Int
        BY <1>0, <1>2
      <4> QED  BY <2>3, <3>1, <4>1, CellShift, Zenon
    <3> QED  BY <3>2, Zenon DEF m
  <2>5. s[h + 1 + 1] = low + (n + 2)
    <3>1. s[h + 1 + 1] = s[h + 1] + arr[h + 1] + 2
      BY <1>1, Zenon DEF Positions
    <3> QED  BY <1>2, <3>1 DEF low, n
  <2>6. s[a + 1] - s[h + 1 + 1] <= RingCells - 1
    <3>1. s[a + 1] - low <= RingCells - 1 /\ s[a + 1] \in Int
      BY <1>b, <1>d DEF low
    <3> QED  BY <1>0, <1>2, <2>5, <3>1
  <2>7. Cell(to % Wrap) = Cell(s[h + 1 + 1])
    BY <2>1, <2>2, <2>4, <2>5
  <2>8. h + 1 \in 0..a
    BY <1>0, <1>1
  <2> QED  BY <1>0, <1>b, <2>2, <2>6, <2>7, <2>8, Zenon DEF Between, to
<1>9. Stored(s, arr, a, h + 1, ring)
  <2>1. \A j \in (h + 1 + 1)..a : j \in (h + 1)..a
    BY <1>0
  <2> QED  BY <2>1 DEF Stored
<1> QED
  BY <1>1, <1>2, <1>6, <1>7, <1>8, <1>9 DEF n, at

-----------------------------------------------------------------------------
\* The inductive invariant: the pointers agree with the packets not yet handled, and
\* what was handled is what arrived.
NicTypeOK == /\ arrived \in Seq(Nat) /\ handled \in Seq(Packets) /\ isr \in BOOLEAN
             /\ put \in 0..(RingCells - 1) /\ capr = rx_read
NicInv == /\ NicTypeOK
          /\ \E s : /\ Positions(s, arrived, Len(arrived))
                    /\ Between(s, Len(arrived), Len(handled), put, rx_read)
                    /\ Stored(s, arrived, Len(arrived), Len(handled), ring)
          /\ \A i \in 1..Len(handled) : handled[i] = Packet(i, arrived[i])
          /\ NoPacketStuck

LEMMA NicInitInv == NicInit => NicInv
<1> SUFFICES ASSUME NicInit PROVE NicInv
  OBVIOUS
<1> DEFINE s == [j \in 1..1 |-> 0]
<1>0. arrived = <<>> /\ handled = <<>> /\ put = 0 /\ rx_read = 0 /\ capr = 0 /\ handler = "idle" /\ isr = FALSE
      /\ Len(arrived) = 0 /\ Len(handled) = 0
  BY DEF NicInit
<1>1. NicTypeOK
  <2>1. <<>> \in Seq(Nat) /\ <<>> \in Seq(Packets)
    OBVIOUS
  <2>2. put \in 0..(RingCells - 1)
    BY <1>0, NicAssumption
  <2> QED  BY <1>0, <2>1, <2>2, Zenon DEF NicTypeOK
<1>2. Positions(s, arrived, 0)
  BY <1>0 DEF Positions
<1>3. Between(s, 0, 0, 0, 0)
  BY NicAssumption DEF Between
<1>4. Stored(s, arrived, 0, 0, ring)
  BY DEF Stored
<1>5. NoPacketStuck
  BY <1>0 DEF NoPacketStuck
<1> QED
  <2> HIDE DEF s
  <2>1. \A i \in 1..Len(handled) : handled[i] = Packet(i, arrived[i])
    BY <1>0
  <2> QED  BY <1>0, <1>1, <1>2, <1>3, <1>4, <1>5, <2>1 DEF NicInv

LEMMA NicStepInv == NicInv /\ [NicNext]_nic_vars => NicInv'
<1> SUFFICES ASSUME NicInv, [NicNext]_nic_vars PROVE NicInv'
  OBVIOUS
<1> DEFINE a == Len(arrived)
           h == Len(handled)
<1>t. /\ arrived \in Seq(Nat) /\ handled \in Seq(Packets) /\ isr \in BOOLEAN
      /\ put \in 0..(RingCells - 1) /\ capr = rx_read /\ RingCells \in Nat \ {0}
      /\ a \in Nat /\ h \in Nat
  BY NicAssumption DEF NicInv, NicTypeOK
<1>s. PICK s : /\ Positions(s, arrived, a) /\ Between(s, a, h, put, rx_read)
               /\ Stored(s, arrived, a, h, ring)
  BY DEF NicInv
<1>h. (\A i \in 1..h : handled[i] = Packet(i, arrived[i])) /\ NoPacketStuck
  BY DEF NicInv
<1>r. rx_read \in Int /\ h \in 0..a /\ (Cell(put) = Cell(rx_read)) = (h = a)
  <2>1. (Cell(put) = Cell(rx_read)) = (h = a)
    <3> HIDE DEF a, h
    <3> QED  BY <1>s, Distance
  <2>2. rx_read \in Int /\ h \in 0..a
    BY <1>s, SMTT(30) DEF Between
  <2> QED  BY <2>1, <2>2
<1> HIDE DEF a, h
<1>1. ASSUME NEW n \in DataCells, nic_receive(n) PROVE NicInv'
  <2>0. n \in Nat
    BY NicAssumption, SMTT(30)
  <2>1. /\ put' = Cell(put + n + 2) /\ isr' = TRUE /\ arrived' = Append(arrived, n)
        /\ rx_read' = rx_read /\ capr' = capr /\ handler' = handler /\ handled' = handled
        /\ n + 2 <= RingCells - 1 - Cell(put - rx_read)
    BY <1>1, <1>t DEF nic_receive, Room
  <2>2. ring' = Written(ring, put, a + 1, n)
    BY <1>1 DEF nic_receive, Written, PacketCell, a
  <2>3. Len(arrived') = a + 1 /\ arrived' = Longer(arrived, a, n) /\ arrived' \in Seq(Nat)
    <3>1. /\ arrived' \in Seq(Nat) /\ Len(arrived') = a + 1
          /\ arrived'[a + 1] = n /\ \A j \in 1..a : arrived'[j] = arrived[j]
      BY <1>t, <2>0, <2>1 DEF a
    <3>2. arrived' = [j \in 1..(a + 1) |-> arrived'[j]]
      BY <3>1
    <3>3. \A j \in 1..(a + 1) : arrived'[j] = IF j <= a THEN arrived[j] ELSE n
      BY <1>t, <3>1
    <3> QED  BY <3>1, <3>2, <3>3 DEF Longer
  <2>4. \A i \in 1..h : arrived'[i] = arrived[i]
    BY <1>t, <1>r, <2>3 DEF Longer
  <2>5. PICK s2 : /\ Positions(s2, Longer(arrived, a, n), a + 1)
                  /\ Between(s2, a + 1, h, Cell(put + n + 2), rx_read)
                  /\ Stored(s2, Longer(arrived, a, n), a + 1, h, Written(ring, put, a + 1, n))
    BY <1>t, <1>s, <2>0, <2>1, Receives, Zenon
  <2>6. \E z : /\ Positions(z, arrived', Len(arrived'))
                /\ Between(z, Len(arrived'), Len(handled'), put', rx_read')
                /\ Stored(z, arrived', Len(arrived'), Len(handled'), ring')
    BY <2>1, <2>2, <2>3, <2>5, Zenon DEF h
  <2>7. NicTypeOK'
    <3>1. Cell(put + n + 2) \in 0..(RingCells - 1)
      <4>1. put + n + 2 \in Int
        BY <1>t, <2>0
      <4> QED  BY <4>1, CellRange
    <3> QED  BY <1>t, <2>1, <2>3, <3>1 DEF NicTypeOK
  <2>8. \A i \in 1..Len(handled') : handled'[i] = Packet(i, arrived'[i])
    BY <1>h, <2>1, <2>4, Zenon DEF h
  <2>9. NoPacketStuck'
    BY <2>1 DEF NoPacketStuck
  <2> QED  BY <2>6, <2>7, <2>8, <2>9 DEF NicInv
<1>2. CASE rtl8139_enter \/ acknowledge \/ UNCHANGED nic_vars
  <2>1. UNCHANGED <<ring, put, rx_read, capr, arrived, handled>> /\ isr' \in BOOLEAN
    BY <1>2, <1>t, Zenon DEF rtl8139_enter, acknowledge, nic_vars
  <2>2. NoPacketStuck'
    BY <1>2, <1>h, SMTT(30) DEF NoPacketStuck, rtl8139_enter, acknowledge, nic_vars
  <2> QED  BY <1>t, <1>s, <1>h, <2>1, <2>2 DEF NicInv, NicTypeOK, a, h
<1>3. CASE handle_packet
  <2> DEFINE n == arrived[h + 1]
  <2>1. Cell(put) # Cell(rx_read)
    BY <1>3, <1>t, SMTT(30) DEF handle_packet, BufferEmpty
  <2>2. /\ h < a /\ n \in Nat
        /\ ring[Cell(rx_read)].rx_size = n + 1
        /\ PacketData(Cell(rx_read), n + 1) = Packet(h + 1, n)
        /\ Between(s, a, h + 1, put, (rx_read + (n + 1) + 1) % Wrap)
        /\ Stored(s, arrived, a, h + 1, ring)
    BY <1>s, <2>1, Handles, SMTT(30)
  <2> HIDE DEF n
  <2>3. /\ handled' = Append(handled, Packet(h + 1, n))
        /\ rx_read' = (rx_read + (n + 1) + 1) % Wrap /\ capr' = rx_read'
        /\ UNCHANGED <<ring, put, isr, handler, arrived>> /\ handler = "draining"
    BY <1>3, <2>2 DEF handle_packet
  <2>4. Packet(h + 1, n) \in Packets
    <3>1. h + 1 \in Nat /\ n \in Nat
      BY <1>t, <2>2
    <3> QED  BY <3>1 DEF Packets, Packet, PacketCell
  <2>5. /\ Len(handled') = h + 1 /\ handled' \in Seq(Packets)
        /\ handled'[h + 1] = Packet(h + 1, n) /\ \A i \in 1..h : handled'[i] = handled[i]
    BY <1>t, <2>3, <2>4 DEF h
  <2>6. NicTypeOK'
    BY <1>t, <2>3, <2>5 DEF NicTypeOK
  <2>7. ASSUME NEW i \in 1..(h + 1) PROVE handled'[i] = Packet(i, arrived'[i])
    <3>1. CASE i = h + 1
      BY <2>3, <2>5, <3>1 DEF n
    <3>2. CASE i # h + 1
      <4>1. i \in 1..h
        BY <1>t, <3>2
      <4> QED  BY <1>h, <2>3, <2>5, <4>1
    <3> QED  BY <3>1, <3>2
  <2>8. \E z : /\ Positions(z, arrived', Len(arrived'))
                /\ Between(z, Len(arrived'), Len(handled'), put', rx_read')
                /\ Stored(z, arrived', Len(arrived'), Len(handled'), ring')
    BY <1>s, <2>2, <2>3, <2>5, Zenon DEF a
  <2>9. NoPacketStuck'
    BY <2>3 DEF NoPacketStuck
  <2> QED  BY <2>5, <2>6, <2>7, <2>8, <2>9 DEF NicInv
<1>4. CASE rtl8139_leave
  <2>1. UNCHANGED <<ring, put, rx_read, capr, isr, arrived, handled>> /\ h = a
    BY <1>4, <1>t, <1>r DEF rtl8139_leave, BufferEmpty
  <2>2. NoPacketStuck'
    BY <1>t, <2>1 DEF NoPacketStuck, a, h
  <2> QED  BY <1>t, <1>s, <1>h, <2>1, <2>2 DEF NicInv, NicTypeOK, a, h
<1> QED
  BY <1>1, <1>2, <1>3, <1>4 DEF NicNext

\* Whatever the sizes of the ring and of the packets, and at whatever point of
\* rtl8139_handler the card writes, handle_ethernet gets every packet whole, once and
\* in order, and none is left in the ring without an interrupt.
THEOREM NicReceives == NicSpec => []ReceiveExact
<1>1. NicInv => ReceiveExact
  <2> SUFFICES ASSUME NicInv PROVE ReceiveExact
    OBVIOUS
  <2>1. Len(handled) <= Len(arrived)
    BY DEF NicInv, NicTypeOK, Between
  <2>2. \A i \in 1..Len(handled) : handled[i] = Packet(i, arrived[i])
    BY DEF NicInv
  <2>3. NoPacketStuck
    BY DEF NicInv
  <2> QED  BY <2>1, <2>2, <2>3 DEF ReceiveExact, PacketsInOrder, Packet, PacketCell
<1> QED
  BY <1>1, NicInitInv, NicStepInv, PTL DEF NicSpec
-----------------------------------------------------------------------------
NetTos == Dests \cup NetHosts \cup {Gateway, Self, NoHost, "all"}
Frames == [to : NetTos, pay : Nat \cup NetTos]
Handed == [buf : 0..(NumTx - 1), want : Frames]
Sending == [at : {"idle", "udp", "tcp"}, ip : Dests \cup {Self}, pay : Nat]
NetTypeOK ==
  /\ arp \in [1..ArpSize -> NetHosts \cup {NoHost}] /\ known \subseteq NetHosts
  /\ ipbuf \in Nat /\ sends \in Nat /\ loop \in 0..(NumTx - 1)
  /\ tx \in [0..(NumTx - 1) -> Frames] /\ pend \in Seq(Handed) /\ snd \in [Senders -> Sending]
  /\ wrong \in BOOLEAN /\ evicted \in BOOLEAN /\ hung \in BOOLEAN /\ risk \in BOOLEAN

\* The frames that the card has still to fetch are in their buffers as they were built.
FramesKept(t, q) == \A i \in 1..Len(q) : t[q[i].buf] = q[i].want

\* Whoever waits for an answer has their packet in ipv4_buffer.
PacketsKept(sn, ib) == \A p \in Senders : sn[p].at # "tcp" /\ (sn[p].at = "udp" => sn[p].pay = ib)

\* Who has asked for our address is in the table.
Entered == \A h \in known : Cached(h)

\* The inductive invariant: as long as nothing was put at risk everything is kept, and
\* as long as nothing was evicted everybody who asked is entered.
NetInv == /\ NetTypeOK
          /\ ~risk => ~wrong /\ FramesKept(tx, pend) /\ PacketsKept(snd, ipbuf)
          /\ ~evicted => ~hung /\ Entered

\* find_arp_entry_to_use returns an entry of the table.
LEMMA EntryToUse == find_arp_entry_to_use \in 1..ArpSize
<1>0. ArpSize \in Nat \ {0}
  BY NetAssumption
<1> DEFINE S == {i \in 1..ArpSize : arp[i] = NoHost}
<1>1. CASE S = {}
  BY <1>0, <1>1 DEF find_arp_entry_to_use
<1>2. CASE S # {}
  <2>1. S \subseteq Nat /\ S \subseteq 1..ArpSize
    BY <1>0
  <2> HIDE DEF S
  <2>2. PICK x \in S : \A y \in S : ~(<<y, x>> \in OpToRel(<, Nat))
    BY <1>2, <2>1, NatLessThanWellFounded, WFMin, Zenon
  <2>3. ASSUME NEW y \in S PROVE x <= y
    <3>1. OpToRel(<, Nat) = {ss \in Nat \X Nat : ss[1] < ss[2]}
      BY Zenon DEF OpToRel
    <3>2. y < x => <<y, x>> \in {ss \in Nat \X Nat : ss[1] < ss[2]}
      BY <2>1
    <3>3. ~(y < x)
      BY <2>2, <3>1, <3>2, Zenon
    <3> QED  BY <2>1, <3>3
  <2>4. Min(S) \in S
    BY <2>3 DEF Min
  <2>5. find_arp_entry_to_use = Min(S)
    BY <1>2 DEF find_arp_entry_to_use, S
  <2> QED  BY <2>1, <2>4, <2>5, Zenon
<1> QED
  BY <1>1, <1>2

\* Learning an address loses nobody without saying so.
LEMMA LearnStep ==
  ASSUME NetTypeOK, NEW h \in NetHosts, Learn(h)
  PROVE  /\ arp' \in [1..ArpSize -> NetHosts \cup {NoHost}] /\ evicted' \in BOOLEAN
         /\ ~evicted' => ~evicted /\ Cached(h)' /\ \A g \in NetHosts : Cached(g) => Cached(g)'
<1> DEFINE i == find_arp_entry_to_use
<1>0. i \in 1..ArpSize /\ arp \in [1..ArpSize -> NetHosts \cup {NoHost}]
  BY EntryToUse DEF NetTypeOK
<1> HIDE DEF i
<1>1. arp' = [arp EXCEPT ![i] = h] /\ evicted' = (evicted \/ arp[i] \notin {NoHost, h})
  BY DEF Learn, i
<1>2. arp' \in [1..ArpSize -> NetHosts \cup {NoHost}] /\ arp'[i] = h
  BY <1>0, <1>1
<1>3. evicted' \in BOOLEAN
  BY <1>1
<1>4. ASSUME ~evicted', NEW g \in NetHosts, Cached(g) PROVE Cached(g)'
  <2>1. PICK j \in 1..ArpSize : arp[j] = g
    BY <1>4 DEF Cached
  <2>2. CASE j = i
    <3>1. g = h
      BY <1>1, <1>4, <2>1, <2>2, NetAssumption, Zenon
    <3> QED  BY <1>0, <1>2, <3>1 DEF Cached
  <2>3. CASE j # i
    <3>1. arp'[j] = g
      BY <1>0, <1>1, <2>1, <2>3
    <3> QED  BY <3>1 DEF Cached
  <2> QED  BY <2>2, <2>3
<1>5. Cached(h)'
  BY <1>0, <1>2 DEF Cached
<1> QED
  BY <1>1, <1>2, <1>3, <1>4, <1>5, Zenon

\* A frame handed to the card in a buffer it had fetched leaves the others as they are.
LEMMA HandOver ==
  ASSUME NetTypeOK, NEW t \in [0..(NumTx - 1) -> Frames], NEW w \in Frames, NEW more \in BOOLEAN,
         \A b \in 0..(NumTx - 1) : b # loop => t[b] = tx[b],
         tx' = t, pend' = Append(pend, [buf |-> loop, want |-> w]), loop' = (loop + 1) % NumTx,
         risk' = (risk \/ Overrun(loop) \/ more)
  PROVE  /\ tx' \in [0..(NumTx - 1) -> Frames] /\ pend' \in Seq(Handed) /\ loop' \in 0..(NumTx - 1)
         /\ risk' \in BOOLEAN
         /\ ~risk' => ~risk /\ ~more /\ (t[loop] = w /\ FramesKept(tx, pend) => FramesKept(tx', pend'))
<1>0. NumTx \in Nat \ {0} /\ loop \in 0..(NumTx - 1) /\ pend \in Seq(Handed)
  BY NetAssumption DEF NetTypeOK
<1>1. loop' \in 0..(NumTx - 1)
  BY <1>0
<1> DEFINE new == [buf |-> loop, want |-> w]
<1>2. new \in Handed /\ new.buf = loop /\ new.want = w
  BY <1>0 DEF Handed
<1> HIDE DEF new
<1>3. /\ pend' \in Seq(Handed) /\ Len(pend') = Len(pend) + 1 /\ Len(pend) \in Nat
      /\ pend'[Len(pend) + 1] = new /\ \A i \in 1..Len(pend) : pend'[i] = pend[i]
  <2>1. pend' = Append(pend, new)
    BY DEF new
  <2> QED  BY <1>0, <1>2, <2>1
<1>4. risk' \in BOOLEAN
  BY SMTT(30)
<1>5. ASSUME ~risk', t[loop] = w, FramesKept(tx, pend) PROVE FramesKept(tx', pend')
  <2> SUFFICES ASSUME NEW i \in 1..Len(pend') PROVE t[pend'[i].buf] = pend'[i].want
    BY Zenon DEF FramesKept
  <2>1. CASE i = Len(pend) + 1
    BY <1>2, <1>3, <1>5, <2>1
  <2>2. CASE i # Len(pend) + 1
    <3>1. i \in 1..Len(pend)
      BY <1>3, <2>2
    <3>2. pend[i] \in Handed
      BY <1>0, <3>1
    <3>3. pend[i].buf # loop
      BY <1>5, <3>1, Zenon DEF Overrun
    <3>4. tx[pend[i].buf] = pend[i].want /\ pend[i].buf \in 0..(NumTx - 1)
      BY <1>5, <3>1, <3>2 DEF FramesKept, Handed
    <3> QED  BY <1>3, <3>1, <3>3, <3>4
  <2> QED  BY <2>1, <2>2
<1> QED
  BY <1>1, <1>3, <1>4, <1>5, Zenon

\* rtl8139_send_data, of the frame that is meant or of another.
LEMMA SendData ==
  ASSUME NetTypeOK, NEW f \in Frames, NEW w \in Frames, NEW more \in BOOLEAN,
         rtl8139_send_data(f, w, more)
  PROVE  /\ tx' \in [0..(NumTx - 1) -> Frames] /\ pend' \in Seq(Handed) /\ loop' \in 0..(NumTx - 1)
         /\ risk' \in BOOLEAN
         /\ ~risk' => ~risk /\ ~more /\ (f = w /\ FramesKept(tx, pend) => FramesKept(tx', pend'))
<1>0. loop \in 0..(NumTx - 1) /\ tx \in [0..(NumTx - 1) -> Frames]
  BY DEF NetTypeOK
<1> DEFINE t == [tx EXCEPT ![loop] = f]
<1>1. /\ t \in [0..(NumTx - 1) -> Frames] /\ t[loop] = f
      /\ \A b \in 0..(NumTx - 1) : b # loop => t[b] = tx[b]
  BY <1>0
<1>2. /\ tx' = t /\ pend' = Append(pend, [buf |-> loop, want |-> w]) /\ loop' = (loop + 1) % NumTx
      /\ risk' = (risk \/ Overrun(loop) \/ more)
  BY DEF rtl8139_send_data
<1> HIDE DEF t
<1> QED
  BY <1>1, <1>2, HandOver, Zenon

\* nic_send_buffer, of a packet in the transmit buffer.
LEMMA SendBuffer ==
  ASSUME NetTypeOK, NEW u \in [0..(NumTx - 1) -> Frames], NEW h \in NetTos, NEW w \in Frames,
         NEW more \in BOOLEAN, \A b \in 0..(NumTx - 1) : b # loop => u[b] = tx[b],
         nic_send_buffer(h, u, w, more)
  PROVE  /\ tx' \in [0..(NumTx - 1) -> Frames] /\ pend' \in Seq(Handed) /\ loop' \in 0..(NumTx - 1)
         /\ risk' \in BOOLEAN
         /\ ~risk' => ~risk /\ ~more
                      /\ (w = Frame(h, u[loop].pay) /\ FramesKept(tx, pend) => FramesKept(tx', pend'))
<1>0. loop \in 0..(NumTx - 1) /\ u[loop] \in Frames
  BY DEF NetTypeOK
<1> DEFINE t == [u EXCEPT ![loop].to = h]
<1>1. t[loop] = Frame(h, u[loop].pay)
  BY <1>0, SMTT(30) DEF Frames, Frame
<1>2. Frame(h, u[loop].pay) \in Frames
  BY <1>0 DEF Frames, Frame
<1>3. t \in [0..(NumTx - 1) -> Frames] /\ \A b \in 0..(NumTx - 1) : b # loop => t[b] = tx[b]
  BY <1>0, <1>1, <1>2
<1>4. /\ tx' = t /\ pend' = Append(pend, [buf |-> loop, want |-> w]) /\ loop' = (loop + 1) % NumTx
      /\ risk' = (risk \/ Overrun(loop) \/ more)
  BY DEF nic_send_buffer
<1> HIDE DEF t
<1>5. /\ tx' \in [0..(NumTx - 1) -> Frames] /\ pend' \in Seq(Handed) /\ loop' \in 0..(NumTx - 1)
      /\ risk' \in BOOLEAN
      /\ ~risk' => ~risk /\ ~more /\ (t[loop] = w /\ FramesKept(tx, pend) => FramesKept(tx', pend'))
  BY <1>3, <1>4, HandOver, ZenonT(40)
<1> QED
  BY <1>1, <1>5

\* The frames and destinations that are built have their types.
LEMMA Built ==
  /\ \A ip \in Dests \cup {Self} : Hop(ip) \in NetTos
  /\ \A h \in NetTos : Request(h) \in Frames
  /\ \A h \in NetTos, n \in Nat \cup NetTos : Frame(h, n) \in Frames
  /\ NetHosts \subseteq NetTos /\ Self \in NetTos /\ NoHost \in NetTos
  BY Zenon DEF Hop, NetTos, Request, Frames, Frame

-----------------------------------------------------------------------------
\* udp_write.
LEMMA UdpStep ==
  ASSUME NetInv, NEW p \in Senders, NEW ip \in Dests, send_ipv4_packet(p, ip)
  PROVE  NetInv'
<1>0. NetTypeOK /\ ip \in Dests \cup {Self}
  BY DEF NetInv
<1>1. sends' \in Nat /\ ipbuf' = sends' /\ ipbuf' \in Nat /\ sends' \in Nat \cup NetTos
  BY <1>0 DEF send_ipv4_packet, NetTypeOK
<1>2. UNCHANGED <<arp, answers, known, evicted, hung>>
  BY DEF send_ipv4_packet
<1>3. (~evicted => ~hung /\ Entered)'
  BY <1>2 DEF NetInv, Entered, Cached
<1>4. snd \in [Senders -> Sending]
  BY <1>0 DEF NetTypeOK
<1> DEFINE h == Hop(ip)
<1>5. h \in NetTos /\ Request(h) \in Frames /\ Frame(h, sends') \in Frames
  BY <1>0, <1>1, Built
<1>6. ASSUME ~Overlap(p), NEW x, NEW z, x.at # "tcp", x.at = "udp" => x.pay = z,
             PacketsKept(snd, ipbuf)
      PROVE  PacketsKept([snd EXCEPT ![p] = x], z)
  BY <1>4, <1>6 DEF Overlap, PacketsKept
<1>a. CASE ip = Self
  <2>1. LoopBack(tx, Frame(Self, sends'), TRUE) /\ UNCHANGED snd
    BY <1>a, Zenon DEF send_ipv4_packet
  <2>2. /\ tx' = tx /\ risk' = TRUE /\ wrong' \in BOOLEAN /\ UNCHANGED <<loop, pend, snd>>
    BY <2>1, ZenonT(40) DEF LoopBack
  <2>3. NetTypeOK'
    BY <1>0, <1>1, <1>2, <2>2 DEF NetTypeOK
  <2> QED  BY <1>3, <2>2, <2>3 DEF NetInv
<1>b. CASE ip # Self /\ Cached(h)
  <2>1. /\ rtl8139_send_data(Frame(h, sends'), Frame(h, sends'), Overlap(p)) /\ UNCHANGED <<snd, wrong>>
    BY <1>b DEF send_ipv4_packet
  <2>2. Overlap(p) \in BOOLEAN
    BY DEF Overlap
  <2>3. /\ tx' \in [0..(NumTx - 1) -> Frames] /\ pend' \in Seq(Handed) /\ loop' \in 0..(NumTx - 1)
        /\ risk' \in BOOLEAN
        /\ ~risk' => ~risk /\ ~Overlap(p) /\ (FramesKept(tx, pend) => FramesKept(tx', pend'))
    BY <1>0, <1>5, <2>1, <2>2, SendData, SMTT(30)
  <2>4. NetTypeOK'
    BY <1>0, <1>1, <1>2, <2>1, <2>3, SMTT(30) DEF NetTypeOK
  <2>5. snd[p].at = "idle"
    BY DEF send_ipv4_packet
  <2>6. ASSUME ~risk' PROVE PacketsKept(snd', ipbuf')
    BY <1>4, <2>1, <2>3, <2>5, <2>6 DEF Overlap, PacketsKept, NetInv
  <2> QED  BY <1>3, <2>1, <2>3, <2>4, <2>6, SMTT(30) DEF NetInv
<1>c. CASE ip # Self /\ ~Cached(h)
  <2> DEFINE x == [at |-> "udp", ip |-> ip, pay |-> sends']
  <2>1. /\ rtl8139_send_data(Request(h), Request(h), Overlap(p)) /\ snd' = [snd EXCEPT ![p] = x]
        /\ UNCHANGED wrong
    BY <1>c DEF send_ipv4_packet, send_arp_request
  <2>2. Overlap(p) \in BOOLEAN
    BY DEF Overlap
  <2>3. /\ tx' \in [0..(NumTx - 1) -> Frames] /\ pend' \in Seq(Handed) /\ loop' \in 0..(NumTx - 1)
        /\ risk' \in BOOLEAN
        /\ ~risk' => ~risk /\ ~Overlap(p) /\ (FramesKept(tx, pend) => FramesKept(tx', pend'))
    BY <1>0, <1>5, <2>1, <2>2, SendData
  <2>4. x \in Sending /\ x.at = "udp" /\ x.pay = ipbuf'
    BY <1>0, <1>1 DEF Sending
  <2> HIDE DEF x
  <2>5. snd' \in [Senders -> Sending]
    BY <1>4, <2>1, <2>4
  <2>6. NetTypeOK'
    BY <1>0, <1>1, <1>2, <2>1, <2>3, <2>5 DEF NetTypeOK
  <2>7. ASSUME ~risk' PROVE PacketsKept(snd', ipbuf')
    BY <1>6, <2>1, <2>3, <2>4, <2>7, Zenon DEF NetInv
  <2> QED  BY <1>3, <2>1, <2>3, <2>6, <2>7 DEF NetInv
<1> QED
  BY <1>a, <1>b, <1>c

\* send_tcp_packet.
LEMMA TcpSendStep ==
  ASSUME NetInv, NEW p \in Senders, NEW ip \in Dests, send_ipv4_packet2(p, ip)
  PROVE  NetInv'
<1>0. NetTypeOK /\ ip \in Dests \cup {Self}
  BY DEF NetInv
<1>1. sends' \in Nat /\ sends' \in Nat \cup NetTos
  BY <1>0 DEF send_ipv4_packet2, NetTypeOK
<1>2. UNCHANGED <<arp, ipbuf, answers, known, evicted, hung>>
  BY DEF send_ipv4_packet2
<1>3. (~evicted => ~hung /\ Entered)'
  BY <1>2 DEF NetInv, Entered, Cached
<1>4. /\ snd \in [Senders -> Sending] /\ loop \in 0..(NumTx - 1) /\ pend \in Seq(Handed)
      /\ tx \in [0..(NumTx - 1) -> Frames] /\ risk \in BOOLEAN
  BY <1>0 DEF NetTypeOK
<1> DEFINE h == Hop(ip)
           u == [tx EXCEPT ![loop] = Frame(NoHost, sends')]
<1>5. /\ h \in NetTos /\ Request(h) \in Frames /\ Frame(h, sends') \in Frames
      /\ Frame(NoHost, sends') \in Frames /\ Frame(Self, sends') \in Frames
  BY <1>0, <1>1, Built
<1>6. /\ u \in [0..(NumTx - 1) -> Frames] /\ u[loop] = Frame(NoHost, sends')
      /\ \A b \in 0..(NumTx - 1) : b # loop => u[b] = tx[b]
  BY <1>4, <1>5
<1>7. u[loop].pay = sends'
  BY <1>6 DEF Frame
<1>a. CASE ip = Self
  <2> DEFINE t == [u EXCEPT ![loop].to = Self]
  <2>1. LoopBack(t, Frame(Self, sends'), FALSE) /\ UNCHANGED snd
    BY <1>a, ZenonT(40) DEF send_ipv4_packet2
  <2>2. t[loop] = Frame(Self, sends')
    BY <1>4, <1>6 DEF Frame
  <2>3. t \in [0..(NumTx - 1) -> Frames] /\ \A b \in 0..(NumTx - 1) : b # loop => t[b] = tx[b]
    BY <1>4, <1>5, <1>6, <2>2
  <2> HIDE DEF t
  <2>4. /\ tx' = t /\ risk' = (risk \/ Overrun(loop)) /\ wrong' = (wrong \/ t[loop] # Frame(Self, sends'))
        /\ UNCHANGED <<loop, pend, snd>>
    BY <2>1 DEF LoopBack
  <2>5. wrong' = wrong
    BY <1>0, <2>2, <2>4 DEF NetTypeOK
  <2>6. risk' \in BOOLEAN
    BY <2>4
  <2>7. NetTypeOK'
    BY <1>0, <1>1, <1>2, <2>3, <2>4, <2>5, <2>6 DEF NetTypeOK
  <2>z. ~risk' => ~risk /\ ~Overrun(loop)
    BY <2>4, Zenon
  <2>8. ASSUME ~risk', FramesKept(tx, pend) PROVE FramesKept(tx', pend')
    <3> SUFFICES ASSUME NEW i \in 1..Len(pend) PROVE t[pend[i].buf] = pend[i].want
      BY <2>4, Zenon DEF FramesKept
    <3>1. pend[i] \in Handed
      BY <1>4
    <3>2. pend[i].buf # loop
      BY <2>8, <2>z DEF Overrun
    <3>3. tx[pend[i].buf] = pend[i].want
      BY <2>8 DEF FramesKept
    <3> QED  BY <2>3, <3>1, <3>2, <3>3 DEF Handed
  <2> QED  BY <1>2, <1>3, <2>4, <2>5, <2>7, <2>8, <2>z DEF NetInv
<1>b. CASE ip # Self /\ Cached(h)
  <2>1. nic_send_buffer(h, u, Frame(h, sends'), FALSE) /\ UNCHANGED <<snd, wrong>>
    BY <1>b, Zenon DEF send_ipv4_packet2
  <2> HIDE DEF u
  <2>2. /\ tx' \in [0..(NumTx - 1) -> Frames] /\ pend' \in Seq(Handed) /\ loop' \in 0..(NumTx - 1)
        /\ risk' \in BOOLEAN
        /\ ~risk' => ~risk /\ (FramesKept(tx, pend) => FramesKept(tx', pend'))
    BY <1>0, <1>5, <1>6, <1>7, <2>1, SendBuffer, Zenon
  <2>3. NetTypeOK'
    BY <1>0, <1>1, <1>2, <2>1, <2>2 DEF NetTypeOK
  <2> QED  BY <1>2, <1>3, <2>1, <2>2, <2>3 DEF NetInv
<1>c. CASE ip # Self /\ ~Cached(h)
  <2> DEFINE x == [at |-> "tcp", ip |-> ip, pay |-> sends']
  <2>1. /\ rtl8139_send_data(Request(h), Request(h), TRUE) /\ snd' = [snd EXCEPT ![p] = x]
        /\ UNCHANGED wrong
    BY <1>c, Zenon DEF send_ipv4_packet2, send_arp_request
  <2>2. /\ tx' \in [0..(NumTx - 1) -> Frames] /\ pend' \in Seq(Handed) /\ loop' \in 0..(NumTx - 1)
        /\ risk'
    BY <1>0, <1>5, <2>1, SendData, ZenonT(40)
  <2>3. x \in Sending
    BY <1>0, <1>1 DEF Sending
  <2> HIDE DEF x
  <2>4. snd' \in [Senders -> Sending] /\ risk' \in BOOLEAN
    <3>1. risk' \in BOOLEAN
      BY <1>0, <1>5, <2>1, SendData, ZenonT(40)
    <3> QED  BY <1>4, <2>1, <2>3, <3>1
  <2>5. NetTypeOK'
    BY <1>0, <1>1, <1>2, <2>1, <2>2, <2>4 DEF NetTypeOK
  <2> QED  BY <1>3, <2>2, <2>5 DEF NetInv
<1> QED
  BY <1>a, <1>b, <1>c

\* A sender looks at the table again.
LEMMA MacStep ==
  ASSUME NetInv, NEW p \in Senders, get_mac_from_ip(p)
  PROVE  NetInv'
<1>0. NetTypeOK
  BY DEF NetInv
<1>1. /\ snd \in [Senders -> Sending] /\ snd[p] \in Sending /\ ipbuf \in Nat
      /\ tx \in [0..(NumTx - 1) -> Frames] /\ loop \in 0..(NumTx - 1)
  BY <1>0 DEF NetTypeOK
<1>2. UNCHANGED <<arp, ipbuf, answers, known, sends, wrong, evicted, hung>>
  BY Zenon DEF get_mac_from_ip
<1>3. (~evicted => ~hung /\ Entered)'
  BY <1>2 DEF NetInv, Entered, Cached
<1> DEFINE h == Hop(snd[p].ip)
           n == snd[p].pay
<1>4. n \in Nat /\ n \in Nat \cup NetTos /\ ipbuf \in Nat \cup NetTos /\ snd[p].ip \in Dests \cup {Self}
  BY <1>1 DEF Sending
<1>5. /\ h \in NetTos /\ Request(h) \in Frames /\ Frame(h, n) \in Frames /\ Frame(h, ipbuf) \in Frames
  BY <1>4, Built
<1>6. NetIdle \in Sending /\ NetIdle.at = "idle"
  BY DEF NetIdle, Sending
<1>a. CASE Cached(h) /\ snd[p].at = "udp"
  <2>1. /\ rtl8139_send_data(Frame(h, ipbuf), Frame(h, n), FALSE)
        /\ snd' = [snd EXCEPT ![p] = NetIdle]
    BY <1>a, ZenonT(40) DEF get_mac_from_ip
  <2>2. /\ tx' \in [0..(NumTx - 1) -> Frames] /\ pend' \in Seq(Handed) /\ loop' \in 0..(NumTx - 1)
        /\ risk' \in BOOLEAN
        /\ ~risk' => ~risk /\ (Frame(h, ipbuf) = Frame(h, n) /\ FramesKept(tx, pend) => FramesKept(tx', pend'))
    BY <1>0, <1>5, <2>1, SendData, Zenon
  <2>3. snd' \in [Senders -> Sending]
    BY <1>1, <1>6, <2>1, SMTT(30)
  <2>4. NetTypeOK'
    BY <1>0, <1>2, <2>2, <2>3, SMTT(30) DEF NetTypeOK
  <2>5. PacketsKept(snd, ipbuf) => ipbuf = n /\ PacketsKept(snd', ipbuf')
    BY <1>1, <1>2, <1>6, <1>a, <2>1 DEF PacketsKept
  <2> QED  BY <1>2, <1>3, <2>2, <2>4, <2>5 DEF NetInv
<1>b. CASE Cached(h) /\ snd[p].at = "tcp"
  <2>1. /\ nic_send_buffer(h, tx, Frame(h, n), FALSE) /\ snd' = [snd EXCEPT ![p] = NetIdle]
    BY <1>b, Zenon DEF get_mac_from_ip
  <2>2. risk
    BY <1>b DEF NetInv, PacketsKept
  <2>3. /\ tx' \in [0..(NumTx - 1) -> Frames] /\ pend' \in Seq(Handed) /\ loop' \in 0..(NumTx - 1)
        /\ risk' \in BOOLEAN /\ (~risk' => ~risk)
    BY <1>0, <1>1, <1>5, <2>1, SendBuffer, ZenonT(40)
  <2>4. snd' \in [Senders -> Sending]
    BY <1>1, <1>6, <2>1
  <2>5. NetTypeOK'
    BY <1>0, <1>2, <2>3, <2>4, SMTT(30) DEF NetTypeOK
  <2> QED  BY <1>3, <2>2, <2>3, <2>5 DEF NetInv
<1>c. CASE ~Cached(h)
  <2>1. rtl8139_send_data(Request(h), Request(h), FALSE) /\ snd' = snd
    BY <1>c, Zenon DEF get_mac_from_ip, send_arp_request
  <2>2. /\ tx' \in [0..(NumTx - 1) -> Frames] /\ pend' \in Seq(Handed) /\ loop' \in 0..(NumTx - 1)
        /\ risk' \in BOOLEAN
        /\ ~risk' => ~risk /\ (FramesKept(tx, pend) => FramesKept(tx', pend'))
    BY <1>0, <1>5, <2>1, SendData, ZenonT(40)
  <2>3. NetTypeOK'
    BY <1>0, <1>2, <2>1, <2>2, SMTT(30) DEF NetTypeOK
  <2> QED  BY <1>2, <1>3, <2>1, <2>2, <2>3 DEF NetInv
<1> QED
  <2>1. snd[p].at \in {"udp", "tcp"}
    BY <1>1 DEF get_mac_from_ip, Sending
  <2> QED  BY <1>a, <1>b, <1>c, <2>1, Zenon

\* The card fetches a frame.
LEMMA CardStep ==
  ASSUME NetInv, NEW lost_it \in BOOLEAN, card_transmits(lost_it)
  PROVE  NetInv'
<1>0. NetTypeOK /\ pend \in Seq(Handed) /\ pend # <<>>
  BY SMTT(30) DEF NetInv, NetTypeOK, card_transmits
<1>1. /\ UNCHANGED <<arp, ipbuf, tx, loop, snd, known, sends, evicted, hung, risk>> /\ pend' = Tail(pend)
      /\ wrong' = (wrong \/ tx[Head(pend).buf] # Head(pend).want)
  BY DEF card_transmits
<1>2. (~evicted => ~hung /\ Entered)'
  BY <1>1 DEF NetInv, Entered, Cached
<1>3. /\ pend' \in Seq(Handed) /\ Len(pend) \in Nat \ {0} /\ Len(pend') = Len(pend) - 1
      /\ Head(pend) = pend[1] /\ \A i \in 1..Len(pend') : pend'[i] = pend[i + 1]
  BY <1>0, <1>1
<1>4. wrong' \in BOOLEAN
  BY <1>1
<1>5. NetTypeOK'
  BY <1>0, <1>1, <1>3, <1>4 DEF NetTypeOK
<1>6. ASSUME ~risk PROVE ~wrong' /\ FramesKept(tx', pend')
  <2>1. ~wrong /\ FramesKept(tx, pend)
    BY <1>6 DEF NetInv
  <2>2. tx[pend[1].buf] = pend[1].want
    BY <1>3, <2>1 DEF FramesKept
  <2>3. \A i \in 1..Len(pend') : i + 1 \in 1..Len(pend)
    BY <1>3
  <2>4. FramesKept(tx', pend')
    BY <1>1, <1>3, <2>1, <2>3, Zenon DEF FramesKept
  <2> QED  BY <1>1, <1>3, <2>1, <2>2, <2>4, Zenon
<1> QED
  BY <1>1, <1>2, <1>5, <1>6, SMTT(30) DEF NetInv

\* handle_arp.
LEMMA ArpStep ==
  ASSUME NetInv, NEW h \in NetHosts, arp_response(h) \/ arp_request(h)
  PROVE  NetInv'
<1>0. NetTypeOK /\ known \subseteq NetHosts /\ Learn(h) /\ UNCHANGED <<ipbuf, snd, sends, wrong, hung>>
  BY Zenon DEF NetInv, NetTypeOK, arp_response, arp_request
<1>1. /\ arp' \in [1..ArpSize -> NetHosts \cup {NoHost}] /\ evicted' \in BOOLEAN
      /\ ~evicted' => ~evicted /\ Cached(h)' /\ \A g \in NetHosts : Cached(g) => Cached(g)'
  BY <1>0, LearnStep
<1>2. known' \subseteq known \cup {h}
  BY ZenonT(40) DEF arp_response, arp_request
<1>3. ASSUME ~evicted' PROVE ~hung' /\ Entered'
  <2>1. ~hung /\ \A g \in known : Cached(g)
    BY <1>1, <1>3 DEF NetInv, Entered
  <2>2. \A g \in known' : Cached(g)'
    BY <1>0, <1>1, <1>2, <1>3, <2>1, SMTT(30)
  <2> QED  BY <1>0, <2>1, <2>2 DEF Entered
<1>4. /\ tx' \in [0..(NumTx - 1) -> Frames] /\ pend' \in Seq(Handed) /\ loop' \in 0..(NumTx - 1)
      /\ risk' \in BOOLEAN
      /\ ~risk' => ~risk /\ (FramesKept(tx, pend) => FramesKept(tx', pend'))
  <2>1. CASE arp_response(h)
    BY <1>0, <2>1 DEF arp_response, NetTypeOK
  <2>2. CASE arp_request(h)
    <3>1. Frame(h, Self) \in Frames
      BY Built, Zenon
    <3>2. rtl8139_send_data(Frame(h, Self), Frame(h, Self), FALSE)
      BY <2>2, ZenonT(40) DEF arp_request
    <3> QED  BY <1>0, <3>1, <3>2, SendData, Zenon
  <2> QED  BY <2>1, <2>2, SMTT(30)
<1>5. NetTypeOK'
  BY <1>0, <1>1, <1>2, <1>4 DEF NetTypeOK
<1> QED
  BY <1>0, <1>3, <1>4, <1>5 DEF NetInv

\* handle_tcp answers.
LEMMA ReplyStep ==
  ASSUME NetInv, NEW ip \in Dests, tcp_reply(ip)
  PROVE  NetInv'
<1>0. NetTypeOK /\ ip \in Dests \cup {Self}
  BY DEF NetInv
<1>1. /\ sends' \in Nat /\ sends' \in Nat \cup NetTos
      /\ UNCHANGED <<arp, ipbuf, snd, answers, known, wrong, evicted>>
  BY <1>0 DEF tcp_reply, NetTypeOK
<1>4. loop \in 0..(NumTx - 1) /\ tx \in [0..(NumTx - 1) -> Frames]
  BY <1>0 DEF NetTypeOK
<1> DEFINE h == Hop(ip)
           u == [tx EXCEPT ![loop] = Frame(NoHost, sends')]
<1>5. h \in NetTos /\ Request(h) \in Frames /\ Frame(h, sends') \in Frames /\ Frame(NoHost, sends') \in Frames
  BY <1>0, <1>1, Built, SMTT(30)
<1>6. /\ u \in [0..(NumTx - 1) -> Frames] /\ u[loop].pay = sends'
      /\ \A b \in 0..(NumTx - 1) : b # loop => u[b] = tx[b]
  BY <1>4, <1>5 DEF Frame
<1>a. CASE Cached(h)
  <2>1. nic_send_buffer(h, u, Frame(h, sends'), FALSE) /\ UNCHANGED hung
    BY <1>a, Zenon DEF tcp_reply
  <2> HIDE DEF u
  <2>2. /\ tx' \in [0..(NumTx - 1) -> Frames] /\ pend' \in Seq(Handed) /\ loop' \in 0..(NumTx - 1)
        /\ risk' \in BOOLEAN
        /\ ~risk' => ~risk /\ (FramesKept(tx, pend) => FramesKept(tx', pend'))
    BY <1>0, <1>5, <1>6, <2>1, SendBuffer, ZenonT(40)
  <2>3. NetTypeOK'
    BY <1>0, <1>1, <2>1, <2>2 DEF NetTypeOK
  <2>4. (~evicted => ~hung /\ Entered)'
    BY <1>1, <2>1 DEF NetInv, Entered, Cached
  <2> QED  BY <1>1, <2>2, <2>3, <2>4 DEF NetInv
<1>b. CASE ~Cached(h)
  <2>1. rtl8139_send_data(Request(h), Request(h), TRUE) /\ hung' = TRUE /\ h \in known
    BY <1>b, Zenon DEF tcp_reply, send_arp_request
  <2>2. evicted
    BY <1>b, <2>1 DEF NetInv, Entered
  <2>3. /\ tx' \in [0..(NumTx - 1) -> Frames] /\ pend' \in Seq(Handed) /\ loop' \in 0..(NumTx - 1) /\ risk'
    BY <1>0, <1>5, <2>1, SendData, Zenon
  <2>4. risk' \in BOOLEAN
    BY <1>0, <1>5, <2>1, SendData, Zenon
  <2>5. NetTypeOK'
    BY <1>0, <1>1, <2>1, <2>3, <2>4 DEF NetTypeOK
  <2> QED  BY <1>1, <2>2, <2>3, <2>5 DEF NetInv
<1> QED
  BY <1>a, <1>b

LEMMA NetInitInv == NetInit => NetInv
<1> SUFFICES ASSUME NetInit PROVE NetInv
  OBVIOUS
<1>0. NumTx \in Nat \ {0} /\ ArpSize \in Nat \ {0}
  BY NetAssumption, SMTT(30)
<1>1. NoFrame \in Frames /\ NetIdle \in Sending /\ NetIdle.at = "idle"
  BY DEF NoFrame, Frame, Frames, NetTos, NetIdle, Sending
<1>2. pend = <<>> /\ pend \in Seq(Handed) /\ Len(pend) = 0
  BY DEF NetInit
<1>3. NetTypeOK
  BY <1>0, <1>1, <1>2, SMTT(30) DEF NetInit, NetTypeOK
<1>4. FramesKept(tx, pend)
  BY <1>2 DEF FramesKept
<1>5. PacketsKept(snd, ipbuf)
  BY <1>1 DEF NetInit, PacketsKept
<1> QED
  BY <1>3, <1>4, <1>5 DEF NetInit, NetInv, Entered

LEMMA NetStepInv == NetInv /\ [NetNext]_net_vars => NetInv'
<1> SUFFICES ASSUME NetInv, [NetNext]_net_vars PROVE NetInv'
  OBVIOUS
<1>1. CASE UNCHANGED net_vars
  BY <1>1 DEF net_vars, NetInv, NetTypeOK, FramesKept, PacketsKept, Entered, Cached
<1> QED
  BY <1>1, UdpStep, TcpSendStep, MacStep, CardStep, ArpStep, ReplyStep, SMTT(30) DEF NetNext

\* For any number of senders, transmit buffers and table entries: what leaves the card,
\* or is looped back, is what was built, except in the situations the code leaves open;
\* and handle_tcp never waits in the receive interrupt while the table has lost nobody.
THEOREM NetSendsIntact == NetSpec => []SendsIntact
<1>1. NetInv => SendsIntact
  BY DEF NetInv, NetTypeOK, SendsIntact, FramesIntact, HandlerNeverWaits
<1> QED
  BY <1>1, NetInitInv, NetStepInv, PTL DEF NetSpec
=============================================================================
