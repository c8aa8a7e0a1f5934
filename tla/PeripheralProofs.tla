-------------------------- MODULE PeripheralProofs --------------------------
(***************************************************************************)
(* What is proved of the sound, keyboard and mouse drivers.                *)
(*  - The sound controller plays the bytes written in order, each once,    *)
(*    for every number and size of buffers.                                *)
(*  - Programs read whole keyboard events in the order of the keys, and    *)
(*    the mouse as it is once it rests, for every capacity of the two      *)
(*    rings and every size of an event.                                    *)
(***************************************************************************)
EXTENDS Audio, Input, TLAPS

\* The entry after another one, and the k-th from the controller's on, without the
\* remainder.
After(x) == IF x + 1 = AuBuffers THEN 0 ELSE x + 1
Spot(civ, k) == IF civ + k < AuBuffers THEN civ + k ELSE civ + k - AuBuffers
Waiting(device, entry) == IF device.run # "play" THEN 0
                          ELSE IF entry > device.civ THEN entry - device.civ ELSE entry - device.civ + AuBuffers

LEMMA Remainders ==
  ASSUME NEW x \in Nat, x < AuBuffers + AuBuffers
  PROVE  x % AuBuffers = IF x < AuBuffers THEN x ELSE x - AuBuffers
<1> DEFINE q == x \div AuBuffers
           y == x % AuBuffers
<1>1. q \in Int /\ y \in Int /\ 0 <= y /\ y < AuBuffers /\ x = AuBuffers * q + y
  BY AudioAssumption
<1> HIDE DEF q, y
<1>2. q < 2
  <2>1. q >= 2 => AuBuffers * q >= AuBuffers * 2
    BY <1>1, AudioAssumption
  <2> QED  BY <1>1, <2>1, AudioAssumption
<1>3. q > -1
  <2>1. q <= -1 => AuBuffers * q <= AuBuffers * (-1)
    BY <1>1, AudioAssumption
  <2> QED  BY <1>1, <2>1, AudioAssumption
<1>4. CASE q = 0
  BY <1>1, <1>4, AudioAssumption DEF y
<1>5. CASE q = 1
  BY <1>1, <1>5, AudioAssumption DEF y
<1> QED
  BY <1>1, <1>2, <1>3, <1>4, <1>5

\* The controller's registers and the index of the driver: the ring is never full, and
\* the driver fills the entry after the last valid one.
AuTypeOK == /\ autmp \in Seq(Int) /\ Len(autmp) <= AuSize /\ auplayed \in Seq(Int) /\ audone \in Int
            /\ aubuf \in [0..(AuBuffers - 1) -> Seq(Int)] /\ auentry \in 0..(AuBuffers - 1)
            /\ audev \in [run : {"off", "play", "halt"}, civ : 0..(AuBuffers - 1), lvi : 0..(AuBuffers - 1)]
RingMeant == /\ audev.run = "off" => audev.civ = 0 /\ auentry = 0
             /\ audev.run = "play" => auentry = After(audev.lvi) /\ auentry # audev.civ
             /\ audev.run = "halt" => auentry = After(audev.civ)
\* AudioExact for a ring of w buffers still to be played.
Places(heard, w, civ, buf, tmp, done) ==
  /\ \A k \in 0..(w - 1) : buf[Spot(civ, k)] = Stretch(heard + k * AuSize, AuSize)
  /\ tmp = Stretch(heard + w * AuSize, Len(tmp))
  /\ done = heard + w * AuSize + Len(tmp)
AuInv == /\ AuTypeOK /\ RingMeant /\ auplayed = Stretch(0, Len(auplayed))
         /\ Places(Len(auplayed), Waiting(audev, auentry), audev.civ, aubuf, autmp, audone)
         /\ \E v \in 0..100 : auvol = ac97_set_volume(v)

LEMMA Steps ==
  ASSUME NEW x \in 0..(AuBuffers - 1)
  PROVE  (x + 1) % AuBuffers = After(x) /\ After(x) \in 0..(AuBuffers - 1) /\ After(x) # x
<1>1. (x + 1) % AuBuffers = IF x + 1 < AuBuffers THEN x + 1 ELSE (x + 1) - AuBuffers
  BY Remainders, AudioAssumption
<1> QED
  BY <1>1, AudioAssumption DEF After

\* The number of buffers waiting is the one that AudioExact computes from the registers.
LEMMA Waits ==
  ASSUME AuTypeOK, RingMeant
  PROVE  /\ Queued = Waiting(audev, auentry) /\ Queued \in Nat /\ Queued < AuBuffers
         /\ \A k \in 0..(Queued - 1) : (audev.civ + k) % AuBuffers = Spot(audev.civ, k)
<1> DEFINE c == audev.civ
           l == audev.lvi
           n == l - c + AuBuffers
<1>1. c \in 0..(AuBuffers - 1) /\ l \in 0..(AuBuffers - 1) /\ auentry \in 0..(AuBuffers - 1)
  BY DEF AuTypeOK
<1>2. CASE audev.run # "play"
  BY <1>2, AudioAssumption DEF Queued, Waiting
<1>3. CASE audev.run = "play"
  <2>1. auentry = After(l) /\ auentry # c /\ Queued = (n % AuBuffers) + 1
    BY <1>3 DEF RingMeant, Queued
  <2>2. Waiting(audev, auentry) = IF auentry > c THEN auentry - c ELSE auentry - c + AuBuffers
    BY <1>3 DEF Waiting
  <2> HIDE DEF c, l
  <2>3. n \in Nat /\ n < AuBuffers + AuBuffers
    BY <1>1, AudioAssumption
  <2>4. n % AuBuffers = IF n < AuBuffers THEN n ELSE n - AuBuffers
    <3> HIDE DEF n
    <3> QED  BY <2>3, Remainders, Zenon
  <2>5. Queued = (IF n < AuBuffers THEN n ELSE n - AuBuffers) + 1
    BY <2>1, <2>4
  <2>6. Queued = Waiting(audev, auentry) /\ Queued \in Nat /\ Queued < AuBuffers
    BY <1>1, <2>1, <2>2, <2>5, AudioAssumption DEF After
  <2>7. ASSUME NEW k \in 0..(Queued - 1) PROVE (c + k) % AuBuffers = Spot(c, k)
    <3> DEFINE x == c + k
    <3>1. x \in Nat /\ x < AuBuffers + AuBuffers
      BY <1>1, <2>6, AudioAssumption
    <3>2. Spot(c, k) = IF x < AuBuffers THEN x ELSE x - AuBuffers
      BY <1>1, AudioAssumption DEF Spot
    <3> HIDE DEF x
    <3>3. x % AuBuffers = IF x < AuBuffers THEN x ELSE x - AuBuffers
      BY <3>1, Remainders, Zenon
    <3> QED  BY <3>2, <3>3 DEF x
  <2> QED  BY <2>6, <2>7 DEF c
<1> QED
  BY <1>2, <1>3

LEMMA Stretches ==
  ASSUME NEW a \in Int, NEW m \in Nat, NEW n \in Nat
  PROVE  /\ Stretch(a, m) \in Seq(Int) /\ Len(Stretch(a, m)) = m
         /\ Stretch(a, m) \o Stretch(a + m, n) = Stretch(a, m + n)
<1>1. ASSUME NEW b \in Int, NEW k \in Nat PROVE Stretch(b, k) \in Seq(Int) /\ Len(Stretch(b, k)) = k
  BY DEF Stretch
<1>2. Stretch(a, m) \in Seq(Int) /\ Len(Stretch(a, m)) = m
  BY <1>1
<1>3. Stretch(a + m, n) \in Seq(Int) /\ Len(Stretch(a + m, n)) = n
  BY <1>1
<1>4. Stretch(a, m + n) \in Seq(Int) /\ Len(Stretch(a, m + n)) = m + n
  BY <1>1
<1> DEFINE s == Stretch(a, m) \o Stretch(a + m, n)
<1>5. s \in Seq(Int) /\ Len(s) = m + n
  BY <1>2, <1>3, SMTT(30)
<1>6. ASSUME NEW i \in 1..m PROVE s[i] = Stretch(a, m)[i]
  <2> HIDE DEF Stretch
  <2> QED  BY <1>2, <1>3
<1>7. ASSUME NEW i \in (m + 1)..(m + n) PROVE s[i] = Stretch(a + m, n)[i - m]
  BY <1>2, <1>3, SMTT(30)
<1> HIDE DEF s
<1>8. ASSUME NEW i \in 1..(m + n) PROVE s[i] = Stretch(a, m + n)[i]
  <2>1. Stretch(a, m + n)[i] = a + i
    BY DEF Stretch
  <2>2. CASE i <= m
    <3>1. i \in 1..m
      BY <2>2
    <3>2. Stretch(a, m)[i] = a + i
      BY <3>1 DEF Stretch
    <3> QED  BY <1>6, <2>1, <3>1, <3>2, Zenon
  <2>3. CASE i > m
    <3> DEFINE k == i - m
    <3>1. i \in (m + 1)..(m + n) /\ k \in 1..n /\ (a + m) + k = a + i
      BY <2>3
    <3> HIDE DEF k
    <3>2. Stretch(a + m, n)[k] = (a + m) + k
      BY <3>1 DEF Stretch
    <3>3. s[i] = Stretch(a + m, n)[k]
      BY <1>7, <3>1, Zenon DEF k
    <3> QED  BY <2>1, <3>1, <3>2, <3>3, Zenon
  <2>4. i <= m \/ i > m
    OBVIOUS
  <2> QED  BY <2>2, <2>3, <2>4, Zenon
<1>9. s = Stretch(a, m + n)
  BY <1>4, <1>5, <1>8
<1> QED
  BY <1>2, <1>9 DEF s

\* AudioExact is what the invariant says of the places of the bytes.
LEMMA ExactPlaces ==
  ASSUME AuInv
  PROVE  AudioExact
<1>1. AuTypeOK /\ RingMeant
  BY DEF AuInv
<1> DEFINE h == Len(auplayed)
<1>2. /\ Queued = Waiting(audev, auentry)
      /\ \A k \in 0..(Queued - 1) : (audev.civ + k) % AuBuffers = Spot(audev.civ, k)
  BY <1>1, Waits
<1>3. Places(h, Queued, audev.civ, aubuf, autmp, audone) /\ auplayed = Stretch(0, h)
  BY <1>2 DEF AuInv
<1>4. \A k \in 0..(Queued - 1) : Upcoming(k) = Stretch(h + k * AuSize, AuSize)
  BY <1>2, <1>3, Zenon DEF Upcoming, Places
<1> QED
  BY <1>3, <1>4, Zenon DEF AudioExact, Places

LEMMA Multiples == ASSUME NEW w \in Int, NEW k \in Int PROVE w * k \in Int /\ (w + 1) * k = w * k + k
  OBVIOUS

LEMMA Pair == ASSUME NEW a \in Int, NEW b \in Int PROVE Min({a, b}) = IF a <= b THEN a ELSE b
<1> DEFINE S == {a, b}
           m == IF a <= b THEN a ELSE b
<1>1. m \in S /\ \A y \in S : m <= y
  OBVIOUS
<1>2. ASSUME NEW x \in S, \A y \in S : x <= y PROVE x = m
  BY <1>2
<1> HIDE DEF m, S
<1>3. Min(S) = m
  BY <1>1, <1>2, Zenon DEF Min
<1> QED
  BY <1>3 DEF m, S

\* A buffer goes into the ring: it is the entry after those that wait, and the ring does
\* not get full.
LEMMA Placed ==
  ASSUME AuTypeOK, RingMeant, buffer_left > 0, NEW data \in Seq(Int), write_buffer(data)
  PROVE  /\ audev' \in [run : {"off", "play", "halt"}, civ : 0..(AuBuffers - 1), lvi : 0..(AuBuffers - 1)]
         /\ auentry' \in 0..(AuBuffers - 1) /\ RingMeant'
         /\ Waiting(audev, auentry) \in Nat
         /\ Waiting(audev', auentry') = Waiting(audev, auentry) + 1
         /\ Spot(audev'.civ, Waiting(audev, auentry)) = auentry
         /\ \A k \in 0..(Waiting(audev, auentry) - 1) :
              /\ Spot(audev'.civ, k) = Spot(audev.civ, k) /\ Spot(audev.civ, k) # auentry
              /\ Spot(audev.civ, k) \in 0..(AuBuffers - 1)
<1> DEFINE c == audev.civ
           l == audev.lvi
           e == auentry
<1>1. /\ c \in 0..(AuBuffers - 1) /\ l \in 0..(AuBuffers - 1) /\ e \in 0..(AuBuffers - 1)
      /\ audev = [run |-> audev.run, civ |-> c, lvi |-> l] /\ audev.run \in {"off", "play", "halt"}
  BY DEF AuTypeOK
<1>2. auentry' = After(e) /\ After(e) \in 0..(AuBuffers - 1) /\ After(e) # e /\ audev' = Restart(e)
  BY <1>1, Steps DEF write_buffer
<1>3. CASE audev.run = "off"
  <2>1. c = 0 /\ e = 0 /\ audev' = [run |-> "play", civ |-> 0, lvi |-> 0]
    BY <1>1, <1>2, <1>3, Zenon DEF RingMeant, Restart
  <2>2. Waiting(audev, auentry) = 0 /\ auentry' = 1
    BY <1>2, <1>3, <2>1, AudioAssumption DEF Waiting, After
  <2>3. Waiting(audev', auentry') = 1 /\ Spot(0, 0) = 0
    BY <2>1, <2>2, AudioAssumption DEF Waiting, Spot
  <2>4. RingMeant'
    BY <2>1, <2>2, AudioAssumption DEF RingMeant, After
  <2> QED  BY <1>2, <2>1, <2>2, <2>3, <2>4, AudioAssumption
<1>4. CASE audev.run = "halt"
  <2>1. e = After(c) /\ audev' = [run |-> "play", civ |-> e, lvi |-> e]
    BY <1>1, <1>2, <1>4, Steps DEF RingMeant, Restart
  <2>2. Waiting(audev, auentry) = 0 /\ Spot(e, 0) = e
    BY <1>1, <1>4, AudioAssumption DEF Waiting, Spot
  <2>3. Waiting(audev', auentry') = 1
    BY <1>1, <1>2, <2>1, AudioAssumption DEF Waiting, After
  <2>4. RingMeant'
    BY <1>2, <2>1 DEF RingMeant
  <2> QED  BY <1>1, <1>2, <2>1, <2>2, <2>3, <2>4
<1>5. CASE audev.run = "play"
  <2>1. e # c /\ e = After(l) /\ audev' = [run |-> "play", civ |-> c, lvi |-> e]
    BY <1>1, <1>2, <1>5 DEF RingMeant, Restart
  <2>2. IF e >= c THEN AuBuffers - e - (IF c = 0 THEN 1 ELSE 0) > 0 ELSE c - e - 1 > 0
    BY DEF buffer_left
  <2> DEFINE w == IF e > c THEN e - c ELSE e - c + AuBuffers
  <2>3. Waiting(audev, auentry) = w
    BY <1>5 DEF Waiting
  <2> HIDE DEF c, l, e
  <2>b. /\ c \in Int /\ 0 <= c /\ c < AuBuffers /\ e \in Int /\ 0 <= e /\ e < AuBuffers /\ e # c
        /\ AuBuffers \in Int /\ AuBuffers > 1
    BY <1>1, <2>1, AudioAssumption
  <2>4. After(e) # c
    BY <2>b, <2>2 DEF After
  <2>5. w \in Nat /\ Spot(c, w) = e
    BY <2>b DEF Spot
  <2>6. (IF After(e) > c THEN After(e) - c ELSE After(e) - c + AuBuffers) = w + 1
    <3>1. CASE e + 1 = AuBuffers
      BY <2>b, <2>4, <3>1 DEF After
    <3>2. CASE e + 1 # AuBuffers
      <4>1. After(e) = e + 1
        BY <3>2 DEF After
      <4> QED  BY <2>b, <2>4, <3>2, <4>1
    <3> QED  BY <3>1, <3>2
  <2>7. ASSUME NEW k \in 0..(w - 1) PROVE Spot(c, k) # e /\ Spot(c, k) \in 0..(AuBuffers - 1)
    <3>1. k \in Int /\ 0 <= k /\ k < w
      BY <2>5
    <3>2. CASE e > c
      <4>1. w = e - c
        BY <3>2
      <4> HIDE DEF w
      <4> QED  BY <2>b, <3>1, <3>2, <4>1 DEF Spot
    <3>3. CASE ~(e > c)
      <4>1. w = e - c + AuBuffers
        BY <3>3
      <4> HIDE DEF w
      <4> QED  BY <2>b, <3>1, <3>3, <4>1 DEF Spot
    <3> QED  BY <3>2, <3>3
  <2>8. Waiting(audev', auentry') = w + 1
    BY <1>2, <2>1, <2>6 DEF Waiting
  <2>9. RingMeant'
    BY <1>2, <2>1, <2>4 DEF RingMeant
  <2> HIDE DEF w
  <2>10. /\ audev' \in [run : {"off", "play", "halt"}, civ : 0..(AuBuffers - 1), lvi : 0..(AuBuffers - 1)]
         /\ audev'.civ = c
    BY <1>1, <2>1
  <2> QED  BY <1>2, <2>3, <2>5, <2>7, <2>8, <2>9, <2>10 DEF c, e
<1> QED
  BY <1>1, <1>3, <1>4, <1>5

LEMMA EmptyStretch == ASSUME NEW a PROVE Stretch(a, 0) = <<>>
  BY DEF Stretch

LEMMA WaitingNat == ASSUME AuTypeOK, RingMeant PROVE Waiting(audev, auentry) \in Nat
  BY Waits

\* audio_write: the bytes follow those gathered; a full buffer goes into the ring.
LEMMA WriteStep ==
  ASSUME AuInv, NEW len \in 1..(AuTotal - audone), audio_write(len)
  PROVE  AuInv'
<1> DEFINE h == Len(auplayed)
           w == Waiting(audev, auentry)
           L == Len(autmp)
           base == h + w * AuSize
           wl == Min({len, AuSize - L})
           tmp == autmp \o Stretch(audone, wl)
<1>1. AuTypeOK /\ RingMeant /\ w \in Nat /\ auplayed = Stretch(0, h)
  BY WaitingNat DEF AuInv
<1>2. h \in Nat /\ L \in Nat /\ L <= AuSize /\ AuSize \in Nat /\ len \in Nat
  BY <1>1, AudioAssumption, SMTT(30) DEF AuTypeOK
<1>3. wl \in Nat /\ wl <= AuSize - L
  <2>1. len \in Int /\ AuSize - L \in Int
    BY <1>2
  <2>2. wl = IF len <= AuSize - L THEN len ELSE AuSize - L
    BY <2>1, Pair, Zenon
  <2> QED  BY <1>2, <2>2
<1>4. Places(h, w, audev.civ, aubuf, autmp, audone)
  BY DEF AuInv
<1>5. /\ UNCHANGED <<auplayed, auvol>> /\ audone' = audone + wl
      /\ \/ Len(tmp) = AuSize /\ buffer_left > 0 /\ write_buffer(tmp)
         \/ autmp' = tmp /\ UNCHANGED <<aubuf, auentry, audev>>
  BY Zenon DEF audio_write
<1> HIDE DEF wl, w, h, L
<1>6. base \in Int
  BY <1>1, <1>2, Multiples
<1>7. autmp = Stretch(base, L) /\ audone = base + L
  BY <1>4 DEF Places, L
<1> HIDE DEF base
<1>8. tmp = Stretch(base, L + wl) /\ tmp \in Seq(Int) /\ Len(tmp) = L + wl
  <2>1. tmp = Stretch(base, L + wl)
    BY <1>2, <1>3, <1>6, <1>7, Stretches, Zenon
  <2>2. L + wl \in Nat
    BY <1>2, <1>3
  <2> QED  BY <1>6, <2>1, <2>2, Stretches, Zenon
<1> HIDE DEF tmp
<1>9. auplayed' = Stretch(0, Len(auplayed')) /\ (\E v \in 0..100 : auvol = ac97_set_volume(v))'
  BY <1>5, AuInv, Zenon DEF AuInv
<1>10. audone' \in Int
  BY <1>2, <1>3, <1>5, <1>6, <1>7
<1>11. CASE autmp' = tmp /\ UNCHANGED <<aubuf, auentry, audev>>
  <2>a. autmp' \in Seq(Int) /\ Len(autmp') = L + wl /\ autmp' = Stretch(base, Len(autmp'))
    BY <1>8, <1>11
  <2>b. L + wl <= AuSize
    BY <1>2, <1>3
  <2>c. AuTypeOK'
    BY <1>1, <1>5, <1>10, <1>11, <2>a, <2>b DEF AuTypeOK
  <2>d. RingMeant'
    BY <1>1, <1>11 DEF RingMeant
  <2>1. AuTypeOK' /\ RingMeant'
    BY <2>c, <2>d
  <2>e. audone' = base + Len(autmp')
    BY <1>2, <1>3, <1>5, <1>6, <1>7, <2>a
  <2>2. autmp' = Stretch(h + w * AuSize, Len(autmp')) /\ audone' = (h + w * AuSize) + Len(autmp')
    BY <2>a, <2>e DEF base
  <2>3. Places(h, w, audev.civ, aubuf, autmp', audone')
    BY <1>4, <2>2, Zenon DEF Places
  <2>4. Places(h, w, audev.civ, aubuf, autmp, audone)'
    BY <1>5, <1>11, <2>3 DEF h, w
  <2> QED  BY <1>9, <2>1, <2>4, Zenon DEF AuInv, h, w
<1>12. CASE Len(tmp) = AuSize /\ buffer_left > 0 /\ write_buffer(tmp)
  <2>1. /\ audev' \in [run : {"off", "play", "halt"}, civ : 0..(AuBuffers - 1), lvi : 0..(AuBuffers - 1)]
        /\ auentry' \in 0..(AuBuffers - 1) /\ RingMeant'
        /\ Waiting(audev', auentry') = w + 1 /\ Spot(audev'.civ, w) = auentry
        /\ \A k \in 0..(w - 1) :
             /\ Spot(audev'.civ, k) = Spot(audev.civ, k) /\ Spot(audev.civ, k) # auentry
             /\ Spot(audev.civ, k) \in 0..(AuBuffers - 1)
    BY <1>1, <1>8, <1>12, Placed DEF w
  <2>2. aubuf' = [aubuf EXCEPT ![auentry] = tmp] /\ autmp' = <<>>
    BY <1>12 DEF write_buffer
  <2>3. AuTypeOK'
    BY <1>1, <1>2, <1>5, <1>8, <1>10, <2>1, <2>2 DEF AuTypeOK
  <2>4. (w + 1) * AuSize = w * AuSize + AuSize /\ w * AuSize \in Int
    BY <1>1, <1>2, Multiples
  <2>5. tmp = Stretch(h + w * AuSize, AuSize)
    BY <1>8, <1>12 DEF base
  <2>6. ASSUME NEW k \in 0..((w + 1) - 1) PROVE aubuf'[Spot(audev'.civ, k)] = Stretch(h + k * AuSize, AuSize)
    <3>1. CASE k = w
      BY <1>1, <2>1, <2>2, <2>5, <3>1, SMTT(30) DEF AuTypeOK
    <3>2. CASE k # w
      <4>1. k \in 0..(w - 1)
        BY <1>1, <3>2
      <4>2. aubuf'[Spot(audev'.civ, k)] = aubuf[Spot(audev.civ, k)]
        BY <1>1, <2>1, <2>2, <4>1, SMTT(30) DEF AuTypeOK
      <4> QED  BY <1>4, <4>1, <4>2, Zenon DEF Places
    <3> QED  BY <3>1, <3>2
  <2>7. audone' = h + (w + 1) * AuSize + 0
    <3> DEFINE m == w * AuSize
               n == (w + 1) * AuSize
    <3>1. m \in Int /\ n = m + AuSize /\ base = h + m
      BY <2>4 DEF base
    <3> HIDE DEF m, n
    <3>2. audone' = base + AuSize
      BY <1>2, <1>3, <1>5, <1>6, <1>7, <1>8, <1>12
    <3>3. audone' = h + n + 0
      BY <1>2, <3>1, <3>2
    <3> QED  BY <3>3 DEF n
  <2>8. Len(autmp') = 0 /\ autmp' = Stretch(h + (w + 1) * AuSize, Len(autmp'))
    BY <2>2, EmptyStretch
  <2>9. Places(h, w + 1, audev'.civ, aubuf', autmp', audone')
    BY <2>6, <2>7, <2>8, Zenon DEF Places
  <2>10. Places(Len(auplayed), Waiting(audev, auentry), audev.civ, aubuf, autmp, audone)'
    BY <1>5, <2>1, <2>9 DEF h
  <2> QED  BY <1>9, <2>1, <2>3, <2>10, Zenon DEF AuInv
<1> QED
  BY <1>5, <1>11, <1>12

\* The controller plays the buffer that waited longest.
LEMMA PlayStep ==
  ASSUME AuInv, buffer_played
  PROVE  AuInv'
<1> DEFINE h == Len(auplayed)
           w == Waiting(audev, auentry)
           c == audev.civ
           l == audev.lvi
           e == auentry
<1>1. /\ AuTypeOK /\ RingMeant /\ w \in Nat /\ auplayed = Stretch(0, h)
      /\ Places(h, w, c, aubuf, autmp, audone)
  BY WaitingNat DEF AuInv
<1>2. /\ c \in 0..(AuBuffers - 1) /\ l \in 0..(AuBuffers - 1) /\ e \in 0..(AuBuffers - 1) /\ h \in Nat
      /\ audev = [run |-> "play", civ |-> c, lvi |-> l] /\ e = After(l) /\ e # c
      /\ w = IF e > c THEN e - c ELSE e - c + AuBuffers
  BY <1>1 DEF buffer_played, AuTypeOK, RingMeant, Waiting
<1>3. /\ UNCHANGED <<autmp, aubuf, auentry, audone, auvol>> /\ auplayed' = auplayed \o aubuf[c]
      /\ audev' = IF c = l THEN [run |-> "halt", civ |-> c, lvi |-> l]
                  ELSE [run |-> "play", civ |-> After(c), lvi |-> l]
  <2>1. (c + 1) % AuBuffers = After(c)
    BY <1>2, Steps
  <2> QED  BY <1>2, <2>1 DEF buffer_played
<1>4. After(c) \in 0..(AuBuffers - 1)
  BY <1>2, Steps
<1> HIDE DEF h, w, c, l, e
<1>b. /\ c \in Int /\ 0 <= c /\ c < AuBuffers /\ e \in Int /\ 0 <= e /\ e < AuBuffers /\ e # c
      /\ l \in Int /\ 0 <= l /\ l < AuBuffers /\ AuBuffers \in Int /\ AuBuffers > 1
  BY <1>2, AudioAssumption
<1>5. 0 \in 0..(w - 1) /\ Spot(c, 0) = c
  BY <1>2, <1>b DEF Spot
<1>6. aubuf[c] = Stretch(h, AuSize)
  <2>1. h + 0 * AuSize = h
    BY <1>2, AudioAssumption
  <2> QED  BY <1>1, <1>5, <2>1 DEF Places
<1>7. auplayed' = Stretch(0, h + AuSize) /\ Len(auplayed') = h + AuSize /\ auplayed' \in Seq(Int)
  <2>1. 0 + h = h /\ h \in Nat /\ AuSize \in Nat /\ h + AuSize \in Nat /\ 0 \in Int
    BY <1>2, AudioAssumption
  <2>2. Stretch(0, h) \o Stretch(0 + h, AuSize) = Stretch(0, h + AuSize)
    BY <2>1, Stretches, Zenon
  <2>3. auplayed' = Stretch(0, h + AuSize)
    BY <1>1, <1>3, <1>6, <2>1, <2>2
  <2> QED  BY <2>1, <2>3, Stretches
<1>8. /\ AuTypeOK' /\ RingMeant' /\ Waiting(audev', auentry') = w - 1
      /\ \A k \in 0..(w - 2) : Spot(audev'.civ, k) = Spot(c, k + 1)
  <2>1. CASE c = l
    <3>1. audev' = [run |-> "halt", civ |-> c, lvi |-> l]
      BY <1>3, <2>1
    <3>2. w = 1
      BY <1>2, <1>b, <2>1 DEF After
    <3>3. AuTypeOK'
      BY <1>1, <1>2, <1>3, <1>7, <3>1 DEF AuTypeOK
    <3>4. RingMeant'
      BY <1>2, <1>3, <2>1, <3>1 DEF RingMeant, e
    <3> QED  BY <3>1, <3>2, <3>3, <3>4 DEF Waiting
  <2>2. CASE c # l
    <3>1. audev' = [run |-> "play", civ |-> After(c), lvi |-> l]
      BY <1>3, <2>2
    <3>2. e # After(c)
      BY <1>2, <1>b, <2>2 DEF After
    <3>3. (IF e > After(c) THEN e - After(c) ELSE e - After(c) + AuBuffers) = w - 1
      BY <1>2, <1>b, <3>2 DEF After
    <3>4. AuTypeOK'
      BY <1>1, <1>2, <1>3, <1>4, <1>7, <3>1 DEF AuTypeOK
    <3>5. RingMeant'
      BY <1>2, <1>3, <3>1, <3>2 DEF RingMeant, e
    <3>6. Waiting(audev', auentry') = w - 1
      BY <1>3, <3>1, <3>3 DEF Waiting, e
    <3>7. ASSUME NEW k \in 0..(w - 2) PROVE Spot(After(c), k) = Spot(c, k + 1)
      <4>1. k \in Int /\ 0 <= k /\ k < AuBuffers
        BY <1>2, <1>b
      <4> QED  BY <1>b, <4>1 DEF Spot, After
    <3> QED  BY <3>1, <3>4, <3>5, <3>6, <3>7
  <2> QED  BY <2>1, <2>2
<1>9. Places(h + AuSize, w - 1, audev'.civ, aubuf, autmp, audone)
  <2>1. w * AuSize = (w - 1) * AuSize + AuSize /\ (w - 1) * AuSize \in Int
    <3>1. (w - 1) + 1 = w /\ w - 1 \in Int /\ AuSize \in Int
      BY <1>1, AudioAssumption
    <3> QED  BY <3>1, Multiples, SMTT(30)
  <2>2. (h + AuSize) + (w - 1) * AuSize = h + w * AuSize
    BY <1>2, <2>1, AudioAssumption
  <2>3. ASSUME NEW k \in 0..((w - 1) - 1)
        PROVE  aubuf[Spot(audev'.civ, k)] = Stretch((h + AuSize) + k * AuSize, AuSize)
    <3>1. k \in 0..(w - 2) /\ k + 1 \in 0..(w - 1) /\ k \in Int
      BY <1>1
    <3>2. (k + 1) * AuSize = k * AuSize + AuSize /\ k * AuSize \in Int
      BY <3>1, Multiples, AudioAssumption
    <3>3. (h + AuSize) + k * AuSize = h + (k + 1) * AuSize
      <4> DEFINE m == k * AuSize
                 n == (k + 1) * AuSize
      <4>1. m \in Int /\ n = m + AuSize
        BY <3>2
      <4> HIDE DEF m, n
      <4>2. (h + AuSize) + m = h + n
        BY <1>2, <4>1, AudioAssumption
      <4> QED  BY <4>2 DEF m, n
    <3>4. aubuf[Spot(c, k + 1)] = Stretch(h + (k + 1) * AuSize, AuSize)
      BY <1>1, <3>1, Zenon DEF Places
    <3> QED  BY <1>8, <3>1, <3>3, <3>4
  <2>4. /\ autmp = Stretch(h + w * AuSize, Len(autmp)) /\ audone = (h + w * AuSize) + Len(autmp)
    BY <1>1 DEF Places
  <2> QED  BY <2>2, <2>3, <2>4 DEF Places
<1>10. Places(Len(auplayed), Waiting(audev, auentry), audev.civ, aubuf, autmp, audone)'
  BY <1>3, <1>7, <1>8, <1>9, SMTT(30)
<1>11. (\E v \in 0..100 : auvol = ac97_set_volume(v))'
  BY <1>3, Zenon DEF AuInv
<1> QED
  BY <1>7, <1>8, <1>10, <1>11, Zenon DEF AuInv

LEMMA VolumeStep ==
  ASSUME AuInv, NEW v \in AuVolumes, volume_write(v)
  PROVE  AuInv'
<1>1. UNCHANGED <<autmp, aubuf, auentry, audev, audone, auplayed>>
  BY DEF volume_write
<1>2. (IF v > 100 THEN 0 ELSE v) \in 0..100
  BY AudioAssumption
<1>3. (\E x \in 0..100 : auvol = ac97_set_volume(x))'
  BY <1>2 DEF volume_write
<1>4. (AuTypeOK /\ RingMeant /\ auplayed = Stretch(0, Len(auplayed)))'
  BY <1>1 DEF AuInv, AuTypeOK, RingMeant
<1>5. Places(Len(auplayed), Waiting(audev, auentry), audev.civ, aubuf, autmp, audone)'
  BY <1>1 DEF AuInv
<1> QED
  BY <1>3, <1>4, <1>5, Zenon DEF AuInv

LEMMA AuStart == AuInit => AuInv
<1> SUFFICES ASSUME AuInit PROVE AuInv
  OBVIOUS
<1>1. AuTypeOK /\ RingMeant /\ Waiting(audev, auentry) = 0 /\ Len(autmp) = 0 /\ Len(auplayed) = 0
  BY AudioAssumption DEF AuInit, AuTypeOK, RingMeant, Waiting
<1>2. 0 * AuSize = 0
  BY AudioAssumption
<1>3. Places(0, 0, audev.civ, aubuf, autmp, audone)
  BY <1>1, <1>2, EmptyStretch DEF AuInit, Places
<1>4. auplayed = Stretch(0, 0)
  BY EmptyStretch DEF AuInit
<1>5. auvol = ac97_set_volume(5)
  <2>1. (31 * 5) \div 100 = 1
    OBVIOUS
  <2> QED  BY <2>1 DEF AuInit, ac97_set_volume
<1>6. \E v \in 0..100 : auvol = ac97_set_volume(v)
  BY <1>5
<1> QED
  BY <1>1, <1>3, <1>4, <1>6, Zenon DEF AuInv

\* More of a whole is not less of its hundredths.
LEMMA Hundredths == ASSUME NEW x \in Nat, NEW y \in Nat, x <= y PROVE x \div 100 <= y \div 100
<1> DEFINE p == x \div 100
           q == y \div 100
<1>1. p \in Int /\ x % 100 \in Int /\ 0 <= x % 100 /\ x = 100 * p + (x % 100)
  OBVIOUS
<1>2. q \in Int /\ y % 100 \in Int /\ y % 100 < 100 /\ y = 100 * q + (y % 100)
  OBVIOUS
<1> HIDE DEF p, q
<1> QED
  BY <1>1, <1>2 DEF p, q

LEMMA Louder == ASSUME AuInv PROVE VolumeOrder
<1>1. PICK x \in 0..100 : auvol = ac97_set_volume(x)
  BY Zenon DEF AuInv
<1>2. auvol.now = x /\ auvol.atten = IF x = 0 THEN 0 ELSE 31 - (31 * x) \div 100
  BY <1>1 DEF ac97_set_volume
<1>3. ASSUME NEW v \in 1..100, x > 0, v >= x PROVE 31 - (31 * v) \div 100 <= 31 - (31 * x) \div 100
  <2>1. 31 * x \in Nat /\ 31 * v \in Nat /\ 31 * x <= 31 * v
    BY <1>3
  <2>2. (31 * x) \div 100 <= (31 * v) \div 100
    BY <2>1, Hundredths
  <2> QED  BY <2>1, <2>2
<1> QED
  BY <1>2, <1>3 DEF VolumeOrder, ac97_set_volume

\* Everything that is played is what was written, once and in order, for any number and
\* size of buffers and however the controller and the writes interleave; and turning the
\* volume up never makes it quieter (audio_write, write_buffer, ac97_set_volume).
THEOREM AudioCorrect == AuSpec => []AudioSound
<1>1. AuInit => AuInv
  BY AuStart
<1>2. AuInv /\ [AuNext]_au_vars => AuInv'
  <2> SUFFICES ASSUME AuInv, [AuNext]_au_vars PROVE AuInv'
    OBVIOUS
  <2>1. CASE AuWrite
    BY <2>1, WriteStep DEF AuWrite
  <2>2. CASE buffer_played
    BY <2>2, PlayStep
  <2>3. CASE \E v \in AuVolumes : volume_write(v)
    BY <2>3, VolumeStep
  <2>4. CASE UNCHANGED au_vars
    BY <2>4, Zenon DEF au_vars, AuInv, AuTypeOK, RingMeant
  <2> QED  BY <2>1, <2>2, <2>3, <2>4 DEF AuNext
<1>3. AuInv => AudioSound
  BY ExactPlaces, Louder DEF AudioSound
<1> QED
  BY <1>1, <1>2, <1>3, PTL DEF AuSpec
-----------------------------------------------------------------------------

\* Division with the remainder between 0 and n - 1.
LEMMA Quotient ==
  ASSUME NEW x \in Int, NEW n \in Nat \ {0}
  PROVE  /\ x \div n \in Int /\ x % n \in 0..(n - 1) /\ x = n * (x \div n) + (x % n)
  OBVIOUS

LEMMA QuotientIs ==
  ASSUME NEW x \in Int, NEW n \in Nat \ {0}, NEW q \in Int, n * q <= x, x < n * q + n
  PROVE  x \div n = q /\ x % n = x - (n * q)
<1>1. x \div n \in Int /\ x % n \in 0..(n - 1) /\ x = n * (x \div n) + (x % n)
  OBVIOUS
<1> DEFINE k == x \div n
           r == x % n
<1>2. k \in Int /\ r \in 0..(n - 1) /\ x = n * k + r
  BY <1>1
<1> HIDE DEF k, r
<1>3. k = q /\ r = x - (n * q)
  <2>1. k >= q + 1 => n * k >= n * (q + 1)
    BY <1>2
  <2>2. k <= q - 1 => n * k <= n * (q - 1)
    BY <1>2
  <2>3. n * (q + 1) = n * q + n /\ n * (q - 1) = n * q - n
    OBVIOUS
  <2>4. k = q
    BY <1>2, <2>1, <2>2, <2>3
  <2> QED  BY <1>2, <2>4
<1> QED
  BY <1>3 DEF k, r

LEMMA Join ==
  ASSUME NEW T, NEW a \in Seq(T), NEW b \in Seq(T)
  PROVE  a \o b \in Seq(T) /\ Len(a \o b) = Len(a) + Len(b)
  OBVIOUS

LEMMA Associates ==
  ASSUME NEW T, NEW a \in Seq(T), NEW b \in Seq(T), NEW c \in Seq(T)
  PROVE  a \o (b \o c) = (a \o b) \o c
  OBVIOUS

\* What is left of a queue when n cells are taken.
Remains(T, q, n) == LET rest == SubSeq(q, n + 1, Len(q))
                    IN  /\ rest \in Seq(T) /\ Len(rest) = Len(q) - n
                        /\ \A i \in 1..(Len(q) - n) : rest[i] = q[n + i]
LEMMA Rest ==
  ASSUME NEW T, NEW q \in Seq(T), NEW n \in Nat, n <= Len(q)
  PROVE  Remains(T, q, n)
  BY DEF Remains

\* What is taken from the front of a queue and what is left are the queue.
Rejoins(a, q, n) == (a \o SubSeq(q, 1, n)) \o SubSeq(q, n + 1, Len(q)) = a \o q
LEMMA Split ==
  ASSUME NEW T, NEW a \in Seq(T), NEW q \in Seq(T), NEW n \in Nat, n <= Len(q)
  PROVE  /\ SubSeq(q, 1, n) \in Seq(T) /\ SubSeq(q, n + 1, Len(q)) \in Seq(T)
         /\ Len(SubSeq(q, n + 1, Len(q))) = Len(q) - n
         /\ \A i \in 1..(Len(q) - n) : SubSeq(q, n + 1, Len(q))[i] = q[n + i]
         /\ Rejoins(a, q, n)
<1> DEFINE x == SubSeq(q, 1, n)
           y == SubSeq(q, n + 1, Len(q))
           s == (a \o x) \o y
           t == a \o q
<1>1. x \in Seq(T) /\ Len(x) = n /\ \A i \in 1..n : x[i] = q[i]
  OBVIOUS
<1>2. y \in Seq(T) /\ Len(y) = Len(q) - n /\ \A i \in 1..(Len(q) - n) : y[i] = q[n + i]
  OBVIOUS
<1> HIDE DEF x, y
<1>3. s \in Seq(T) /\ Len(s) = Len(a) + Len(q)
  <2> DEFINE ax == a \o x
  <2>1. x \in Seq(T) /\ y \in Seq(T) /\ Len(x) = n /\ Len(y) = Len(q) - n
    BY <1>1, <1>2
  <2>2. ax \in Seq(T) /\ Len(ax) = Len(a) + n
    BY <2>1, Join, Zenon
  <2> HIDE DEF ax
  <2>3. ax \o y \in Seq(T) /\ Len(ax \o y) = Len(ax) + Len(y)
    BY <2>1, <2>2, Join, Zenon
  <2>4. s = ax \o y
    BY DEF ax
  <2>5. (Len(a) + n) + (Len(q) - n) = Len(a) + Len(q)
    OBVIOUS
  <2> HIDE DEF s
  <2>6. s \in Seq(T) /\ Len(s) = (Len(a) + n) + (Len(q) - n)
    BY <2>1, <2>2, <2>3, <2>4, Zenon
  <2> QED  BY <2>5, <2>6, Zenon
<1>4. t \in Seq(T) /\ Len(t) = Len(a) + Len(q)
  OBVIOUS
<1>5. ASSUME NEW i \in 1..(Len(a) + Len(q)) PROVE s[i] = t[i]
  <2>1. CASE i <= Len(a)
    BY <1>1, <1>2, <2>1
  <2>2. CASE i > Len(a) /\ i <= Len(a) + n
    BY <1>1, <1>2, <2>2
  <2>3. CASE i > Len(a) + n
    <3> DEFINE ax == a \o x
               k == i - (Len(a) + n)
    <3>0. x \in Seq(T) /\ Len(x) = n
      BY <1>1
    <3>1. ax \in Seq(T) /\ Len(ax) = Len(a) + n
      BY <3>0, Join, Zenon
    <3>2. k \in 1..(Len(q) - n) /\ n + k = i - Len(a) /\ i \in Int
      BY <2>3
    <3>3. t[i] = q[i - Len(a)]
      BY <2>3
    <3> HIDE DEF ax
    <3>4. (ax \o y)[i] = y[k]
      BY <1>2, <2>3, <3>1, SMTT(30)
    <3>5. s[i] = y[k]
      BY <3>4, Zenon DEF ax
    <3> HIDE DEF k, s, t
    <3>6. y[k] = q[n + k]
      BY <1>2, <3>2, Zenon
    <3> QED  BY <3>2, <3>3, <3>5, <3>6, Zenon
  <2>4. i <= Len(a) \/ (i > Len(a) /\ i <= Len(a) + n) \/ i > Len(a) + n
    OBVIOUS
  <2> QED  BY <2>1, <2>2, <2>3, <2>4, Zenon
<1> HIDE DEF s, t
<1>6. s = t
  BY <1>3, <1>4, <1>5
<1> QED
  BY <1>1, <1>2, <1>6, Zenon DEF s, t, x, y, Rejoins

\* The cells of the events, counted through.
LEMMA CellIndex ==
  ASSUME NEW K \in Nat \ {0}, NEW L \in Nat, NEW n \in 1..(L * K)
  PROVE  ((n - 1) \div K) + 1 \in 1..L /\ ((n - 1) % K) + 1 \in 1..K
<1> DEFINE x == n - 1
           q == x \div K
           r == x % K
<1>0. L * K \in Int
  OBVIOUS
<1>1. x \in Int /\ 0 <= x /\ x < L * K
  BY <1>0
<1> HIDE DEF x
<1>2. q \in Int /\ r \in 0..(K - 1) /\ x = K * q + r
  BY <1>1, Quotient
<1> HIDE DEF q, r
<1>3. q < L
  <2>1. q >= L => K * q >= L * K
    BY <1>2
  <2> QED  BY <1>1, <1>2, <2>1
<1>4. q >= 0
  <2>1. q <= -1 => K * q <= -K
    BY <1>2
  <2> QED  BY <1>1, <1>2, <2>1
<1>5. q + 1 \in 1..L /\ r + 1 \in 1..K
  BY <1>2, <1>3, <1>4
<1> QED
  BY <1>5 DEF q, r, x

KeyEvent_t == [c : {"small", "capital"} \X Keys, release : BOOLEAN, shift : BOOLEAN, alt : BOOLEAN, ctrl : BOOLEAN]
Made_t == [ev : KeyEvent_t, held : SUBSET Keys]
KeyCell_t == KeyEvent_t \X Int
AllCells(events) == [n \in 1..Len(events) * KeyCells |-> KeyCell(events, n)]

LEMMA CellsType ==
  ASSUME NEW e \in KeyEvent_t
  PROVE  Cells(e, KeyCells) \in Seq(KeyCell_t) /\ Len(Cells(e, KeyCells)) = KeyCells
<1> HIDE DEF KeyEvent_t
<1> QED
  BY InputAssumption DEF Cells, KeyCell_t

LEMMA AllCellsType ==
  ASSUME NEW events \in Seq(Made_t)
  PROVE  AllCells(events) \in Seq(KeyCell_t) /\ Len(AllCells(events)) = Len(events) * KeyCells
<1> DEFINE L == Len(events)
<1>1. L \in Nat /\ L * KeyCells \in Nat
  BY InputAssumption
<1>2. ASSUME NEW n \in 1..(L * KeyCells) PROVE KeyCell(events, n) \in KeyCell_t
  <2>1. ((n - 1) \div KeyCells) + 1 \in 1..L /\ ((n - 1) % KeyCells) + 1 \in 1..KeyCells
    BY <1>1, CellIndex, InputAssumption
  <2> DEFINE i == ((n - 1) \div KeyCells) + 1
             j == ((n - 1) % KeyCells) + 1
  <2>2. KeyCell(events, n) = <<events[i].ev, j>>
    BY DEF KeyCell
  <2> HIDE DEF i, j
  <2>3. events[i] \in Made_t /\ j \in Int
    BY <2>1, InputAssumption DEF i, j
  <2>4. events[i].ev \in KeyEvent_t
    BY <2>3 DEF Made_t
  <2> QED  BY <2>2, <2>3, <2>4 DEF KeyCell_t
<1> HIDE DEF L
<1>3. AllCells(events) = [n \in 1..(L * KeyCells) |-> KeyCell(events, n)]
  BY DEF AllCells, L
<1> QED
  BY <1>1, <1>2, <1>3 DEF L

LEMMA CellsAppended ==
  ASSUME NEW events \in Seq(Made_t), NEW x \in Made_t
  PROVE  AllCells(Append(events, x)) = AllCells(events) \o Cells(x.ev, KeyCells)
<1> DEFINE L == Len(events)
           K == KeyCells
           new == Append(events, x)
           a == AllCells(events)
           b == Cells(x.ev, K)
           s == a \o b
<1>0. K \in Nat \ {0} /\ L \in Nat /\ L * K \in Nat /\ (L + 1) * K = L * K + K /\ x.ev \in KeyEvent_t
  BY InputAssumption DEF Made_t
<1>1. new \in Seq(Made_t) /\ Len(new) = L + 1
  BY <1>0
<1>2. a \in Seq(KeyCell_t) /\ Len(a) = L * K /\ b \in Seq(KeyCell_t) /\ Len(b) = K
  BY <1>0, AllCellsType, CellsType
<1>3. AllCells(new) \in Seq(KeyCell_t) /\ Len(AllCells(new)) = L * K + K
  BY <1>0, <1>1, AllCellsType, Zenon
<1>4. /\ \A n \in 1..(L * K) : a[n] = KeyCell(events, n)
      /\ \A j \in 1..K : b[j] = <<x.ev, j>>
  BY DEF AllCells, Cells
<1>5. \A n \in 1..(L * K + K) : AllCells(new)[n] = KeyCell(new, n)
  <2> HIDE DEF new
  <2> QED  BY <1>0, <1>1 DEF AllCells
<1> HIDE DEF a, b, L, K
<1>6. s \in Seq(KeyCell_t) /\ Len(s) = L * K + K
  <2>1. s \in Seq(KeyCell_t) /\ Len(s) = Len(a) + Len(b)
    BY <1>2, Join, Zenon
  <2> QED  BY <1>2, <2>1
<1>7. ASSUME NEW n \in 1..(L * K) PROVE s[n] = KeyCell(new, n)
  <2> DEFINE i == ((n - 1) \div K) + 1
  <2>1. i \in 1..L
    BY <1>0, CellIndex, Zenon
  <2>2. s[n] = KeyCell(events, n)
    BY <1>0, <1>2, <1>4
  <2>3. new[i] = events[i]
    <3> HIDE DEF i
    <3> QED  BY <2>1 DEF L
  <2> HIDE DEF new
  <2> QED  BY <2>2, <2>3 DEF KeyCell, K
<1>8. ASSUME NEW n \in (L * K + 1)..(L * K + K) PROVE s[n] = KeyCell(new, n)
  <2> DEFINE m == L * K
             y == n - 1
             j == n - m
  <2>1. m \in Nat /\ y \in Int /\ n \in Int /\ j \in 1..K /\ K * L = m /\ m <= y /\ y < m + K
    BY <1>0
  <2>2. s[n] = b[j]
    BY <1>0, <1>2, <2>1
  <2> HIDE DEF m, y, j
  <2>3. y \div K = L /\ y % K = y - (K * L)
    <3>1. L \in Int /\ K * L <= y /\ y < K * L + K
      BY <1>0, <2>1
    <3> QED  BY <1>0, <2>1, <3>1, QuotientIs, Zenon
  <2>4. (y % K) + 1 = j
    BY <1>0, <2>1, <2>3 DEF y, j
  <2>5. new[L + 1] = x
    BY DEF L
  <2>6. KeyCell(new, n) = <<new[(y \div K) + 1].ev, (y % K) + 1>>
    BY DEF KeyCell, y, K
  <2> HIDE DEF new
  <2> QED  BY <1>4, <2>1, <2>2, <2>3, <2>4, <2>5, <2>6
<1> HIDE DEF s, new
<1>9. ASSUME NEW n \in 1..(L * K + K) PROVE s[n] = AllCells(new)[n]
  <2>1. n \in 1..(L * K) \/ n \in (L * K + 1)..(L * K + K)
    BY <1>0
  <2> QED  BY <1>5, <1>7, <1>8, <2>1, Zenon
<1>10. AllCells(new) = s
  BY <1>0, <1>3, <1>6, <1>9
<1> QED
  BY <1>10 DEF s, new, a, b, K

\* What is taken when there is room is everything.
LEMMA TakenAll ==
  ASSUME NEW T, NEW queue, NEW cells \in Seq(T), NEW cap, NEW room \in Int, cap - Len(queue) = room, Len(cells) <= room
  PROVE  Taken(queue, cells, cap) = cells
<1>1. Len(cells) \in Int
  OBVIOUS
<1>2. Min({Len(cells), cap - Len(queue)}) = Len(cells)
  BY <1>1, Pair
<1> QED
  BY <1>2 DEF Taken

LEMMA TakenSome ==
  ASSUME NEW T, NEW queue \in Seq(T), NEW cells \in Seq(T), NEW cap \in Nat
  PROVE  queue \o Taken(queue, cells, cap) \in Seq(T)
<1> DEFINE m == Min({Len(cells), cap - Len(queue)})
<1>1. Len(cells) \in Int /\ cap - Len(queue) \in Int
  OBVIOUS
<1>2. m = IF Len(cells) <= cap - Len(queue) THEN Len(cells) ELSE cap - Len(queue)
  BY <1>1, Pair, Zenon
<1>3. m \in Int /\ m <= Len(cells)
  BY <1>1, <1>2
<1> HIDE DEF m
<1>4. SubSeq(cells, 1, m) \in Seq(T)
  BY <1>3
<1>5. Taken(queue, cells, cap) \in Seq(T)
  BY <1>4, Zenon DEF Taken, m
<1> QED
  BY <1>5

\* What the driver knows of the modifiers.
Known(down, held) == /\ (down["alt"] <=> "alt" \in held) /\ (down["ctrl"] <=> "ctrl" \in held)
                     /\ down["shift"] => held \cap Shifts # {}
KbTypeOK == /\ kheld \in SUBSET Keys /\ kdown \in [Modifiers -> BOOLEAN] /\ kevents \in Seq(Made_t)
            /\ kqueue \in Seq(KeyCell_t) /\ kread \in Seq(KeyCell_t) /\ kshort \in BOOLEAN
KbInv == KbTypeOK /\ Known(kdown, kheld) /\ KeysFaithful

LEMMA Modified ==
  ASSUME NEW key \in Keys, NEW held \in SUBSET Keys, NEW down \in [Modifiers -> BOOLEAN], NEW released \in BOOLEAN,
         Known(down, held), Modifier(key) # "none", released <=> key \in held
  PROVE  LET new == IF released THEN held \ {key} ELSE held \cup {key}
         IN  /\ [down EXCEPT ![Modifier(key)] = ~released] \in [Modifiers -> BOOLEAN]
             /\ Known([down EXCEPT ![Modifier(key)] = ~released], new)
<1> DEFINE new == IF released THEN held \ {key} ELSE held \cup {key}
           m == Modifier(key)
           d == [down EXCEPT ![m] = ~released]
<1>1. \A x \in Keys : x # key => (x \in new <=> x \in held)
  OBVIOUS
<1>2. key \in new <=> ~released
  OBVIOUS
<1>3. /\ (key \in Shifts /\ m = "shift") \/ (key = "alt" /\ m = "alt") \/ (key = "ctrl" /\ m = "ctrl")
      /\ m \in Modifiers
  <2>1. CASE key \in Shifts
    BY <2>1 DEF Modifier, Modifiers
  <2>2. CASE key \notin Shifts /\ key \in {"alt", "ctrl"}
    BY <2>2 DEF Modifier, Modifiers
  <2>3. CASE key \notin Shifts /\ key \notin {"alt", "ctrl"}
    BY <2>3 DEF Modifier
  <2> QED  BY <2>1, <2>2, <2>3
<1>4. d \in [Modifiers -> BOOLEAN] /\ d[m] = ~released /\ \A x \in Modifiers : x # m => d[x] = down[x]
  <2> HIDE DEF m
  <2> QED  BY <1>3
<1> HIDE DEF new, m, d
<1>5. /\ "alt" \in Modifiers /\ "ctrl" \in Modifiers /\ "shift" \in Modifiers
      /\ "alt" \in Keys /\ "ctrl" \in Keys /\ Shifts \subseteq Keys
  BY DEF Modifiers, Keys, Shifts
<1>6. CASE key \in Shifts /\ m = "shift"
  <2>1. key # "alt" /\ key # "ctrl" /\ m # "alt" /\ m # "ctrl"
    BY <1>6 DEF Shifts
  <2>2. d["alt"] = down["alt"] /\ d["ctrl"] = down["ctrl"] /\ d["shift"] = ~released
    BY <1>4, <1>5, <1>6, <2>1
  <2>3. ("alt" \in new <=> "alt" \in held) /\ ("ctrl" \in new <=> "ctrl" \in held)
    BY <1>1, <1>5, <2>1
  <2> QED  BY <1>2, <1>4, <1>6, <2>2, <2>3, Zenon DEF Known, new, d, m
<1>7. CASE key = "alt" /\ m = "alt"
  <2>1. d["alt"] = ~released /\ d["ctrl"] = down["ctrl"] /\ d["shift"] = down["shift"]
    BY <1>4, <1>5, <1>7
  <2>2. ("alt" \in new <=> ~released) /\ ("ctrl" \in new <=> "ctrl" \in held)
    BY <1>1, <1>2, <1>5, <1>7
  <2>3. new \cap Shifts = held \cap Shifts
    BY <1>1, <1>5, <1>7 DEF Shifts
  <2> QED  BY <1>4, <2>1, <2>2, <2>3, Zenon DEF Known, new, d, m
<1>8. CASE key = "ctrl" /\ m = "ctrl"
  <2>1. d["ctrl"] = ~released /\ d["alt"] = down["alt"] /\ d["shift"] = down["shift"]
    BY <1>4, <1>5, <1>8
  <2>2. ("ctrl" \in new <=> ~released) /\ ("alt" \in new <=> "alt" \in held)
    BY <1>1, <1>2, <1>5, <1>8
  <2>3. new \cap Shifts = held \cap Shifts
    BY <1>1, <1>5, <1>8 DEF Shifts
  <2> QED  BY <1>4, <2>1, <2>2, <2>3, Zenon DEF Known, new, d, m
<1> QED
  BY <1>3, <1>6, <1>7, <1>8

\* An event of a key that is no modifier says what is held.
LEMMA Said ==
  ASSUME NEW key \in Keys, NEW held \in SUBSET Keys, NEW down \in [Modifiers -> BOOLEAN], NEW released \in BOOLEAN,
         Known(down, held), Modifier(key) = "none", NEW new \in SUBSET Keys,
         new = held \ {key} \/ new = held \cup {key}, NEW ev,
         ev = [c |-> keyboard_to_ascii(key, down["shift"]), release |-> released,
               shift |-> down["shift"], alt |-> down["alt"], ctrl |-> down["ctrl"]]
  PROVE  ev \in KeyEvent_t /\ SaysHeld(ev, new) /\ Known(down, new)
<1>1. key \notin Shifts /\ key # "alt" /\ key # "ctrl"
  <2>1. CASE key \in Shifts
    BY <2>1 DEF Modifier
  <2>2. CASE key \notin Shifts /\ key \in {"alt", "ctrl"}
    BY <2>2 DEF Modifier
  <2> QED  BY <2>1, <2>2
<1>2. /\ new \cap Shifts = held \cap Shifts /\ ("alt" \in new <=> "alt" \in held)
      /\ ("ctrl" \in new <=> "ctrl" \in held)
  BY <1>1
<1>3. Known(down, new)
  BY <1>2, Zenon DEF Known
<1> DEFINE s == down["shift"]
           a == down["alt"]
           k == down["ctrl"]
           c == keyboard_to_ascii(key, s)
<1>4. s \in BOOLEAN /\ a \in BOOLEAN /\ k \in BOOLEAN
  BY DEF Modifiers
<1>5. c \in {"small", "capital"} \X Keys /\ (c[1] = "capital" <=> s)
  <2> HIDE DEF s
  <2>1. CASE s
    BY <2>1 DEF keyboard_to_ascii
  <2>2. CASE ~s
    BY <2>2 DEF keyboard_to_ascii
  <2> QED  BY <2>1, <2>2
<1>6. ev = [c |-> c, release |-> released, shift |-> s, alt |-> a, ctrl |-> k]
  OBVIOUS
<1>7. (a <=> "alt" \in new) /\ (k <=> "ctrl" \in new) /\ (s => new \cap Shifts # {})
  BY <1>3, Zenon DEF Known
<1> HIDE DEF s, a, k, c
<1>8. ev.c = c /\ ev.shift = s /\ ev.alt = a /\ ev.ctrl = k
  BY <1>6
<1>9. ev \in KeyEvent_t
  BY <1>4, <1>5, <1>6 DEF KeyEvent_t
<1>10. SaysHeld(ev, new)
  BY <1>5, <1>7, <1>8, Zenon DEF SaysHeld
<1> QED
  BY <1>3, <1>9, <1>10

\* A key goes down or up.
LEMMA KeyStep ==
  ASSUME KbInv, NEW key \in Keys, int_keyboard(key)
  PROVE  KbInv'
<1> DEFINE released == key \in kheld
           held == IF released THEN kheld \ {key} ELSE kheld \cup {key}
           ev == [c |-> keyboard_to_ascii(key, kdown["shift"]), release |-> released,
                  shift |-> kdown["shift"], alt |-> kdown["alt"], ctrl |-> kdown["ctrl"]]
           new == Cells(ev, KeyCells)
           x == [ev |-> ev, held |-> held]
<1>1. KbTypeOK /\ Known(kdown, kheld) /\ KeysFaithful
  BY DEF KbInv
<1>2. held \in SUBSET Keys /\ (held = kheld \ {key} \/ held = kheld \cup {key})
  BY <1>1 DEF KbTypeOK
<1>3. CASE Modifier(key) # "none"
  <2>1. /\ kheld' = held /\ kdown' = [kdown EXCEPT ![Modifier(key)] = ~released]
        /\ UNCHANGED <<kqueue, kevents, kshort, kread>>
    BY <1>3, Zenon DEF int_keyboard
  <2>2. kdown' \in [Modifiers -> BOOLEAN] /\ Known(kdown', kheld')
    BY <1>1, <1>3, <2>1, Modified, Zenon DEF KbTypeOK
  <2>3. KbTypeOK'
    BY <1>1, <1>2, <2>1, <2>2, Zenon DEF KbTypeOK
  <2>4. KeysFaithful'
    BY <1>1, <2>1, Zenon DEF KeysFaithful
  <2> QED  BY <2>2, <2>3, <2>4 DEF KbInv
<1>4. CASE Modifier(key) = "none"
  <2>1. /\ kheld' = held /\ UNCHANGED <<kdown, kread>> /\ kqueue' = kqueue \o Taken(kqueue, new, KeyCap)
        /\ kshort' = (kshort \/ Len(new) > KeyCap - Len(kqueue)) /\ kevents' = Append(kevents, x)
    BY <1>4, Zenon DEF int_keyboard
  <2>2. ev \in KeyEvent_t /\ SaysHeld(ev, held) /\ Known(kdown, held)
    <3>1. released \in BOOLEAN
      OBVIOUS
    <3>3. kheld \in SUBSET Keys /\ kdown \in [Modifiers -> BOOLEAN]
      BY <1>1 DEF KbTypeOK
    <3>2. ev = [c |-> keyboard_to_ascii(key, kdown["shift"]), release |-> released,
                shift |-> kdown["shift"], alt |-> kdown["alt"], ctrl |-> kdown["ctrl"]]
      OBVIOUS
    <3> HIDE DEF ev, held, released
    <3> QED  BY <1>1, <1>2, <1>4, <3>1, <3>2, <3>3, Said, ZenonT(40)
  <2> HIDE DEF ev, held
  <2>3. new \in Seq(KeyCell_t) /\ Len(new) = KeyCells
    BY <2>2, CellsType
  <2> HIDE DEF new
  <2>4. x \in Made_t /\ x.ev = ev /\ x.held = held
    BY <1>2, <2>2 DEF Made_t
  <2> HIDE DEF x
  <2>5. kevents' \in Seq(Made_t) /\ Len(kevents') = Len(kevents) + 1
    BY <1>1, <2>1, <2>4 DEF KbTypeOK
  <2>6. kqueue' \in Seq(KeyCell_t)
    BY <1>1, <2>1, <2>3, TakenSome, InputAssumption DEF KbTypeOK
  <2>7. KbTypeOK'
    <3>1. kshort' \in BOOLEAN
      BY <2>1, Zenon
    <3> QED  BY <1>1, <1>2, <2>1, <2>5, <2>6, <3>1, Zenon DEF KbTypeOK
  <2>8. ASSUME ~kshort' PROVE kread' \o kqueue' = AllCells(kevents')
    <3>1. ~kshort /\ ~(Len(new) > KeyCap - Len(kqueue))
      BY <2>1, <2>8, Zenon
    <3>2. Taken(kqueue, new, KeyCap) = new
      <4>1. KeyCap - Len(kqueue) \in Int /\ Len(new) <= KeyCap - Len(kqueue)
        BY <1>1, <2>3, <3>1, InputAssumption DEF KbTypeOK
      <4> QED  BY <2>3, <4>1, TakenAll
    <3>3. kread \o kqueue = AllCells(kevents)
      BY <1>1, <3>1, Zenon DEF KeysFaithful, AllCells
    <3>4. AllCells(kevents') = AllCells(kevents) \o new
      BY <1>1, <2>1, <2>4, CellsAppended, Zenon DEF KbTypeOK, new
    <3>5. kread \o (kqueue \o new) = (kread \o kqueue) \o new
      <4>1. kread \in Seq(KeyCell_t) /\ kqueue \in Seq(KeyCell_t)
        BY <1>1, Zenon DEF KbTypeOK
      <4>2. new \in Seq(KeyCell_t)
        BY <2>3
      <4> HIDE DEF released
      <4> QED  BY <4>1, <4>2
    <3> QED  BY <2>1, <3>2, <3>3, <3>4, <3>5
  <2>9. \A i \in DOMAIN kevents' : SaysHeld(kevents'[i].ev, kevents'[i].held)
    <3>1. \A i \in DOMAIN kevents : SaysHeld(kevents[i].ev, kevents[i].held)
      BY <1>1 DEF KeysFaithful
    <3>2. DOMAIN kevents' = 1..(Len(kevents) + 1) /\ DOMAIN kevents = 1..Len(kevents)
      BY <1>1, <2>5 DEF KbTypeOK
    <3>3. ASSUME NEW i \in 1..(Len(kevents) + 1) PROVE SaysHeld(kevents'[i].ev, kevents'[i].held)
      <4>1. CASE i = Len(kevents) + 1
        <5>1. kevents'[i] = x
          BY <1>1, <2>1, <4>1 DEF KbTypeOK
        <5> QED  BY <2>2, <2>4, <5>1
      <4>2. CASE i # Len(kevents) + 1
        <5>1. kevents'[i] = kevents[i] /\ i \in 1..Len(kevents)
          BY <1>1, <2>1, <4>2 DEF KbTypeOK
        <5> QED  BY <3>1, <3>2, <5>1
      <4> QED  BY <4>1, <4>2
    <3> QED  BY <3>2, <3>3
  <2>10. KeysFaithful'
    BY <2>8, <2>9, Zenon DEF KeysFaithful, AllCells
  <2> QED  BY <2>1, <2>2, <2>7, <2>10 DEF KbInv
<1> QED
  BY <1>3, <1>4

LEMMA ReadStep ==
  ASSUME KbInv, keyboard_read
  PROVE  KbInv'
<1> DEFINE n == Min({KeyCells, Len(kqueue)})
<1>1. KbTypeOK /\ Known(kdown, kheld) /\ KeysFaithful
  BY DEF KbInv
<1>2. /\ kread' = kread \o SubSeq(kqueue, 1, n) /\ kqueue' = SubSeq(kqueue, n + 1, Len(kqueue))
      /\ UNCHANGED <<kheld, kdown, kevents, kshort>>
  BY DEF keyboard_read
<1>3. n \in Nat /\ n <= Len(kqueue)
  <2>1. KeyCells \in Int /\ Len(kqueue) \in Int /\ KeyCells > 0 /\ Len(kqueue) >= 0
    BY <1>1, InputAssumption DEF KbTypeOK
  <2>2. n = IF KeyCells <= Len(kqueue) THEN KeyCells ELSE Len(kqueue)
    BY <2>1, Pair, Zenon
  <2> QED  BY <2>1, <2>2
<1> HIDE DEF n
<1>4. /\ SubSeq(kqueue, 1, n) \in Seq(KeyCell_t) /\ kqueue' \in Seq(KeyCell_t)
      /\ kread' \o kqueue' = kread \o kqueue
  <2>1. kread \in Seq(KeyCell_t) /\ kqueue \in Seq(KeyCell_t)
    BY <1>1, Zenon DEF KbTypeOK
  <2>2. /\ SubSeq(kqueue, 1, n) \in Seq(KeyCell_t) /\ SubSeq(kqueue, n + 1, Len(kqueue)) \in Seq(KeyCell_t)
        /\ (kread \o SubSeq(kqueue, 1, n)) \o SubSeq(kqueue, n + 1, Len(kqueue)) = kread \o kqueue
    <3>1. Rejoins(kread, kqueue, n)
      BY <1>3, <2>1, Split, Zenon
    <3>2. SubSeq(kqueue, 1, n) \in Seq(KeyCell_t) /\ SubSeq(kqueue, n + 1, Len(kqueue)) \in Seq(KeyCell_t)
      BY <1>3, <2>1
    <3> QED  BY <3>1, <3>2, Zenon DEF Rejoins
  <2> QED  BY <1>2, <2>2, Zenon
<1>5. kread' \in Seq(KeyCell_t)
  BY <1>1, <1>2, <1>4, Join DEF KbTypeOK
<1>6. KbTypeOK'
  BY <1>1, <1>2, <1>4, <1>5, Zenon DEF KbTypeOK
<1>7. KeysFaithful'
  BY <1>1, <1>2, <1>4, Zenon DEF KeysFaithful
<1> QED
  BY <1>1, <1>2, <1>6, <1>7 DEF KbInv

\* Every program reads whole events, in the order of the keys, and every event says which
\* modifiers are held (int_keyboard, keyboard_read).
THEOREM KeyboardCorrect == KbSpec => []KeysFaithful
<1>1. KbInit => KbInv
  <2> SUFFICES ASSUME KbInit PROVE KbInv
    OBVIOUS
  <2>1. KbTypeOK
    <3>1. kdown \in [Modifiers -> BOOLEAN]
      BY Zenon DEF KbInit
    <3>2. <<>> \in Seq(KeyCell_t) /\ <<>> \in Seq(Made_t)
      OBVIOUS
    <3> QED  BY <3>1, <3>2, Zenon DEF KbInit, KbTypeOK
  <2>2. Known(kdown, kheld)
    BY DEF KbInit, Known, Modifiers
  <2>3. 0 * KeyCells = 0
    BY InputAssumption
  <2>4. kread \o kqueue = [n \in 1..Len(kevents) * KeyCells |-> KeyCell(kevents, n)]
    BY <2>3 DEF KbInit
  <2>5. KeysFaithful
    BY <2>4 DEF KbInit, KeysFaithful
  <2> QED  BY <2>1, <2>2, <2>5 DEF KbInv
<1>2. KbInv /\ [KbNext]_kb_vars => KbInv'
  <2> SUFFICES ASSUME KbInv, [KbNext]_kb_vars PROVE KbInv'
    OBVIOUS
  <2>1. CASE UNCHANGED kb_vars
    BY <2>1, Zenon DEF kb_vars, KbInv, KbTypeOK, Known, KeysFaithful
  <2> QED  BY <2>1, KeyStep, ReadStep DEF KbNext
<1>3. KbInv => KeysFaithful
  BY DEF KbInv
<1> QED
  BY <1>1, <1>2, <1>3, PTL DEF KbSpec
-----------------------------------------------------------------------------
MouseEvent_t == [x : Int, y : Int, left : BOOLEAN, right : BOOLEAN]
MouseCell_t == MouseEvent_t \X (1..MouseCells)

\* The bytes the mouse has still to send fit the bytes received.
Sent == \/ mcycle = 0 /\ (msent = <<>> \/ msent = <<Stray>> \/ \E h \in Heads, dx, dy \in Int : msent = <<h, dx, dy>>)
        \/ mcycle = 1 /\ mu8.head \in Heads /\ \E dx, dy \in Int : msent = <<dx, dy>>
        \/ mcycle = 2 /\ mu8.head \in Heads /\ \E dy \in Int : msent = <<dy>>
MouseTypeOK == /\ mu8 \in [head : Heads \cup {Stray}, dx : Int] /\ mpos \in [x : Int, y : Int]
               /\ mprev \in MouseEvent_t /\ mgot \in MouseEvent_t /\ mqueue \in Seq(MouseCell_t)
               /\ mlast \in Heads /\ mshort \in BOOLEAN

Pressed == mcycle = 0 /\ mu8.head = mlast => mprev.left = mlast.left /\ mprev.right = mlast.right

\* The ring holds whole events, the last of them is previous_event, and when it holds none
\* previous_event has been read.
Whole(len) == \E m \in Nat : len = m * MouseCells
Newest(queue, e) == \A i \in 1..Len(queue) : i > Len(queue) - MouseCells => queue[i][1] = e
Queued_mouse == ~mshort => /\ Whole(Len(mqueue)) /\ Newest(mqueue, mprev)
                           /\ mqueue = <<>> => mgot = mprev
MouseInv == MouseTypeOK /\ Sent /\ Pressed /\ Queued_mouse

LEMMA WholeEvents ==
  ASSUME NEW len \in Nat, Whole(len)
  PROVE  /\ Whole(len + MouseCells)
         /\ len > 0 => len >= MouseCells /\ Whole(len - MouseCells)
<1>1. PICK m \in Nat : len = m * MouseCells
  BY DEF Whole
<1>2. (m + 1) * MouseCells = (m * MouseCells) + MouseCells
  BY InputAssumption
<1>3. Whole(len + MouseCells)
  BY <1>1, <1>2 DEF Whole
<1>4. ASSUME len > 0 PROVE len >= MouseCells /\ Whole(len - MouseCells)
  <2>1. m # 0
    BY <1>1, <1>4, InputAssumption
  <2>2. m - 1 \in Nat
    BY <2>1
  <2>3. m * MouseCells = ((m - 1) * MouseCells) + MouseCells /\ (m - 1) * MouseCells \in Nat
    BY <2>2, InputAssumption
  <2> DEFINE p == (m - 1) * MouseCells
  <2>4. len = p + MouseCells /\ p \in Nat
    BY <1>1, <2>3
  <2>5. Whole(p)
    BY <2>2 DEF Whole
  <2> HIDE DEF p
  <2>6. len - MouseCells = p /\ len >= MouseCells
    BY <2>4, InputAssumption
  <2> QED  BY <2>5, <2>6
<1> QED
  BY <1>3, <1>4

LEMMA Greater == ASSUME NEW a \in Int, NEW b \in Int PROVE Max({a, b}) \in Int
<1> DEFINE S == {a, b}
           m == IF a <= b THEN b ELSE a
<1>1. m \in S /\ m \in Int /\ \A y \in S : m >= y
  OBVIOUS
<1>2. ASSUME NEW x \in S, \A y \in S : x >= y PROVE x = m
  BY <1>2
<1> HIDE DEF m, S
<1>3. Max(S) = m
  BY <1>1, <1>2, Zenon DEF Max
<1> QED
  BY <1>1, <1>3 DEF S

LEMMA PacketStep ==
  ASSUME MouseInv, NEW bytes, mouse_packet(bytes),
         bytes = <<Stray>> \/ \E h \in Heads, dx, dy \in Int : bytes = <<h, dx, dy>>
  PROVE  MouseInv'
<1>1. msent = <<>> /\ msent' = bytes /\ UNCHANGED <<mcycle, mu8, mpos, mprev, mqueue, mshort, mlast, mgot>>
  BY DEF mouse_packet
<1>2. mcycle = 0
  <2>1. \A dx, dy : <<dx, dy>> # <<>> /\ <<dy>> # <<>>
    OBVIOUS
  <2> QED  BY <1>1, <2>1, Zenon DEF MouseInv, Sent
<1>3. Sent'
  BY <1>1, <1>2, Zenon DEF Sent
<1>4. MouseTypeOK' /\ Pressed' /\ Queued_mouse'
  BY <1>1, Zenon DEF MouseInv, MouseTypeOK, Pressed, Queued_mouse
<1> QED
  BY <1>3, <1>4 DEF MouseInv

\* The third byte.
LEMMA MoveStep ==
  ASSUME MouseInv, NEW dy \in Int, mcycle = 2, msent = <<dy>>, MoveMouse(dy),
         msent' = <<>>, UNCHANGED <<mgot, mbound>>
  PROVE  MouseInv'
<1> DEFINE pos == [x |-> Max({mpos.x + mu8.dx, 0}), y |-> Max({mpos.y - dy, 0})]
           e == Event(pos, mu8.head)
           new == Cells(e, MouseCells)
<1>1. MouseTypeOK /\ Queued_mouse /\ mu8.head \in Heads
  <2>1. mcycle # 0 /\ mcycle # 1
    OBVIOUS
  <2> QED  BY <2>1, Zenon DEF MouseInv, Sent
<1>2. pos \in [x : Int, y : Int]
  <2>1. mpos.x + mu8.dx \in Int /\ mpos.y - dy \in Int
    BY <1>1 DEF MouseTypeOK
  <2>2. Max({mpos.x + mu8.dx, 0}) \in Int /\ Max({mpos.y - dy, 0}) \in Int
    BY <2>1, Greater
  <2> QED  BY <2>2
<1>3. e \in MouseEvent_t /\ e.left = mu8.head.left /\ e.right = mu8.head.right
  <2> HIDE DEF pos
  <2>1. mu8.head.left \in BOOLEAN /\ mu8.head.right \in BOOLEAN
    BY <1>1, Zenon DEF Heads
  <2> QED  BY <1>2, <2>1 DEF Event, MouseEvent_t
<1>4. /\ mcycle' = 0 /\ mpos' = pos /\ mlast' = mu8.head /\ mu8' = mu8
      /\ button_change(mu8.head) =>
           /\ mprev' = e /\ mqueue' = mqueue \o Taken(mqueue, new, MouseCap)
           /\ mshort' = (mshort \/ Len(new) > MouseCap - Len(mqueue))
      /\ ~button_change(mu8.head) => UNCHANGED <<mprev, mqueue, mshort>>
  BY Zenon DEF MoveMouse
<1> HIDE DEF pos, e
<1>5. Sent'
  BY <1>4, Zenon DEF Sent
<1>6. CASE ~button_change(mu8.head)
  <2>1. mprev.left = mu8.head.left /\ mprev.right = mu8.head.right
    BY <1>6 DEF button_change
  <2>2. mprev'.left = mlast'.left /\ mprev'.right = mlast'.right
    BY <1>4, <1>6, <2>1
  <2>4. Pressed'
    BY <2>2, Zenon DEF Pressed
  <2>5. mprev' = mprev /\ mqueue' = mqueue /\ mshort' = mshort /\ mgot' = mgot
    BY <1>4, <1>6
  <2>3. MouseTypeOK' /\ Queued_mouse'
    BY <1>1, <1>2, <1>4, <2>5, Zenon DEF MouseTypeOK, Queued_mouse
  <2> QED  BY <1>5, <2>3, <2>4 DEF MouseInv
<1>7. CASE button_change(mu8.head)
  <2>1. new \in Seq(MouseCell_t) /\ Len(new) = MouseCells /\ \A i \in 1..MouseCells : new[i][1] = e
    <3> HIDE DEF MouseEvent_t
    <3> QED  BY <1>3, InputAssumption DEF Cells, MouseCell_t
  <2> HIDE DEF new
  <2>2. Pressed'
    BY <1>3, <1>4, <1>7, Zenon DEF Pressed
  <2>3. mqueue' \in Seq(MouseCell_t)
    <3>1. mqueue \in Seq(MouseCell_t) /\ new \in Seq(MouseCell_t) /\ MouseCap \in Nat
      BY <1>1, <2>1, InputAssumption DEF MouseTypeOK
    <3>2. mqueue \o Taken(mqueue, new, MouseCap) \in Seq(MouseCell_t)
      BY <3>1, TakenSome, Zenon
    <3> QED  BY <1>4, <1>7, <3>2, Zenon
  <2>4. MouseTypeOK'
    <3>1. mshort' \in BOOLEAN
      BY <1>4, <1>7, Zenon
    <3> QED  BY <1>1, <1>2, <1>3, <1>4, <1>7, <2>3, <3>1, Zenon DEF MouseTypeOK
  <2>5. ASSUME ~mshort' PROVE Whole(Len(mqueue')) /\ Newest(mqueue', mprev') /\ mqueue' # <<>>
    <3>1. ~mshort /\ ~(Len(new) > MouseCap - Len(mqueue))
      BY <1>4, <1>7, <2>5, Zenon
    <3>2. mqueue \in Seq(MouseCell_t)
      BY <1>1 DEF MouseTypeOK
    <3>3. Taken(mqueue, new, MouseCap) = new
      <4>1. MouseCap - Len(mqueue) \in Int /\ Len(new) <= MouseCap - Len(mqueue)
        BY <2>1, <3>1, <3>2, InputAssumption
      <4> QED  BY <2>1, <4>1, TakenAll
    <3>4. mqueue' = mqueue \o new /\ mprev' = e
      BY <1>4, <1>7, <3>3, Zenon
    <3>5. Len(mqueue') = Len(mqueue) + MouseCells /\ Len(mqueue) \in Nat
      <4>1. new \in Seq(MouseCell_t) /\ Len(new) = MouseCells
        BY <2>1
      <4>2. Len(mqueue \o new) = Len(mqueue) + Len(new) /\ Len(mqueue) \in Nat
        BY <3>2, <4>1, SMTT(30)
      <4> QED  BY <3>4, <4>1, <4>2, Zenon
    <3>6. Whole(Len(mqueue'))
      BY <1>1, <3>1, <3>5, WholeEvents, Zenon DEF Queued_mouse
    <3>7. ASSUME NEW i \in 1..Len(mqueue'), i > Len(mqueue') - MouseCells PROVE mqueue'[i][1] = e
      <4>1. i - Len(mqueue) \in 1..MouseCells
        BY <3>5, <3>7, InputAssumption
      <4>2. mqueue'[i] = new[i - Len(mqueue)]
        BY <2>1, <3>2, <3>4, <3>5, <4>1
      <4> QED  BY <2>1, <4>1, <4>2, Zenon
    <3>8. Newest(mqueue', mprev')
      BY <3>4, <3>7, Zenon DEF Newest
    <3>9. mqueue' # <<>>
      BY <2>3, <3>5, InputAssumption
    <3> QED  BY <3>6, <3>8, <3>9
  <2>6. Queued_mouse'
    BY <2>5, Zenon DEF Queued_mouse
  <2> QED  BY <1>5, <2>2, <2>4, <2>6 DEF MouseInv
<1> QED
  BY <1>6, <1>7

\* One byte.
LEMMA ByteStep ==
  ASSUME MouseInv, int_mouse
  PROVE  MouseInv'
<1>1. MouseTypeOK /\ Queued_mouse /\ Sent /\ Pressed
  BY DEF MouseInv
<1>2. msent # <<>> /\ msent' = Tail(msent) /\ UNCHANGED <<mgot, mbound>>
  BY DEF int_mouse
<1>3. CASE mcycle = 0
  <2>1. /\ mu8' = [mu8 EXCEPT !.head = Head(msent)] /\ mcycle' = IF Head(msent).sync THEN 1 ELSE 0
        /\ UNCHANGED <<mpos, mprev, mqueue, mshort, mlast>>
    BY <1>3 DEF int_mouse
  <2>2. Queued_mouse'
    BY <1>1, <1>2, <2>1, Zenon DEF Queued_mouse
  <2>3. CASE msent = <<Stray>>
    <3>1. Head(msent) = Stray /\ Tail(msent) = <<>>
      BY <2>3
    <3>2. Stray.sync = FALSE
      BY DEF Stray
    <3>3. mcycle' = 0 /\ msent' = <<>>
      BY <1>2, <2>1, <3>1, <3>2
    <3>4. mu8' \in [head : Heads \cup {Stray}, dx : Int] /\ mu8'.head = Stray
      <4> HIDE DEF Stray
      <4> QED  BY <1>1, <2>1, <3>1 DEF MouseTypeOK
    <3>5. mlast'.sync = TRUE
      BY <1>1, <2>1, Zenon DEF MouseTypeOK, Heads
    <3>6. mu8'.head # mlast'
      BY <3>2, <3>4, <3>5
    <3>7. Sent'
      BY <3>3, Zenon DEF Sent
    <3>8. Pressed'
      BY <3>6, Zenon DEF Pressed
    <3>9. MouseTypeOK'
      BY <1>1, <1>2, <2>1, <3>4, Zenon DEF MouseTypeOK
    <3> QED  BY <2>2, <3>7, <3>8, <3>9 DEF MouseInv
  <2>4. ASSUME NEW h \in Heads, NEW dx \in Int, NEW dy \in Int, msent = <<h, dx, dy>> PROVE MouseInv'
    <3>1. Head(msent) = h /\ Tail(msent) = <<dx, dy>>
      BY <2>4
    <3>2. h.sync = TRUE
      BY Zenon DEF Heads
    <3>3. mcycle' = 1 /\ msent' = <<dx, dy>>
      BY <1>2, <2>1, <3>1, <3>2
    <3>4. mu8' \in [head : Heads \cup {Stray}, dx : Int] /\ mu8'.head = h
      <4> HIDE DEF Stray, Heads
      <4> QED  BY <1>1, <2>1, <3>1 DEF MouseTypeOK
    <3>5. Sent'
      BY <3>3, <3>4, Zenon DEF Sent
    <3>6. Pressed'
      BY <3>3 DEF Pressed
    <3>7. MouseTypeOK'
      BY <1>1, <1>2, <2>1, <3>4, Zenon DEF MouseTypeOK
    <3> QED  BY <2>2, <3>5, <3>6, <3>7 DEF MouseInv
  <2>5. msent = <<Stray>> \/ \E h \in Heads, dx, dy \in Int : msent = <<h, dx, dy>>
    BY <1>1, <1>2, <1>3 DEF Sent
  <2> QED  BY <2>3, <2>4, <2>5
<1>4. CASE mcycle = 1
  <2>1. /\ mu8' = [mu8 EXCEPT !.dx = Head(msent)] /\ mcycle' = 2
        /\ UNCHANGED <<mpos, mprev, mqueue, mshort, mlast>>
    BY <1>4 DEF int_mouse
  <2>2. mu8.head \in Heads /\ \E dx, dy \in Int : msent = <<dx, dy>>
    BY <1>1, <1>4 DEF Sent
  <2>3. PICK dx, dy \in Int : msent = <<dx, dy>>
    BY <2>2
  <2>4. Head(msent) = dx /\ msent' = <<dy>>
    BY <1>2, <2>3
  <2>5. mu8' \in [head : Heads \cup {Stray}, dx : Int] /\ mu8'.head = mu8.head
    <3> HIDE DEF Stray, Heads
    <3> QED  BY <1>1, <2>1, <2>4 DEF MouseTypeOK
  <2>6. Sent'
    BY <2>1, <2>2, <2>4, <2>5, Zenon DEF Sent
  <2>7. Pressed'
    BY <2>1 DEF Pressed
  <2>8. MouseTypeOK' /\ Queued_mouse'
    BY <1>1, <1>2, <2>1, <2>5, Zenon DEF MouseTypeOK, Queued_mouse
  <2> QED  BY <2>6, <2>7, <2>8 DEF MouseInv
<1>5. CASE mcycle = 2
  <2>1. \E dy \in Int : msent = <<dy>>
    BY <1>1, <1>5 DEF Sent
  <2>2. PICK dy \in Int : msent = <<dy>>
    BY <2>1
  <2>3. Head(msent) = dy /\ msent' = <<>>
    BY <1>2, <2>2
  <2>4. MoveMouse(dy)
    BY <1>5, <2>3 DEF int_mouse
  <2> QED  BY <1>2, <1>5, <2>2, <2>3, <2>4, MoveStep
<1> QED
  BY <1>1, <1>3, <1>4, <1>5 DEF Sent

LEMMA MouseReadStep ==
  ASSUME MouseInv, fs_mouse_read
  PROVE  MouseInv'
<1> DEFINE n == Min({MouseCells, Len(mqueue)})
           e == Event(mpos, mu8.head)
<1>1. MouseTypeOK /\ Queued_mouse /\ Sent /\ Pressed
  BY DEF MouseInv
<1>2. UNCHANGED <<mcycle, mu8, mpos, mshort, msent, mlast, mbound>>
  BY DEF fs_mouse_read
<1>3. Sent'
  BY <1>1, <1>2, Zenon DEF Sent
<1>4. CASE mqueue = <<>>
  <2>1. mgot' = e /\ mprev' = e /\ mqueue' = mqueue
    BY <1>4, SMTT(30) DEF fs_mouse_read
  <2>2. e \in MouseEvent_t /\ e.left = mu8.head.left /\ e.right = mu8.head.right
    <3>1. mu8.head.left \in BOOLEAN /\ mu8.head.right \in BOOLEAN
      <4>1. mu8.head \in Heads \cup {Stray}
        BY <1>1, Zenon DEF MouseTypeOK
      <4>2. \A h \in Heads : h.left \in BOOLEAN /\ h.right \in BOOLEAN
        BY DEF Heads
      <4>3. Stray.left \in BOOLEAN /\ Stray.right \in BOOLEAN
        BY DEF Stray
      <4> QED  BY <4>1, <4>2, <4>3, Zenon
    <3>2. mpos.x \in Int /\ mpos.y \in Int
      BY <1>1 DEF MouseTypeOK
    <3> QED  BY <3>1, <3>2 DEF Event, MouseEvent_t
  <2> HIDE DEF e
  <2>3. Pressed'
    BY <1>2, <2>1, <2>2, Zenon DEF Pressed
  <2>4. MouseTypeOK'
    BY <1>1, <1>2, <2>1, <2>2, Zenon DEF MouseTypeOK
  <2>5. Newest(mqueue, e)
    BY <1>4 DEF Newest
  <2>6. Queued_mouse'
    BY <1>1, <1>2, <2>1, <2>5, Zenon DEF Queued_mouse
  <2> QED  BY <1>3, <2>3, <2>4, <2>6 DEF MouseInv
<1>5. CASE mqueue # <<>>
  <2>1. mgot' = mqueue[1][1] /\ mqueue' = SubSeq(mqueue, n + 1, Len(mqueue)) /\ mprev' = mprev
    BY <1>5, Zenon DEF fs_mouse_read
  <2>2. mqueue \in Seq(MouseCell_t) /\ Len(mqueue) \in Nat /\ Len(mqueue) > 0
    BY <1>1, <1>5 DEF MouseTypeOK
  <2>3. n = (IF MouseCells <= Len(mqueue) THEN MouseCells ELSE Len(mqueue)) /\ n \in Nat /\ n <= Len(mqueue) /\ n > 0
    <3>1. MouseCells \in Int /\ Len(mqueue) \in Int /\ MouseCells > 0
      BY <2>2, InputAssumption
    <3>2. n = IF MouseCells <= Len(mqueue) THEN MouseCells ELSE Len(mqueue)
      BY <3>1, Pair, Zenon
    <3> QED  BY <2>2, <3>1, <3>2
  <2> HIDE DEF n
  <2>4. /\ mqueue' \in Seq(MouseCell_t) /\ Len(mqueue') = Len(mqueue) - n
        /\ \A i \in 1..(Len(mqueue) - n) : mqueue'[i] = mqueue[n + i]
    <3>1. n \in Nat /\ n <= Len(mqueue)
      BY <2>3
    <3>2. Remains(MouseCell_t, mqueue, n)
      BY <2>2, <3>1, Rest, Zenon
    <3> QED  BY <2>1, <3>2, Zenon DEF Remains
  <2>5. mqueue[1][1] \in MouseEvent_t
    <3>1. mqueue[1] \in MouseCell_t
      BY <2>2
    <3> QED  BY <3>1 DEF MouseCell_t
  <2>6. MouseTypeOK'
    BY <1>1, <1>2, <2>1, <2>4, <2>5, Zenon DEF MouseTypeOK
  <2>7. Pressed'
    BY <1>1, <1>2, <2>1, Zenon DEF Pressed
  <2>8. ASSUME ~mshort PROVE Whole(Len(mqueue')) /\ Newest(mqueue', mprev) /\ (mqueue' = <<>> => mqueue[1][1] = mprev)
    <3>1. Whole(Len(mqueue)) /\ Newest(mqueue, mprev)
      BY <1>1, <2>8, Zenon DEF Queued_mouse
    <3>2. Len(mqueue) >= MouseCells /\ Whole(Len(mqueue) - MouseCells)
      BY <2>2, <3>1, WholeEvents, Zenon
    <3>3. n = MouseCells
      BY <2>3, <3>2, InputAssumption
    <3>4. Whole(Len(mqueue'))
      BY <2>4, <3>2, <3>3, Zenon
    <3>5. ASSUME NEW i \in 1..Len(mqueue'), i > Len(mqueue') - MouseCells PROVE mqueue'[i][1] = mprev
      <4>1. n + i \in 1..Len(mqueue) /\ n + i > Len(mqueue) - MouseCells /\ i \in 1..(Len(mqueue) - n)
        BY <2>2, <2>3, <2>4, <3>3, <3>5, InputAssumption
      <4> QED  BY <2>4, <3>1, <4>1, Zenon DEF Newest
    <3>6. ASSUME mqueue' = <<>> PROVE mqueue[1][1] = mprev
      <4>1. Len(mqueue') = 0
        BY <3>6
      <4>2. 1 \in 1..Len(mqueue) /\ 1 > Len(mqueue) - MouseCells
        BY <2>2, <2>4, <3>3, <4>1, InputAssumption
      <4> QED  BY <3>1, <4>2, Zenon DEF Newest
    <3> QED  BY <3>4, <3>5, <3>6, Zenon DEF Newest
  <2>9. Queued_mouse'
    BY <1>2, <2>1, <2>8, Zenon DEF Queued_mouse
  <2> QED  BY <1>3, <2>6, <2>7, <2>9 DEF MouseInv
<1> QED
  BY <1>4, <1>5

LEMMA MouseStart == MouseInit => MouseInv
<1> SUFFICES ASSUME MouseInit PROVE MouseInv
  OBVIOUS
<1> DEFINE none == [sync |-> TRUE, left |-> FALSE, right |-> FALSE]
<1>1. /\ mcycle = 0 /\ mu8 = [head |-> none, dx |-> 0] /\ mpos = [x |-> 0, y |-> 0] /\ mprev = Still
      /\ mqueue = <<>> /\ mshort = FALSE /\ msent = <<>> /\ mlast = none /\ mgot = Still
  BY Zenon DEF MouseInit
<1>2. none \in Heads /\ none.left = FALSE /\ none.right = FALSE
  BY DEF Heads
<1>3. Still \in MouseEvent_t /\ Still.left = FALSE /\ Still.right = FALSE
  BY DEF Still, MouseEvent_t
<1> HIDE DEF none
<1>4. MouseTypeOK
  <2>1. mu8 \in [head : Heads \cup {Stray}, dx : Int] /\ mpos \in [x : Int, y : Int]
    BY <1>1, <1>2
  <2>2. <<>> \in Seq(MouseCell_t)
    OBVIOUS
  <2> QED  BY <1>1, <1>2, <1>3, <2>1, <2>2, Zenon DEF MouseTypeOK
<1>5. Sent
  BY <1>1, Zenon DEF Sent
<1>6. Pressed
  BY <1>1, <1>2, <1>3, Zenon DEF Pressed
<1>7. Queued_mouse
  <2>1. Whole(0)
    <3>1. 0 = 0 * MouseCells
      BY InputAssumption
    <3> QED  BY <3>1 DEF Whole
  <2>2. Len(mqueue) = 0 /\ Newest(mqueue, mprev)
    BY <1>1 DEF Newest
  <2> QED  BY <1>1, <2>1, <2>2, Zenon DEF Queued_mouse
<1> QED
  BY <1>4, <1>5, <1>6, <1>7 DEF MouseInv

LEMMA MouseStep == MouseInv /\ [MouseNext]_mouse_vars => MouseInv'
<1> SUFFICES ASSUME MouseInv, [MouseNext]_mouse_vars PROVE MouseInv'
  OBVIOUS
<1>1. CASE UNCHANGED mouse_vars
  BY <1>1, Zenon DEF mouse_vars, MouseInv, MouseTypeOK, Sent, Pressed, Queued_mouse
<1>2. ASSUME NEW h \in Heads, NEW dx \in {-1, 0, 1}, NEW dy \in {0, 1, -1}, mouse_packet(<<h, dx, dy>>) PROVE MouseInv'
  <2>1. dx \in Int /\ dy \in Int
    OBVIOUS
  <2>2. \E g \in Heads, ex, ey \in Int : <<h, dx, dy>> = <<g, ex, ey>>
    BY <2>1, Zenon
  <2> QED  BY <1>2, <2>2, PacketStep, Zenon
<1>3. CASE mouse_packet(<<Stray>>)
  BY <1>3, PacketStep, Zenon
<1>4. CASE int_mouse
  BY <1>4, ByteStep, Zenon
<1>5. CASE fs_mouse_read
  BY <1>5, MouseReadStep, Zenon
<1> QED
  BY <1>1, <1>2, <1>3, <1>4, <1>5, Zenon DEF MouseNext

LEMMA Settled == MouseInv => MouseSettles
<1> SUFFICES ASSUME MouseInv, ~mshort, mcycle = 0, mu8.head = mlast, ~fs_mouse_has_data
             PROVE  mgot = Event(mpos, mlast)
  BY Zenon DEF MouseSettles
<1>1. mqueue = <<>> /\ mpos.x = mprev.x /\ mpos.y = mprev.y
  BY DEF fs_mouse_has_data
<1>2. mgot = mprev /\ mprev.left = mlast.left /\ mprev.right = mlast.right /\ mprev \in MouseEvent_t
  BY <1>1, Zenon DEF MouseInv, MouseTypeOK, Pressed, Queued_mouse
<1>3. mprev = [x |-> mprev.x, y |-> mprev.y, left |-> mprev.left, right |-> mprev.right]
  BY <1>2 DEF MouseEvent_t
<1> QED
  BY <1>1, <1>2, <1>3, Zenon DEF Event

\* Whatever is read between the bytes of packets, once /device/mouse has nothing more to say
\* the last event read is the mouse as it is (int_mouse, fs_mouse_read).
THEOREM InputCorrect == KbSpec /\ MouseSpec => []InputFaithful
<1>1. MouseSpec => []MouseSettles
  BY MouseStart, MouseStep, Settled, PTL DEF MouseSpec
<1>2. KeysFaithful /\ MouseSettles => InputFaithful
  BY DEF InputFaithful
<1> QED
  BY <1>1, <1>2, KeyboardCorrect, PTL
=============================================================================
