-------------------------- MODULE VirtqueueProofs --------------------------
(***************************************************************************)
(* Proofs about module Virtqueue, for every queue size and index width,    *)
(* every set of slots, sectors and values, any number of resets and forks, *)
(* on a machine whose stores are seen in program order.                    *)
(***************************************************************************)
EXTENDS Virtqueue, Integers, TLAPS

\* Leaves are for Zenon; those for the SMT solver say so.
USE ZenonT(60)

-----------------------------------------------------------------------------
(***************************************************************************)
(* The rings, in an image s of the guest and the device.                   *)
(***************************************************************************)

\* How far index j is ahead of index i.
Ahead(i, j) == IF i <= j THEN j - i ELSE j + IdxMod - i

\* The n-th ring entry from the driver's position on, its chain's head and its slot.
Pos(s, n) == (s.lastUsed + n) % QSZ
HeadAt(s, n) == s.avail[Pos(s, n)]
TagAt(s, n) == s.desc[HeadAt(s, n)].tag

\* How many chains are in flight, and how many of them are answered.
Posted(s) == Ahead(s.lastUsed, s.availIdx)
Pushed(s) == Ahead(s.lastUsed, s.usedIdx)

\* The n descriptors c of table d are a chain for the request in slot t.
Chain(d, c, n, t) ==
  \A k \in 1 .. n : /\ d[c[k]].tag = t
                    /\ d[c[k]].more <=> k < n
                    /\ k < n => d[c[k]].next = c[k + 1]

\* The descriptors from h on are one.
Chained(s, h, t) ==
  LET n == ChainLen(s.req[t])
  IN n <= QSZ /\ \E c \in [1 .. n -> Slots] : c[1] = h /\ Chain(s.desc, c, n, t)

\* The chains in flight are of different slots, those of all requests, and the
\* first of them are answered and on the used ring, in the same order.
RingInv(s) ==
  /\ Pushed(s) <= Posted(s) /\ Posted(s) <= QSZ
  /\ \A n \in 0 .. Posted(s) - 1 :
       /\ TagAt(s, n) \in Tags /\ s.req[TagAt(s, n)] # None
       /\ Chained(s, HeadAt(s, n), TagAt(s, n))
       /\ n < Pushed(s) => s.used[Pos(s, n)] = HeadAt(s, n)
       /\ s.ret[TagAt(s, n)] # None <=> n < Pushed(s)
       /\ \A m \in 0 .. Posted(s) - 1 : TagAt(s, n) = TagAt(s, m) => n = m
  /\ \A t \in Tags : s.req[t] # None => \E n \in 0 .. Posted(s) - 1 : TagAt(s, n) = t
  /\ \A t \in Tags : s.req[t] = None => s.ret[t] = None /\ s.page[t]

-----------------------------------------------------------------------------
(***************************************************************************)
(* Indices and positions.                                                  *)
(***************************************************************************)

\* Division by d, as the provers know it.
LEMMA Division ==
  ASSUME NEW a \in Nat, NEW d \in Nat \ {0}
  PROVE  a % d \in 0 .. d - 1 /\ a \div d \in Nat /\ a = d * (a \div d) + (a % d)
  BY SMTT(60)

\* Remainders that a multiple of d tells apart are equal.
LEMMA SameRemainder ==
  ASSUME NEW d \in Nat \ {0}, NEW x \in 0 .. d - 1, NEW y \in 0 .. d - 1, NEW k \in Int, x = y + d * k
  PROVE  x = y
  <1>1. CASE k >= 1
    <2>1. d * k >= d
      BY <1>1, SMTT(60)
    <2> QED
      BY <2>1, SMTT(60)
  <1>2. CASE k <= -1
    <2>1. d * k <= -d
      BY <1>2, SMTT(60)
    <2> QED
      BY <2>1, SMTT(60)
  <1>3. CASE k = 0
    BY <1>3, SMTT(60)
  <1> QED
    BY <1>1, <1>2, <1>3, SMTT(60)

\* Ring positions do not see an index wrap.
LEMMA WrapPos ==
  ASSUME NEW n \in Nat
  PROVE  (n + IdxMod) % QSZ = n % QSZ
  <1> DEFINE w == IdxMod \div QSZ
             a == n \div QSZ
             b == (n + IdxMod) \div QSZ
             x == (n + IdxMod) % QSZ
             y == n % QSZ
  <1>1. QSZ \in Nat \ {0} /\ IdxMod \in Nat /\ IdxMod % QSZ = 0 /\ n + IdxMod \in Nat
    BY QueueAssumption, SMTT(60)
  <1>2. IdxMod = QSZ * w + 0 /\ w \in Nat
    BY <1>1, Division
  <1>3. n = QSZ * a + y /\ a \in Nat /\ y \in 0 .. QSZ - 1
    BY <1>1, Division
  <1>4. n + IdxMod = QSZ * b + x /\ b \in Nat /\ x \in 0 .. QSZ - 1
    BY <1>1, Division
  <1> HIDE DEF w, a, b, x, y
  <1>5. x = y + QSZ * (a + w - b) /\ a + w - b \in Int
    BY <1>1, <1>2, <1>3, <1>4, SMTT(60)
  <1>6. x = y
    BY <1>1, <1>3, <1>4, <1>5, SameRemainder
  <1> QED
    BY <1>6 DEF x, y

\* As many entries as the ring has are at different positions.
LEMMA PosDiffer ==
  ASSUME NEW i \in Nat, NEW n \in 0 .. QSZ - 1, NEW m \in 0 .. QSZ - 1, (i + n) % QSZ = (i + m) % QSZ
  PROVE  n = m
  <1> DEFINE a == (i + n) \div QSZ
             b == (i + m) \div QSZ
             x == (i + n) % QSZ
  <1>1. QSZ \in Nat \ {0} /\ i + n \in Nat /\ i + m \in Nat
    BY QueueAssumption, SMTT(60)
  <1>2. i + n = QSZ * a + x /\ a \in Nat /\ x \in 0 .. QSZ - 1
    BY <1>1, Division
  <1>3. i + m = QSZ * b + x /\ b \in Nat
    BY <1>1, Division
  <1> HIDE DEF a, b, x
  <1>4. n = m + QSZ * (a - b) /\ a - b \in Int
    BY <1>1, <1>2, <1>3, SMTT(60)
  <1> QED
    BY <1>1, <1>4, SameRemainder

\* An index goes on by one, or back to zero.
LEMMA IncrIs ==
  ASSUME NEW i \in Indices
  PROVE  Incr(i) \in Indices /\ Incr(i) = IF i = IdxMod - 1 THEN 0 ELSE i + 1
  <1> DEFINE r == (i + 1) % IdxMod
             k == (i + 1) \div IdxMod
  <1>1. IdxMod \in Nat \ {0} /\ i \in Nat /\ i <= IdxMod - 1 /\ i + 1 \in Nat
    BY QueueAssumption, SMTT(60) DEF Indices
  <1>2. r \in 0 .. IdxMod - 1 /\ k \in Nat /\ i + 1 = IdxMod * k + r
    BY <1>1, Division
  <1> HIDE DEF r, k
  <1>3. CASE i = IdxMod - 1
    <2>1. 0 = r + IdxMod * (k - 1) /\ k - 1 \in Int /\ 0 \in 0 .. IdxMod - 1
      BY <1>1, <1>2, <1>3, SMTT(60)
    <2>2. r = 0
      BY <1>1, <1>2, <2>1, SameRemainder
    <2> QED
      BY <1>1, <1>3, <2>2, SMTT(60) DEF Incr, Indices, r
  <1>4. CASE i # IdxMod - 1
    <2>1. i + 1 = r + IdxMod * k /\ k \in Int /\ i + 1 \in 0 .. IdxMod - 1
      BY <1>1, <1>2, <1>4, SMTT(60)
    <2>2. r = i + 1
      BY <1>1, <1>2, <2>1, SameRemainder
    <2> QED
      BY <1>1, <1>4, <2>1, <2>2 DEF Incr, Indices, r
  <1> QED
    BY <1>3, <1>4

\* How the distances of indices change.
LEMMA Aheads ==
  ASSUME NEW i \in Indices, NEW j \in Indices
  PROVE  /\ Ahead(i, j) \in 0 .. IdxMod - 1
         /\ Ahead(i, j) = 0 <=> i = j
         /\ Ahead(i, j) < IdxMod - 1 => Ahead(i, Incr(j)) = Ahead(i, j) + 1
         /\ i # j => Ahead(Incr(i), j) = Ahead(i, j) - 1
         /\ \A k \in Indices : Ahead(i, j) <= Ahead(i, k) => Ahead(j, k) = Ahead(i, k) - Ahead(i, j)
  <1>1. IdxMod \in Nat \ {0} /\ Indices = 0 .. IdxMod - 1
    BY QueueAssumption, SMTT(60) DEF Indices
  <1>2. Incr(i) = (IF i = IdxMod - 1 THEN 0 ELSE i + 1) /\ Incr(j) = IF j = IdxMod - 1 THEN 0 ELSE j + 1
    BY IncrIs
  <1> QED
    BY <1>1, <1>2, SMTT(60) DEF Ahead

\* The position of index j, counted from index i.
LEMMA PosOf ==
  ASSUME NEW i \in Indices, NEW j \in Indices
  PROVE  (i + Ahead(i, j)) % QSZ = j % QSZ
  <1>1. IdxMod \in Nat \ {0} /\ Indices = 0 .. IdxMod - 1 /\ j \in Nat
    BY QueueAssumption, SMTT(60) DEF Indices
  <1>2. i + Ahead(i, j) = IF i <= j THEN j ELSE j + IdxMod
    BY <1>1, SMTT(60) DEF Ahead
  <1> QED
    BY <1>1, <1>2, WrapPos

\* Positions from the next index.
LEMMA PosNext ==
  ASSUME NEW i \in Indices, NEW n \in Nat
  PROVE  (Incr(i) + n) % QSZ = (i + (n + 1)) % QSZ
  <1>1. IdxMod \in Nat \ {0} /\ i \in Nat
    BY QueueAssumption, SMTT(60) DEF Indices
  <1>2. CASE i = IdxMod - 1
    <2>1. Incr(i) + n = n /\ i + (n + 1) = n + IdxMod
      BY <1>1, <1>2, IncrIs, SMTT(60)
    <2> QED
      BY <2>1, WrapPos
  <1>3. CASE i # IdxMod - 1
    <2>1. Incr(i) + n = i + (n + 1)
      BY <1>1, <1>3, IncrIs, SMTT(60)
    <2> QED
      BY <2>1
  <1> QED
    BY <1>2, <1>3

\* A position is one of the ring's.
LEMMA PosType ==
  ASSUME NEW s \in Images, NEW n \in Nat
  PROVE  Pos(s, n) \in Slots /\ HeadAt(s, n) \in Slots
  <1>1. s.lastUsed \in Nat /\ s.avail \in [Slots -> Slots]
    BY QueueAssumption, SMTT(60) DEF Images, Indices
  <1>2. s.lastUsed + n \in Nat /\ QSZ \in Nat \ {0}
    BY <1>1, QueueAssumption, SMTT(60)
  <1>3. Pos(s, n) \in Slots
    BY <1>2, Division DEF Pos, Slots
  <1> QED
    BY <1>1, <1>3 DEF HeadAt

-----------------------------------------------------------------------------
(***************************************************************************)
(* Chains.                                                                 *)
(***************************************************************************)

\* A chain is of one to three descriptors.
LEMMA ChainLens == \A r : ChainLen(r) \in 1 .. 3
  BY SMTT(60) DEF ChainLen

\* A chain stays while its descriptors and its request do.
LEMMA ChainKept ==
  ASSUME NEW s, NEW z, NEW h, NEW u, Chained(s, h, u), z.req[u] = s.req[u],
         \A i \in Slots : s.desc[i].tag = u => z.desc[i] = s.desc[i]
  PROVE  Chained(z, h, u)
  <1> DEFINE n == ChainLen(s.req[u])
  <1>1. n <= QSZ /\ n = ChainLen(z.req[u])
    BY DEF Chained
  <1>2. PICK c \in [1 .. n -> Slots] : c[1] = h /\ Chain(s.desc, c, n, u)
    BY DEF Chained
  <1> HIDE DEF n
  <1>3. \A k \in 1 .. n : z.desc[c[k]] = s.desc[c[k]]
    BY <1>2 DEF Chain
  <1>4. Chain(z.desc, c, n, u)
    BY <1>2, <1>3 DEF Chain
  <1> QED
    BY <1>1, <1>2, <1>4 DEF Chained

\* What collect_chain finds of a chain: descriptors of the same slot, at least
\* two where the request has as many.
LEMMA ChainCollected ==
  ASSUME Captured \in Images, NEW h \in Slots, NEW t \in Tags, Chained(Captured, h, t)
  PROVE  LET x == CollectChain(h)
         IN desc[x[Len(x)]].tag = t /\ (ChainLen(req[t]) >= 2 => Len(x) >= 2)
  <1> DEFINE n == ChainLen(req[t])
             x == CollectChain(h)
             All == UNION {[1 .. m -> Slots] : m \in 1 .. QSZ}
  <1>0. QSZ \in Nat \ {0} /\ Slots = 0 .. QSZ - 1
    BY QueueAssumption DEF Slots
  <1>1. n \in 1 .. 3
    BY ChainLens
  <1>2. n <= QSZ /\ Captured.desc = desc /\ Captured.req = req
    BY DEF Chained, Captured
  <1>3. PICK c \in [1 .. n -> Slots] :
          /\ c[1] = h
          /\ \A k \in 1 .. n : /\ desc[c[k]].tag = t
                               /\ desc[c[k]].more <=> k < n
                               /\ k < n => desc[c[k]].next = c[k + 1]
    BY <1>2 DEF Chained, Chain
  <1> HIDE DEF n
  <1>4. c \in All /\ Len(c) = n
    BY <1>0, <1>1, <1>2, <1>3, SMTT(60)
  <1>5. Linked(c) /\ Stops(c)
    BY <1>0, <1>1, <1>3, <1>4, SMTT(60) DEF Linked, Stops
  <1>6. x \in All /\ x[1] = h /\ Linked(x) /\ Stops(x)
    <2>1. ~(h >= QSZ)
      BY <1>0, SMTT(60)
    <2> QED
      BY <1>3, <1>4, <1>5, <2>1 DEF CollectChain
  <1>7. PICK m \in 1 .. QSZ : x \in [1 .. m -> Slots]
    BY <1>6
  <1>8. Len(x) = m /\ m \in Nat
    BY <1>0, <1>7, SMTT(60)
  <1> HIDE DEF x
  <1>9. /\ \A k \in 1 .. m - 1 : desc[x[k]].more /\ desc[x[k]].next = x[k + 1]
        /\ m = QSZ \/ ~desc[x[m]].more \/ desc[x[m]].next >= QSZ
    BY <1>6, <1>8 DEF Linked, Stops
  <1>10. x[1] = c[1]
    BY <1>3, <1>6
  <1>11. m >= 2 => n >= 2 /\ x[2] = c[2]
    BY <1>1, <1>3, <1>8, <1>9, <1>10, SMTT(60)
  <1>12. m >= 3 => n >= 3 /\ x[3] = c[3]
    BY <1>1, <1>3, <1>8, <1>9, <1>11, SMTT(60)
  <1>13. ~(m >= 4)
    BY <1>1, <1>3, <1>8, <1>9, <1>12, SMTT(60)
  <1>14. desc[x[m]].tag = t
    BY <1>1, <1>3, <1>7, <1>8, <1>10, <1>11, <1>12, <1>13, SMTT(60)
  <1>15. n >= 2 => m >= 2
    <2> SUFFICES ASSUME n >= 2, m = 1 PROVE FALSE
      BY <1>0, <1>7, SMTT(60)
    <2>1. desc[c[1]].more /\ desc[c[1]].next \in Slots
      BY <1>1, <1>3, SMTT(60)
    <2> QED
      BY <1>0, <1>1, <1>2, <1>9, <1>10, <2>1, SMTT(60)
  <1> QED
    BY <1>8, <1>14, <1>15 DEF x, n

-----------------------------------------------------------------------------
(***************************************************************************)
(* Steps of the rings.                                                     *)
(***************************************************************************)

\* The ring entries an image names: s has the n-th chain in flight.
InFlight(s, n) ==
  /\ TagAt(s, n) \in Tags /\ s.req[TagAt(s, n)] # None
  /\ Chained(s, HeadAt(s, n), TagAt(s, n))
  /\ n < Pushed(s) => s.used[Pos(s, n)] = HeadAt(s, n)
  /\ s.ret[TagAt(s, n)] # None <=> n < Pushed(s)

\* The fields of an image.
LEMMA ImageTypes ==
  ASSUME NEW s \in Images
  PROVE  /\ s.req \in Calls /\ s.ret \in Rets /\ s.page \in [Tags -> BOOLEAN]
         /\ s.desc \in [Slots -> [tag : Tags \cup {None}, next : Slots, more : BOOLEAN]]
         /\ s.avail \in [Slots -> Slots] /\ s.used \in [Slots -> Slots]
         /\ s.availIdx \in Indices /\ s.usedIdx \in Indices /\ s.lastUsed \in Indices
         /\ Posted(s) \in Nat /\ Pushed(s) \in Nat /\ s.lastUsed \in Nat
         /\ QSZ \in Nat \ {0} /\ IdxMod \in Nat /\ QSZ <= IdxMod - 1
  <1>1. QSZ \in Nat \ {0} /\ IdxMod \in Nat /\ QSZ < IdxMod /\ Indices = 0 .. IdxMod - 1
    BY QueueAssumption DEF Indices
  <1>2. s.availIdx \in Indices /\ s.usedIdx \in Indices /\ s.lastUsed \in Indices
    BY DEF Images
  <1>3. Posted(s) \in 0 .. IdxMod - 1 /\ Pushed(s) \in 0 .. IdxMod - 1
    BY <1>2, Aheads DEF Posted, Pushed
  <1> QED
    BY <1>1, <1>2, <1>3, SMTT(60) DEF Images

\* The positions behind the last chain posted and behind the last one pushed.
LEMMA PosHere ==
  ASSUME NEW s \in Images
  PROVE  /\ s.availIdx % QSZ = Pos(s, Posted(s)) /\ Pos(s, Posted(s)) \in Slots
         /\ s.usedIdx % QSZ = Pos(s, Pushed(s)) /\ Pos(s, Pushed(s)) \in Slots
  <1>1. s.availIdx % QSZ = Pos(s, Posted(s)) /\ s.usedIdx % QSZ = Pos(s, Pushed(s))
    BY ImageTypes, PosOf DEF Posted, Pushed, Pos
  <1> QED
    BY <1>1, ImageTypes, PosType

\* The entries of a ring do not overlap.
LEMMA PosApart ==
  ASSUME NEW s \in Images, NEW n \in 0 .. QSZ - 1, NEW m \in 0 .. QSZ - 1, n # m
  PROVE  Pos(s, n) # Pos(s, m)
  BY ImageTypes, PosDiffer DEF Pos

\* RingInv, with its parts named.
LEMMA RingParts ==
  ASSUME NEW s
  PROVE  RingInv(s) <=>
           /\ Pushed(s) <= Posted(s) /\ Posted(s) <= QSZ
           /\ \A n \in 0 .. Posted(s) - 1 :
                InFlight(s, n) /\ \A m \in 0 .. Posted(s) - 1 : TagAt(s, n) = TagAt(s, m) => n = m
           /\ \A t \in Tags : s.req[t] # None => \E n \in 0 .. Posted(s) - 1 : TagAt(s, n) = t
           /\ \A t \in Tags : s.req[t] = None => s.ret[t] = None /\ s.page[t]
  BY DEF RingInv, InFlight

\* What is posted and not answered lies between the two indices.
LEMMA Gap ==
  ASSUME NEW s \in Images, RingInv(s)
  PROVE  Ahead(s.usedIdx, s.availIdx) = Posted(s) - Pushed(s)
  <1>1. Ahead(s.lastUsed, s.usedIdx) <= Ahead(s.lastUsed, s.availIdx)
    BY RingParts DEF Posted, Pushed
  <1>2. s.availIdx \in Indices /\ s.usedIdx \in Indices /\ s.lastUsed \in Indices
    BY ImageTypes
  <1>3. Ahead(s.usedIdx, s.availIdx) = Ahead(s.lastUsed, s.availIdx) - Ahead(s.lastUsed, s.usedIdx)
    BY <1>1, <1>2, Aheads
  <1> QED
    BY <1>3 DEF Posted, Pushed

\* Image z is s with r posted in slot t, in the descriptors c.
Posting(s, z, t, r, c) ==
  /\ s.req[t] = None /\ z.req = [s.req EXCEPT ![t] = r] /\ z.ret = s.ret /\ z.page = s.page
  /\ z.avail = [s.avail EXCEPT ![s.availIdx % QSZ] = c[1]] /\ z.availIdx = Incr(s.availIdx)
  /\ z.used = s.used /\ z.usedIdx = s.usedIdx /\ z.lastUsed = s.lastUsed
  /\ \A i \in Slots : s.desc[i] # Free => z.desc[i] = s.desc[i]

\* The driver posts a chain: it is the last in flight.
LEMMA PostImage ==
  ASSUME NEW s \in Images, RingInv(s), NEW z \in Images, NEW t \in Tags,
         NEW r, r # None, NEW n, n = ChainLen(r), n <= QSZ,
         NEW c \in [1 .. n -> {i \in Slots : s.desc[i] = Free}],
         Posting(s, z, t, r, c), Chain(z.desc, c, n, t), Posted(s) <= QSZ - 1
  PROVE  RingInv(z)
  <1> USE DEF Posting
  <1> DEFINE P == Posted(s)
             Q == 0 .. P - 1
  <1>1. n \in 1 .. 3 /\ 1 \in 1 .. n
    BY ChainLens, SMTT(60)
  <1>2. c[1] \in Slots /\ s.desc[c[1]] = Free
    BY <1>1, SMTT(60)
  <1>3. P <= QSZ - 1 /\ P \in Nat /\ QSZ \in Nat \ {0} /\ Pushed(s) \in Nat /\ Pushed(s) <= P
    BY ImageTypes, RingParts
  <1>4. Posted(z) = P + 1 /\ Pushed(z) = Pushed(s)
    BY <1>3, ImageTypes, Aheads, SMTT(60) DEF Posted, Pushed
  <1>5. s.availIdx % QSZ = Pos(s, P) /\ Pos(s, P) \in Slots
    BY PosHere
  <1>6. \A m : Pos(z, m) = Pos(s, m)
    BY DEF Pos
  <1>7. HeadAt(z, P) = c[1] /\ TagAt(z, P) = t
    BY <1>1, <1>5, <1>6, ImageTypes, SMTT(60) DEF HeadAt, TagAt, Chain
  <1>8. ASSUME NEW m \in Q
        PROVE  /\ HeadAt(z, m) = HeadAt(s, m) /\ TagAt(z, m) = TagAt(s, m)
               /\ TagAt(s, m) \in Tags \ {t} /\ InFlight(z, m)
    <2>1. m \in 0 .. QSZ - 1 /\ P \in 0 .. QSZ - 1 /\ m # P /\ m \in Nat
      BY <1>3, SMTT(60)
    <2>2. Pos(s, m) # Pos(s, P) /\ Pos(s, m) \in Slots /\ HeadAt(s, m) \in Slots
      <3> HIDE DEF P, Posting
      <3>1. Pos(s, m) # Pos(s, P)
        BY <2>1, PosApart
      <3>2. Pos(s, m) \in Slots /\ HeadAt(s, m) \in Slots
        BY <2>1, PosType
      <3> QED
        BY <3>1, <3>2
    <2>3. HeadAt(z, m) = HeadAt(s, m)
      BY <1>5, <1>6, <2>2, ImageTypes, SMTT(60) DEF HeadAt
    <2>4. InFlight(s, m)
      BY RingParts
    <2>5. s.desc[HeadAt(s, m)] # Free
      BY <2>4, NoneAssumption, SMTT(60) DEF InFlight, TagAt, Free
    <2>6. TagAt(z, m) = TagAt(s, m)
      BY <2>2, <2>3, <2>5 DEF TagAt
    <2>7. TagAt(s, m) \in Tags \ {t}
      BY <2>4 DEF InFlight
    <2>8. z.req[TagAt(s, m)] = s.req[TagAt(s, m)]
      BY <2>7, ImageTypes, SMTT(60) DEF Calls
    <2>9. Chained(z, HeadAt(s, m), TagAt(s, m))
      <3> DEFINE u == TagAt(s, m)
                 h == HeadAt(s, m)
      <3>1. \A i \in Slots : s.desc[i].tag = u => z.desc[i] = s.desc[i]
        BY <2>7, NoneAssumption, SMTT(60) DEF Free
      <3>2. Chained(s, h, u) /\ z.req[u] = s.req[u]
        BY <2>4, <2>8 DEF InFlight
      <3> HIDE DEF u, h, Posting
      <3>3. Chained(z, h, u)
        BY <3>1, <3>2, ChainKept
      <3> QED
        BY <3>3 DEF u, h
    <2> QED
      BY <1>4, <1>6, <2>3, <2>4, <2>6, <2>7, <2>8, <2>9 DEF InFlight
  <1>9. InFlight(z, P)
    <2>1. z.req[t] = r
      BY ImageTypes, SMTT(60) DEF Calls
    <2>2. Chained(z, c[1], t)
      <3>1. c \in [1 .. n -> Slots]
        OBVIOUS
      <3> QED
        BY <2>1, <3>1 DEF Chained
    <2>3. s.ret[t] = None
      BY RingParts
    <2>4. ~(P < Pushed(z))
      BY <1>3, <1>4, SMTT(60)
    <2> QED
      BY <1>7, <2>1, <2>2, <2>3, <2>4 DEF InFlight
  <1>10. 0 .. Posted(z) - 1 = Q \cup {P} /\ Pushed(z) <= Posted(z) /\ Posted(z) <= QSZ
    BY <1>3, <1>4, SMTT(60)
  <1>11. ASSUME NEW k \in Q \cup {P}
         PROVE  InFlight(z, k) /\ \A m \in Q \cup {P} : TagAt(z, k) = TagAt(z, m) => k = m
    <2>1. \A m \in Q : TagAt(s, k) = TagAt(s, m) /\ k \in Q => k = m
      BY RingParts
    <2> QED
      BY <1>7, <1>8, <1>9, <2>1
  <1>12. ASSUME NEW u \in Tags, z.req[u] # None PROVE \E m \in Q \cup {P} : TagAt(z, m) = u
    <2>1. CASE u = t
      BY <1>7, <2>1
    <2>2. CASE u # t
      <3>1. s.req[u] # None
        BY <1>12, <2>2, ImageTypes, SMTT(60) DEF Calls
      <3> QED
        BY <1>8, <3>1, RingParts, SMTT(60)
    <2> QED
      BY <2>1, <2>2
  <1>13. \A u \in Tags : z.req[u] = None => z.ret[u] = None /\ z.page[u]
    <2>1. \A u \in Tags : z.req[u] = None => s.req[u] = None
      BY ImageTypes, SMTT(60) DEF Calls
    <2> QED
      BY <2>1, RingParts, SMTT(60)
  <1> HIDE DEF P, Q
  <1> QED
    BY <1>10, <1>11, <1>12, <1>13, RingParts

\* Image z is image s with the answer a to the request in slot t.
Answering(s, z, t, a) ==
  /\ z.req = s.req /\ z.desc = s.desc /\ z.avail = s.avail /\ z.availIdx = s.availIdx
  /\ z.lastUsed = s.lastUsed /\ z.ret = [s.ret EXCEPT ![t] = a]
  /\ z.used = [s.used EXCEPT ![s.usedIdx % QSZ] = HeadAt(s, Pushed(s))]
  /\ z.usedIdx = Incr(s.usedIdx)
  /\ \A u \in Tags \ {t} : z.page[u] = s.page[u]

\* The device answers the first chain it has not: it is the last on the used ring.
LEMMA ServeImage ==
  ASSUME NEW s \in Images, RingInv(s), NEW z \in Images, Pushed(s) < Posted(s),
         NEW t, t = TagAt(s, Pushed(s)), NEW a, a # None, Answering(s, z, t, a)
  PROVE  RingInv(z)
  <1> USE DEF Answering
  <1> DEFINE P == Posted(s)
             U == Pushed(s)
             Q == 0 .. P - 1
  <1>1. /\ P \in Nat /\ U \in Nat /\ U < P /\ P <= QSZ /\ QSZ \in Nat \ {0} /\ U \in Q
        /\ IdxMod \in Nat /\ QSZ <= IdxMod - 1
    BY ImageTypes, RingParts, SMTT(60)
  <1>2. Posted(z) = P /\ Pushed(z) = U + 1
    BY <1>1, ImageTypes, Aheads, SMTT(60) DEF Posted, Pushed
  <1>3. s.usedIdx % QSZ = Pos(s, U) /\ Pos(s, U) \in Slots
    BY PosHere
  <1>4. \A m : Pos(z, m) = Pos(s, m) /\ HeadAt(z, m) = HeadAt(s, m) /\ TagAt(z, m) = TagAt(s, m)
    BY DEF Pos, HeadAt, TagAt
  <1>5. t \in Tags /\ s.req[t] # None
    BY <1>1, RingParts DEF InFlight
  <1>6. ASSUME NEW m \in Q PROVE InFlight(z, m)
    <2>1. InFlight(s, m)
      BY RingParts
    <2>2. Chained(z, HeadAt(z, m), TagAt(z, m))
      BY <1>4, <2>1, ChainKept DEF InFlight
    <2>3. CASE m = U
      BY <1>1, <1>2, <1>3, <1>4, <1>5, <2>1, <2>2, <2>3, ImageTypes, SMTT(60) DEF InFlight, Rets
    <2>4. CASE m # U
      <3>1. TagAt(s, m) # t
        BY <1>1, <2>4, RingParts
      <3>2. Pos(s, m) # Pos(s, U)
        <4>1. m \in 0 .. QSZ - 1 /\ U \in 0 .. QSZ - 1
          BY <1>1, SMTT(60)
        <4> QED
          BY <2>4, <4>1, PosApart
      <3>3. z.used[Pos(s, m)] = s.used[Pos(s, m)]
        BY <1>1, <1>3, <3>2, ImageTypes, PosType, SMTT(60)
      <3>4. z.ret[TagAt(s, m)] = s.ret[TagAt(s, m)]
        BY <2>1, <3>1, ImageTypes, SMTT(60) DEF InFlight, Rets
      <3>5. m < U <=> m < Pushed(z)
        BY <1>1, <1>2, <2>4, SMTT(60)
      <3> QED
        BY <1>4, <2>1, <2>2, <3>3, <3>4, <3>5 DEF InFlight
    <2> QED
      BY <2>3, <2>4
  <1>7. \A u \in Tags : z.req[u] = None => z.ret[u] = None /\ z.page[u]
    BY <1>5, RingParts, ImageTypes, SMTT(60) DEF Rets
  <1>8. Pushed(z) <= Posted(z) /\ Posted(z) <= QSZ
    BY <1>1, <1>2, SMTT(60)
  <1>9. /\ \A k \in Q : \A m \in Q : TagAt(z, k) = TagAt(z, m) => k = m
        /\ \A u \in Tags : z.req[u] # None => \E k \in Q : TagAt(z, k) = u
    BY <1>4, RingParts, SMTT(60)
  <1>10. Q = 0 .. Posted(z) - 1
    BY <1>2
  <1> HIDE DEF P, Q, U
  <1> QED
    BY <1>6, <1>7, <1>8, <1>9, <1>10, RingParts

\* Image z is image s after the driver took the answer of slot t.
Finished(s, z, t) ==
  /\ z.req = [s.req EXCEPT ![t] = None] /\ z.ret = [s.ret EXCEPT ![t] = None]
  /\ z.page = [s.page EXCEPT ![t] = TRUE]
  /\ z.desc = [i \in Slots |-> IF s.desc[i].tag = t THEN Free ELSE s.desc[i]]
  /\ z.avail = [s.avail EXCEPT ![s.lastUsed % QSZ] = 0]
  /\ z.used = [s.used EXCEPT ![s.lastUsed % QSZ] = 0]
  /\ z.lastUsed = Incr(s.lastUsed) /\ z.availIdx = s.availIdx /\ z.usedIdx = s.usedIdx

\* The driver takes the first answer: its chain is gone from the rings.
LEMMA FinishImage ==
  ASSUME NEW s \in Images, RingInv(s), NEW z \in Images, 0 < Pushed(s), NEW t, t = TagAt(s, 0),
         Finished(s, z, t)
  PROVE  RingInv(z)
  <1>0. /\ z.req = [s.req EXCEPT ![t] = None] /\ z.ret = [s.ret EXCEPT ![t] = None]
        /\ z.page = [s.page EXCEPT ![t] = TRUE]
        /\ z.desc = [i \in Slots |-> IF s.desc[i].tag = t THEN Free ELSE s.desc[i]]
        /\ z.avail = [s.avail EXCEPT ![s.lastUsed % QSZ] = 0]
        /\ z.used = [s.used EXCEPT ![s.lastUsed % QSZ] = 0]
        /\ z.lastUsed = Incr(s.lastUsed) /\ z.availIdx = s.availIdx /\ z.usedIdx = s.usedIdx
    BY DEF Finished
  <1> DEFINE P == Posted(s)
             U == Pushed(s)
             Q == 0 .. P - 1
             N == 0 .. P - 2
  <1>1. /\ P \in Nat /\ U \in Nat /\ U <= P /\ 0 < U /\ P <= QSZ /\ QSZ \in Nat \ {0} /\ 0 \in Q
        /\ s.lastUsed \in Indices /\ s.lastUsed \in Nat
    BY ImageTypes, RingParts, SMTT(60)
  <1>2. Posted(z) = P - 1 /\ Pushed(z) = U - 1
    BY <1>0, <1>1, ImageTypes, Aheads, SMTT(60) DEF Posted, Pushed
  <1>3. s.lastUsed % QSZ = Pos(s, 0) /\ Pos(s, 0) \in Slots
    BY <1>1, PosType, SMTT(60) DEF Pos
  <1>4. t \in Tags
    BY <1>1, RingParts DEF InFlight
  <1>5. ASSUME NEW m \in N
        PROVE  /\ m + 1 \in Q /\ InFlight(s, m + 1)
               /\ TagAt(z, m) = TagAt(s, m + 1) /\ TagAt(s, m + 1) # t
               /\ InFlight(z, m)
    <2>1. m \in Nat /\ m + 1 \in Nat /\ m + 1 \in Q /\ m + 1 # 0 /\ m + 1 \in 0 .. QSZ - 1 /\ 0 \in 0 .. QSZ - 1
      BY <1>1, SMTT(60)
    <2>2. InFlight(s, m + 1) /\ TagAt(s, m + 1) # t
      BY <1>1, <2>1, RingParts
    <2>3. Pos(z, m) = Pos(s, m + 1)
      BY <1>0, <1>1, <2>1, PosNext DEF Pos
    <2>4. Pos(s, m + 1) # Pos(s, 0) /\ Pos(s, m + 1) \in Slots /\ HeadAt(s, m + 1) \in Slots
      BY <2>1, PosApart, PosType
    <2>5. HeadAt(z, m) = HeadAt(s, m + 1) /\ z.used[Pos(z, m)] = s.used[Pos(s, m + 1)]
      BY <1>0, <1>3, <2>3, <2>4, ImageTypes, SMTT(60) DEF HeadAt
    <2>6. TagAt(z, m) = TagAt(s, m + 1)
      BY <1>0, <2>2, <2>4, <2>5, SMTT(60) DEF TagAt
    <2>7. LET u == TagAt(s, m + 1)
          IN u \in Tags /\ z.req[u] = s.req[u] /\ z.ret[u] = s.ret[u]
      BY <1>0, <2>2, ImageTypes, SMTT(60) DEF InFlight, Calls, Rets
    <2>8. Chained(z, HeadAt(s, m + 1), TagAt(s, m + 1))
      <3>1. \A i \in Slots : s.desc[i].tag = TagAt(s, m + 1) => z.desc[i] = s.desc[i]
        BY <1>0, <2>2
      <3>2. Chained(s, HeadAt(s, m + 1), TagAt(s, m + 1))
        BY <2>2 DEF InFlight
      <3> QED
        BY <2>7, <3>1, <3>2, ChainKept
    <2>9. m < Pushed(z) <=> m + 1 < U
      BY <1>1, <1>2, <2>1, SMTT(60)
    <2> QED
      BY <2>1, <2>2, <2>5, <2>6, <2>7, <2>8, <2>9 DEF InFlight
  <1>6. 0 .. Posted(z) - 1 = N /\ Pushed(z) <= Posted(z) /\ Posted(z) <= QSZ
    BY <1>1, <1>2, SMTT(60)
  <1>7. ASSUME NEW k \in N, NEW m \in N, TagAt(z, k) = TagAt(z, m) PROVE k = m
    <2>1. k + 1 = m + 1
      <3>1. k + 1 \in Q /\ m + 1 \in Q /\ TagAt(s, k + 1) = TagAt(s, m + 1)
        BY <1>5, <1>7
      <3> QED
        BY <3>1, RingParts
    <2> QED
      BY <1>1, <2>1, SMTT(60)
  <1>8. ASSUME NEW u \in Tags, z.req[u] # None PROVE \E m \in N : TagAt(z, m) = u
    <2>1. u # t /\ s.req[u] # None
      BY <1>0, <1>8, ImageTypes, SMTT(60) DEF Calls
    <2>2. PICK k \in Q : TagAt(s, k) = u
      BY <2>1, RingParts
    <2>3. k # 0
      BY <2>1, <2>2
    <2>4. k - 1 \in N /\ (k - 1) + 1 = k
      BY <1>1, <2>3, SMTT(60)
    <2> QED
      BY <1>5, <2>2, <2>4
  <1>9. \A u \in Tags : z.req[u] = None => z.ret[u] = None /\ z.page[u]
    <2>1. \A u \in Tags \ {t} : z.req[u] = s.req[u] /\ z.ret[u] = s.ret[u] /\ z.page[u] = s.page[u]
      BY <1>0, ImageTypes, SMTT(60) DEF Calls, Rets
    <2>2. z.ret[t] = None /\ z.page[t]
      BY <1>0, <1>4, ImageTypes, SMTT(60) DEF Rets
    <2> QED
      BY <2>1, <2>2, RingParts
  <1> HIDE DEF P, Q, N, U
  <1> QED
    BY <1>5, <1>6, <1>7, <1>8, <1>9, RingParts

\* Other fields do not matter.
LEMMA SameRings ==
  ASSUME NEW s, NEW z, RingInv(s), z.req = s.req, z.ret = s.ret, z.page = s.page, z.desc = s.desc,
         z.avail = s.avail, z.availIdx = s.availIdx, z.used = s.used, z.usedIdx = s.usedIdx,
         z.lastUsed = s.lastUsed
  PROVE  RingInv(z)
  <1>1. Posted(z) = Posted(s) /\ Pushed(z) = Pushed(s)
    BY DEF Posted, Pushed
  <1>2. \A n : Pos(z, n) = Pos(s, n) /\ HeadAt(z, n) = HeadAt(s, n) /\ TagAt(z, n) = TagAt(s, n)
    BY DEF TagAt, HeadAt, Pos
  <1>3. ASSUME NEW n, InFlight(s, n) PROVE InFlight(z, n)
    <2>1. Chained(z, HeadAt(s, n), TagAt(s, n))
      BY <1>3, ChainKept DEF InFlight
    <2> QED
      BY <1>1, <1>2, <1>3, <2>1 DEF InFlight
  <1>4. /\ Pushed(z) <= Posted(z) /\ Posted(z) <= QSZ
        /\ \A t \in Tags : z.req[t] # None => \E n \in 0 .. Posted(z) - 1 : TagAt(z, n) = t
        /\ \A t \in Tags : z.req[t] = None => z.ret[t] = None /\ z.page[t]
    BY <1>1, <1>2, RingParts, SMTT(60)
  <1>5. \A n \in 0 .. Posted(s) - 1 :
          InFlight(s, n) /\ \A m \in 0 .. Posted(s) - 1 : TagAt(s, n) = TagAt(s, m) => n = m
    BY RingParts
  <1>6. \A n \in 0 .. Posted(z) - 1 :
          InFlight(z, n) /\ \A m \in 0 .. Posted(z) - 1 : TagAt(z, n) = TagAt(z, m) => n = m
    BY <1>1, <1>2, <1>3, <1>5
  <1> QED
    BY <1>4, <1>6, RingParts

-----------------------------------------------------------------------------
(***************************************************************************)
(* The state as an image.                                                  *)
(***************************************************************************)

\* The device has consumed what it has pushed, and serves no more than is posted.
DeviceInv ==
  IF proc = None THEN queue.lastAvail = usedIdx
  ELSE proc.lastAvail = usedIdx /\ Ahead(usedIdx, proc.until) <= Ahead(usedIdx, availIdx)

\* The rings of a snapshot are whole, and its device has consumed what it has pushed.
SavedInv ==
  saved # None =>
    /\ RingInv(saved) /\ saved.queue.lastAvail = saved.usedIdx
    /\ \A t \in Tags : saved.req[t] \in RequestsOf(kind) \cup {None}

\* The inductive invariant.  Stores seen in order leave none under way.
QueueInv == TypeOK /\ stores = <<>> /\ RingInv(Captured) /\ DeviceInv /\ SavedInv

\* The types of the guest's memory and of the device.
GuestTypes ==
  /\ req \in Calls /\ ret \in Rets /\ page \in [Tags -> BOOLEAN]
  /\ desc \in [Slots -> [tag : Tags \cup {None}, next : Slots, more : BOOLEAN]]
  /\ avail \in [Slots -> Slots] /\ availIdx \in Indices
  /\ used \in [Slots -> Slots] /\ usedIdx \in Indices /\ lastUsed \in Indices
  /\ kick \in BOOLEAN /\ isr \in BOOLEAN
QueueTypes ==
  queue \in [num : {0, QSZ}, ready : BOOLEAN, lastAvail : Indices] /\ interruptStatus \in BOOLEAN

\* An image has its fields.
LEMMA NowFields ==
  /\ Captured.req = req /\ Captured.ret = ret /\ Captured.page = page /\ Captured.desc = desc
  /\ Captured.avail = avail /\ Captured.availIdx = availIdx /\ Captured.used = used
  /\ Captured.usedIdx = usedIdx /\ Captured.lastUsed = lastUsed
  /\ Captured.kick = kick /\ Captured.isr = isr
  /\ Captured.queue = queue /\ Captured.interruptStatus = interruptStatus
  BY DEF Captured

\* The same after a step.
LEMMA ThenFields ==
  /\ Captured'.req = req' /\ Captured'.ret = ret' /\ Captured'.page = page'
  /\ Captured'.desc = desc' /\ Captured'.avail = avail' /\ Captured'.availIdx = availIdx'
  /\ Captured'.used = used' /\ Captured'.usedIdx = usedIdx' /\ Captured'.lastUsed = lastUsed'
  /\ Captured'.kick = kick' /\ Captured'.isr = isr'
  /\ Captured'.queue = queue' /\ Captured'.interruptStatus = interruptStatus'
  BY DEF Captured

\* The types of an image are those of its fields.
LEMMA NowTypes == Captured \in Images <=> GuestTypes /\ QueueTypes
  BY DEF Captured, Images, GuestTypes, QueueTypes

\* The same after a step.
LEMMA ThenTypes == GuestTypes' /\ QueueTypes' => Captured' \in Images
  BY DEF Captured, Images, GuestTypes, QueueTypes

\* And the other way, for an image s that becomes the state.
LEMMA FromImage ==
  ASSUME NEW s \in Images
  PROVE  /\ s.req \in Calls /\ s.ret \in Rets /\ s.page \in [Tags -> BOOLEAN]
         /\ s.desc \in [Slots -> [tag : Tags \cup {None}, next : Slots, more : BOOLEAN]]
         /\ s.avail \in [Slots -> Slots] /\ s.availIdx \in Indices
         /\ s.used \in [Slots -> Slots] /\ s.usedIdx \in Indices /\ s.lastUsed \in Indices
         /\ s.kick \in BOOLEAN /\ s.isr \in BOOLEAN
         /\ s.queue \in [num : {0, QSZ}, ready : BOOLEAN, lastAvail : Indices]
         /\ s.interruptStatus \in BOOLEAN
  BY DEF Images

\* The chains not served yet: while process has one to serve there is one.
LEMMA Unserved ==
  ASSUME QueueInv, proc # None, proc.lastAvail # proc.until
  PROVE  /\ Pushed(Captured) < Posted(Captured)
         /\ proc.lastAvail = usedIdx /\ usedIdx \in Indices /\ proc \in Locals
  <1>1. /\ proc \in Locals /\ Captured \in Images /\ RingInv(Captured)
        /\ proc.lastAvail = usedIdx /\ Ahead(usedIdx, proc.until) <= Ahead(usedIdx, availIdx)
    BY DEF QueueInv, TypeOK, DeviceInv
  <1>2. proc.until \in Indices /\ usedIdx \in Indices /\ availIdx \in Indices /\ lastUsed \in Indices
    BY <1>1, NowTypes DEF Locals, GuestTypes
  <1>3. IdxMod \in Nat
    BY QueueAssumption
  <1>4. Ahead(usedIdx, proc.until) \in 0 .. IdxMod - 1 /\ Ahead(usedIdx, proc.until) # 0
    BY <1>1, <1>2, Aheads
  <1>6. Pushed(Captured) <= Posted(Captured) /\ Posted(Captured) \in Nat /\ Pushed(Captured) \in Nat
    BY <1>1, ImageTypes, RingParts
  <1>7. Ahead(usedIdx, availIdx) = Posted(Captured) - Pushed(Captured)
    BY <1>1, Gap, NowFields
  <1> QED
    BY <1>1, <1>2, <1>3, <1>4, <1>6, <1>7, SMTT(60)

\* The stores of a chain that is served: an answer, a ring entry and the index.
ChainStores(t, a, k, h, i) ==
  << StoreOf("ret", t, 0, a, 0), StoreOf("used", None, k, None, h), StoreOf("usedIdx", None, 0, None, i) >>
Stored(t, a, k, h, i) ==
  /\ RetAfter(ChainStores(t, a, k, h, i)) = [ret EXCEPT ![t] = a]
  /\ UsedAfter(ChainStores(t, a, k, h, i)) = [used EXCEPT ![k] = h]
  /\ UsedIdxAfter(ChainStores(t, a, k, h, i)) = i

\* What they do to the guest's memory.
LEMMA ThreeStores ==
  ASSUME NEW t \in Tags, NEW a, NEW k \in Slots, NEW h, NEW i,
         ret \in Rets, used \in [Slots -> Slots]
  PROVE  Stored(t, a, k, h, i)
  <1> DEFINE sts == ChainStores(t, a, k, h, i)
  <1>1. /\ DOMAIN sts = {1, 2, 3}
        /\ sts[1] = StoreOf("ret", t, 0, a, 0) /\ sts[2] = StoreOf("used", None, k, None, h)
        /\ sts[3] = StoreOf("usedIdx", None, 0, None, i)
    BY SMTT(60) DEF ChainStores
  <1>2. \A n \in Nat : Newest({n}) = n
    BY SMTT(60) DEF Newest
  <1>3. None \notin Tags
    BY NoneAssumption
  <1> HIDE DEF sts
  <1>4. RetAfter(sts) = [ret EXCEPT ![t] = a]
    <2>1. ret = [u \in Tags |-> ret[u]]
      BY DEF Rets
    <2>2. {n \in DOMAIN sts : sts[n].tag = t} = {1}
      BY <1>1, <1>3, SMTT(60) DEF StoreOf
    <2>3. \A u \in Tags \ {t} : {n \in DOMAIN sts : sts[n].tag = u} = {}
      BY <1>1, <1>3, SMTT(60) DEF StoreOf
    <2>4. sts[1].answer = a
      BY <1>1, SMTT(60) DEF StoreOf
    <2>5. RetAfter(sts)[t] = a
      <3>1. RetAfter(sts)[t] = IF {n \in DOMAIN sts : sts[n].tag = t} = {} THEN ret[t]
                               ELSE sts[Newest({n \in DOMAIN sts : sts[n].tag = t})].answer
        BY DEF RetAfter
      <3> QED
        BY <1>2, <2>2, <2>4, <3>1
    <2>6. ASSUME NEW u \in Tags \ {t} PROVE RetAfter(sts)[u] = ret[u]
      <3>1. RetAfter(sts)[u] = IF {n \in DOMAIN sts : sts[n].tag = u} = {} THEN ret[u]
                               ELSE sts[Newest({n \in DOMAIN sts : sts[n].tag = u})].answer
        BY DEF RetAfter
      <3> QED
        BY <2>3, <3>1
    <2>7. RetAfter(sts) = [u \in Tags |-> RetAfter(sts)[u]]
      BY DEF RetAfter
    <2> QED
      BY <2>1, <2>5, <2>6, <2>7
  <1>5. UsedAfter(sts) = [used EXCEPT ![k] = h]
    <2>2. {n \in DOMAIN sts : sts[n].to = "used" /\ sts[n].at = k} = {2}
      BY <1>1, SMTT(60) DEF StoreOf
    <2>3. \A u \in Slots \ {k} : {n \in DOMAIN sts : sts[n].to = "used" /\ sts[n].at = u} = {}
      BY <1>1, SMTT(60) DEF StoreOf
    <2>4. sts[2].num = h
      BY <1>1, SMTT(60) DEF StoreOf
    <2>5. UsedAfter(sts)[k] = h
      <3>1. UsedAfter(sts)[k] =
              IF {n \in DOMAIN sts : sts[n].to = "used" /\ sts[n].at = k} = {} THEN used[k]
              ELSE sts[Newest({n \in DOMAIN sts : sts[n].to = "used" /\ sts[n].at = k})].num
        BY DEF UsedAfter
      <3> QED
        BY <1>2, <2>2, <2>4, <3>1
    <2>6. ASSUME NEW u \in Slots \ {k} PROVE UsedAfter(sts)[u] = used[u]
      <3>1. UsedAfter(sts)[u] =
              IF {n \in DOMAIN sts : sts[n].to = "used" /\ sts[n].at = u} = {} THEN used[u]
              ELSE sts[Newest({n \in DOMAIN sts : sts[n].to = "used" /\ sts[n].at = u})].num
        BY DEF UsedAfter
      <3> QED
        BY <2>3, <3>1
    <2>7. UsedAfter(sts) = [u \in Slots |-> UsedAfter(sts)[u]]
      BY DEF UsedAfter
    <2> QED
      BY <2>5, <2>6, <2>7
  <1>6. UsedIdxAfter(sts) = i
    <2>1. {n \in DOMAIN sts : sts[n].to = "usedIdx"} = {3}
      BY <1>1, SMTT(60) DEF StoreOf
    <2>2. sts[3].num = i
      BY <1>1, SMTT(60) DEF StoreOf
    <2> QED
      BY <1>2, <2>1, <2>2 DEF UsedIdxAfter
  <1> QED
    BY <1>4, <1>5, <1>6 DEF sts, Stored

\* Without stores under way memory is what it is.
LEMMA NoStores ==
  ASSUME ret \in Rets, used \in [Slots -> Slots]
  PROVE  RetAfter(<<>>) = ret /\ UsedAfter(<<>>) = used /\ UsedIdxAfter(<<>>) = usedIdx
  <1>1. DOMAIN <<>> = {}
    BY SMTT(60)
  <1>2. ret = [t \in Tags |-> ret[t]] /\ used = [k \in Slots |-> used[k]]
    BY DEF Rets
  <1> QED
    BY <1>1, <1>2 DEF RetAfter, UsedAfter, UsedIdxAfter

\* The parts of the invariant after a step.
LEMMA InvThen ==
  ASSUME TypeOK', stores' = <<>>, RingInv(Captured'), DeviceInv', SavedInv'
  PROVE  QueueInv'
  BY DEF QueueInv

\* A snapshot that stays as it is stays whole.
LEMMA SavedKept ==
  ASSUME SavedInv, saved' = saved, kind' = kind
  PROVE  SavedInv'
  BY DEF SavedInv

\* A driver's request is a request.
LEMMA RequestTypes ==
  ASSUME kind \in Kinds, NEW r \in RequestsOf(kind)
  PROVE  r \in Requests /\ r # None
  <1>1. r \in Requests
    BY DEF Requests
  <1> QED
    BY <1>1, NoneAssumption

\* The fields of a descriptor.
LEMMA DescParts ==
  ASSUME NEW d, NEW t, NEW b \in BOOLEAN, NEW x, d = [tag |-> t, more |-> b, next |-> x]
  PROVE  d.tag = t /\ (d.more <=> b) /\ d.next = x
  OBVIOUS

\* Steps that leave the rings alone.
LEMMA RingsKept ==
  ASSUME RingInv(Captured), req' = req, ret' = ret, page' = page, desc' = desc, avail' = avail,
         availIdx' = availIdx, used' = used, usedIdx' = usedIdx, lastUsed' = lastUsed
  PROVE  RingInv(Captured')
  <1>1. /\ Captured'.req = Captured.req /\ Captured'.ret = Captured.ret
        /\ Captured'.page = Captured.page /\ Captured'.desc = Captured.desc
        /\ Captured'.avail = Captured.avail /\ Captured'.availIdx = Captured.availIdx
        /\ Captured'.used = Captured.used /\ Captured'.usedIdx = Captured.usedIdx
        /\ Captured'.lastUsed = Captured.lastUsed
    BY NowFields, ThenFields
  <1> QED
    BY <1>1, SameRings

\* n different descriptors are taken.
Takes(n) ==
  /\ n <= QSZ /\ TakeFree(n) \in [1 .. n -> FreeDescs]
  /\ \A j, k \in 1 .. n : TakeFree(n)[j] = TakeFree(n)[k] => j = k

\* There are n free descriptors to take, and the ring has a place for their chain.
Room(n) == Takes(n) /\ Posted(Captured) <= QSZ - 1

\* Posting a chain there is room for keeps the invariant.
LEMMA PostWithRoom ==
  ASSUME QueueInv, NEW t \in Tags, NEW r \in RequestsOf(kind), Post(t, r), Room(ChainLen(r))
  PROVE  QueueInv'
  <1> DEFINE n == ChainLen(r)
             at == TakeFree(n)
             place(i) == CHOOSE k \in 1 .. n : at[k] = i
  <1>1. /\ TypeOK /\ stores = <<>> /\ RingInv(Captured) /\ DeviceInv /\ SavedInv
        /\ Captured \in Images /\ kind \in Kinds
    BY DEF QueueInv, TypeOK
  <1>2. GuestTypes /\ QueueTypes
    BY <1>1, NowTypes
  <1>3. /\ req[t] = None
        /\ desc' = [i \in Slots |->
                      IF \A k \in 1 .. n : at[k] # i THEN desc[i]
                      ELSE [tag |-> t, more |-> place(i) < n,
                            next |-> IF place(i) < n THEN at[place(i) + 1] ELSE 0]]
        /\ avail' = [avail EXCEPT ![availIdx % QSZ] = at[1]]
        /\ availIdx' = Incr(availIdx) /\ req' = [req EXCEPT ![t] = r] /\ kick' = TRUE
    BY DEF Post
  <1>4. /\ lastUsed' = lastUsed /\ isr' = isr /\ ret' = ret /\ used' = used /\ usedIdx' = usedIdx
        /\ kind' = kind /\ writable' = writable /\ disk' = disk /\ page' = page /\ queue' = queue
        /\ interruptStatus' = interruptStatus /\ proc' = proc /\ stores' = stores /\ saved' = saved
    BY DEF Post, shared, backing, device, life
  <1>5. n \in 1 .. 3 /\ r \in Requests /\ r # None
    BY <1>1, ChainLens, RequestTypes
  <1>6. /\ n <= QSZ /\ Posted(Captured) <= QSZ - 1 /\ at \in [1 .. n -> FreeDescs]
        /\ \A j, k \in 1 .. n : at[j] = at[k] => j = k
    BY DEF Room, Takes
  <1> HIDE DEF n
  <1> HIDE DEF at
  <1>7. ASSUME NEW k \in 1 .. n PROVE place(at[k]) = k
    BY <1>6
  <1>8. ASSUME NEW i \in Slots, ~\A k \in 1 .. n : at[k] # i
        PROVE  place(i) \in 1 .. n
    BY <1>8
  <1>9. \A i \in FreeDescs : i \in Slots /\ desc[i] = Free
    BY DEF FreeDescs
  <1> HIDE DEF place
  <1>10. Chain(desc', at, n, t)
    <2> SUFFICES ASSUME NEW k \in 1 .. n
                 PROVE  /\ desc'[at[k]].tag = t
                        /\ desc'[at[k]].more <=> k < n
                        /\ k < n => desc'[at[k]].next = at[k + 1]
      BY DEF Chain
    <2>1. at[k] \in Slots /\ place(at[k]) = k
      BY <1>6, <1>7, <1>9
    <2>2. desc'[at[k]] = [tag |-> t, more |-> k < n, next |-> IF k < n THEN at[k + 1] ELSE 0]
      <3>1. ~\A j \in 1 .. n : at[j] # at[k]
        OBVIOUS
      <3>2. desc'[at[k]] = [tag |-> t, more |-> place(at[k]) < n,
                            next |-> IF place(at[k]) < n THEN at[place(at[k]) + 1] ELSE 0]
        BY <1>3, <2>1, <3>1
      <3> QED
        BY <2>1, <3>2
    <2> DEFINE d == desc'[at[k]]
               b == k < n
               y == IF k < n THEN at[k + 1] ELSE 0
    <2>3. d = [tag |-> t, more |-> b, next |-> y]
      BY <2>2
    <2>5. b \in BOOLEAN
      BY SMTT(60)
    <2> HIDE DEF d, b, y
    <2>4. d.tag = t /\ (d.more <=> b) /\ d.next = y
      BY <2>3, <2>5, DescParts
    <2> QED
      BY <2>4 DEF d, b, y
  <1>11. \A i \in Slots : desc[i] # Free => desc'[i] = desc[i]
    BY <1>3, <1>6, <1>9
  <1>12. GuestTypes' /\ QueueTypes'
    <2>1. req' \in Calls
      BY <1>2, <1>3, <1>5 DEF Calls, GuestTypes
    <2>2. desc' \in [Slots -> [tag : Tags \cup {None}, next : Slots, more : BOOLEAN]]
      <3>1. 0 \in Slots
        BY QueueAssumption, SMTT(60) DEF Slots
      <3>2. ASSUME NEW i \in Slots, ~\A k \in 1 .. n : at[k] # i
            PROVE  [tag |-> t, more |-> place(i) < n, next |-> IF place(i) < n THEN at[place(i) + 1] ELSE 0]
                     \in [tag : Tags \cup {None}, next : Slots, more : BOOLEAN]
        <4>1. place(i) \in 1 .. n
          BY <1>8, <3>2
        <4>2. place(i) < n => at[place(i) + 1] \in Slots
          BY <1>5, <1>6, <1>9, <4>1, SMTT(60)
        <4> QED
          BY <3>1, <4>2, SMTT(60)
      <3> QED
        BY <1>2, <1>3, <3>2 DEF GuestTypes
    <2>3. avail' \in [Slots -> Slots]
      <3>1. at[1] \in Slots
        BY <1>5, <1>6, <1>9, SMTT(60)
      <3> QED
        BY <1>2, <1>3, <3>1 DEF GuestTypes
    <2>4. availIdx' \in Indices
      BY <1>2, <1>3, IncrIs DEF GuestTypes
    <2> QED
      BY <1>2, <1>3, <1>4, <2>1, <2>2, <2>3, <2>4 DEF GuestTypes, QueueTypes
  <1>13. Captured' \in Images
    BY <1>12, ThenTypes
  <1>14. TypeOK'
    <2>1. \A u \in Tags : req'[u] \in RequestsOf(kind) \cup {None}
      BY <1>1, <1>2, <1>3 DEF TypeOK, GuestTypes, Calls
    <2> QED
      BY <1>1, <1>4, <1>13, <2>1 DEF TypeOK
  <1>15. RingInv(Captured')
    <2>1. at \in [1 .. n -> {i \in Slots : Captured.desc[i] = Free}]
      BY <1>6, NowFields DEF FreeDescs
    <2>2. Posting(Captured, Captured', t, r, at)
      BY <1>3, <1>4, <1>11, NowFields, ThenFields DEF Posting
    <2>3. Chain(Captured'.desc, at, n, t)
      BY <1>10, ThenFields
    <2>4. n = ChainLen(r)
      BY DEF n
    <2> QED
      BY <1>1, <1>5, <1>6, <1>13, <2>1, <2>2, <2>3, <2>4, PostImage
  <1>16. DeviceInv'
    <2>1. CASE proc = None
      BY <1>1, <1>4, <2>1 DEF DeviceInv
    <2>2. CASE proc # None
      <3>1. /\ proc.lastAvail = usedIdx /\ Ahead(usedIdx, proc.until) <= Ahead(usedIdx, availIdx)
            /\ proc \in Locals
        BY <1>1, <2>2 DEF DeviceInv, TypeOK
      <3>2. /\ QSZ \in Nat /\ IdxMod \in Nat /\ QSZ < IdxMod /\ usedIdx \in Indices
            /\ availIdx \in Indices /\ proc.until \in Indices
        BY <1>2, <3>1, QueueAssumption DEF GuestTypes, Locals
      <3>3. Ahead(usedIdx, availIdx) = Posted(Captured) - Pushed(Captured)
        BY <1>1, Gap, NowFields
      <3>4. Posted(Captured) \in Nat /\ Pushed(Captured) \in Nat
        BY <1>1, ImageTypes
      <3>5. Ahead(usedIdx, availIdx) < IdxMod - 1
        BY <1>6, <3>2, <3>3, <3>4, SMTT(60)
      <3>6. Ahead(usedIdx, availIdx') = Ahead(usedIdx, availIdx) + 1
        BY <1>3, <3>2, <3>5, Aheads
      <3>7. Ahead(usedIdx, proc.until) \in Int /\ Ahead(usedIdx, availIdx) \in Int
        BY <3>2, Aheads, SMTT(60)
      <3> QED
        BY <1>4, <2>2, <3>1, <3>6, <3>7, SMTT(60) DEF DeviceInv, Ahead
    <2> QED
      BY <2>1, <2>2
  <1> QED
    BY <1>1, <1>4, <1>14, <1>15, <1>16, SavedKept, InvThen

\* Setting the queue up, entering and leaving the interrupt handler.
LEMMA SmallStepsKeep ==
  ASSUME QueueInv, SetUpQueue \/ IsrEnter \/ IsrLeave
  PROVE  QueueInv'
  <1>1. /\ TypeOK /\ stores = <<>> /\ RingInv(Captured) /\ DeviceInv /\ SavedInv
        /\ Captured \in Images
    BY DEF QueueInv, TypeOK
  <1>2. GuestTypes /\ QueueTypes
    BY <1>1, NowTypes
  <1>3. /\ req' = req /\ ret' = ret /\ page' = page /\ desc' = desc /\ avail' = avail
        /\ availIdx' = availIdx /\ used' = used /\ usedIdx' = usedIdx /\ lastUsed' = lastUsed
        /\ kick' = kick /\ kind' = kind /\ writable' = writable /\ disk' = disk
        /\ proc' = proc /\ stores' = stores /\ saved' = saved
    BY DEF SetUpQueue, IsrEnter, IsrLeave, driver, shared, backing, device, life
  <1>4. QueueTypes' /\ isr' \in BOOLEAN /\ queue'.lastAvail = queue.lastAvail
    BY <1>2 DEF QueueTypes, GuestTypes, SetUpQueue, IsrEnter, IsrLeave, driver, device
  <1>5. Captured' \in Images
    BY <1>2, <1>3, <1>4, ThenTypes DEF GuestTypes
  <1>6. TypeOK'
    BY <1>1, <1>3, <1>5 DEF TypeOK
  <1>7. DeviceInv'
    BY <1>1, <1>3, <1>4 DEF DeviceInv, Ahead
  <1> QED
    BY <1>1, <1>3, <1>6, <1>7, RingsKept, SavedKept, InvThen

\* A notify starts where the device is, and goes up to what is posted.
LEMMA NotifyKeeps ==
  ASSUME QueueInv, Notify
  PROVE  QueueInv'
  <1>1. /\ TypeOK /\ stores = <<>> /\ RingInv(Captured) /\ DeviceInv /\ SavedInv
        /\ Captured \in Images
    BY DEF QueueInv, TypeOK
  <1>2. GuestTypes /\ QueueTypes
    BY <1>1, NowTypes
  <1>3. /\ req' = req /\ ret' = ret /\ page' = page /\ desc' = desc /\ avail' = avail
        /\ availIdx' = availIdx /\ used' = used /\ usedIdx' = usedIdx /\ lastUsed' = lastUsed
        /\ kick' = FALSE /\ isr' = isr /\ kind' = kind /\ writable' = writable /\ disk' = disk
        /\ queue' = queue /\ interruptStatus' = interruptStatus
        /\ stores' = stores /\ saved' = saved /\ proc = None
    BY DEF Notify, LockFree, shared, backing, device, life
  <1>4. Captured' \in Images
    BY <1>2, <1>3, ThenTypes DEF GuestTypes, QueueTypes
  <1>5. queue.lastAvail = usedIdx /\ usedIdx \in Indices /\ availIdx \in Indices
    BY <1>1, <1>2, <1>3 DEF DeviceInv, GuestTypes
  <1> DEFINE new == [until |-> availIdx, lastAvail |-> queue.lastAvail,
                     budget |-> Budget, progressed |-> FALSE]
  <1>6. proc' \in {new, None}
    BY DEF Notify
  <1>7. new \in Locals /\ new.lastAvail = usedIdx /\ new.until = availIdx
    BY <1>2, <1>5, QueueAssumption, SMTT(60) DEF QueueTypes, Locals, Budget
  <1> HIDE DEF new
  <1>8. TypeOK'
    BY <1>1, <1>3, <1>4, <1>6, <1>7 DEF TypeOK
  <1>9. DeviceInv'
    <2>1. Ahead(usedIdx, availIdx) \in Int
      BY <1>5, Aheads, SMTT(60)
    <2> QED
      BY <1>3, <1>5, <1>6, <1>7, <2>1, SMTT(60) DEF DeviceInv, Ahead
  <1> QED
    BY <1>1, <1>3, <1>8, <1>9, RingsKept, SavedKept, InvThen

\* Leaving `process' keeps what it has consumed.
LEMMA ServedKeeps ==
  ASSUME QueueInv, Served
  PROVE  QueueInv'
  <1>1. /\ TypeOK /\ stores = <<>> /\ RingInv(Captured) /\ DeviceInv /\ SavedInv
        /\ Captured \in Images
    BY DEF QueueInv, TypeOK
  <1>2. GuestTypes /\ QueueTypes
    BY <1>1, NowTypes
  <1>3. /\ req' = req /\ page' = page /\ desc' = desc /\ avail' = avail
        /\ availIdx' = availIdx /\ lastUsed' = lastUsed
        /\ kick' = kick /\ isr' = isr /\ kind' = kind /\ writable' = writable /\ disk' = disk
        /\ stores' = <<>> /\ saved' = saved /\ proc # None /\ proc' = None
        /\ queue' = [queue EXCEPT !.lastAvail = proc.lastAvail]
        /\ interruptStatus' = (interruptStatus \/ proc.progressed)
    BY DEF Served, ServedUpTo, driver, backing, life
  <1>4. ret' = ret /\ used' = used /\ usedIdx' = usedIdx
    BY <1>1, <1>2, NoStores DEF Served, Apply, GuestTypes
  <1>5. proc \in Locals /\ proc.lastAvail = usedIdx
    BY <1>1, <1>3 DEF TypeOK, DeviceInv
  <1>6. QueueTypes' /\ queue'.lastAvail = usedIdx
    <2>1. queue' \in [num : {0, QSZ}, ready : BOOLEAN, lastAvail : Indices] /\ queue'.lastAvail = usedIdx
      BY <1>2, <1>3, <1>5 DEF QueueTypes, GuestTypes, Locals
    <2>2. interruptStatus' \in BOOLEAN
      BY <1>3
    <2> QED
      BY <2>1, <2>2 DEF QueueTypes
  <1>7. Captured' \in Images
    BY <1>2, <1>3, <1>4, <1>6, ThenTypes DEF GuestTypes
  <1>8. TypeOK'
    BY <1>1, <1>3, <1>7 DEF TypeOK
  <1>9. DeviceInv'
    BY <1>3, <1>4, <1>6 DEF DeviceInv
  <1> QED
    BY <1>1, <1>3, <1>4, <1>8, <1>9, RingsKept, SavedKept, InvThen

\* A snapshot is taken with every vcpu out of the devices.
LEMMA CaptureKeeps ==
  ASSUME QueueInv, Capture
  PROVE  QueueInv'
  <1>1. /\ TypeOK /\ stores = <<>> /\ RingInv(Captured) /\ DeviceInv /\ SavedInv
        /\ Captured \in Images
    BY DEF QueueInv, TypeOK
  <1>3. /\ req' = req /\ ret' = ret /\ page' = page /\ desc' = desc /\ avail' = avail
        /\ availIdx' = availIdx /\ used' = used /\ usedIdx' = usedIdx /\ lastUsed' = lastUsed
        /\ kick' = kick /\ isr' = isr /\ kind' = kind /\ writable' = writable /\ disk' = disk
        /\ queue' = queue /\ interruptStatus' = interruptStatus
        /\ proc' = proc /\ stores' = stores /\ proc = None /\ saved' = Captured
    BY DEF Capture, LockFree, driver, shared, backing, device
  <1>4. Captured' = Captured
    BY <1>3 DEF Captured
  <1>5. TypeOK'
    BY <1>1, <1>3, <1>4 DEF TypeOK
  <1>6. DeviceInv'
    BY <1>1, <1>3 DEF DeviceInv
  <1>7. SavedInv'
    <2>1. Captured.queue.lastAvail = Captured.usedIdx
      BY <1>1, <1>3, NowFields DEF DeviceInv
    <2>2. \A t \in Tags : Captured.req[t] \in RequestsOf(kind) \cup {None}
      BY <1>1, NowFields DEF TypeOK
    <2> QED
      BY <1>1, <1>3, <2>1, <2>2 DEF SavedInv
  <1> QED
    BY <1>1, <1>3, <1>4, <1>5, <1>6, <1>7, InvThen, SMTT(60)

\* A reset leaves no chain in flight.
LEMMA ResetKeeps ==
  ASSUME QueueInv, Reset
  PROVE  QueueInv'
  <1>1. TypeOK /\ stores = <<>> /\ SavedInv
    BY DEF QueueInv
  <1>2. /\ req' = Idle /\ ret' = Idle /\ page' = [t \in Tags |-> TRUE] /\ desc' = AllFree
        /\ avail' = Zeroes /\ used' = Zeroes /\ availIdx' = 0 /\ usedIdx' = 0 /\ lastUsed' = 0
        /\ kick' = FALSE /\ isr' = FALSE /\ queue' = NoQueue /\ interruptStatus' = FALSE
        /\ kind' = kind /\ writable' = writable /\ disk' = disk
        /\ proc' = proc /\ stores' = stores /\ saved' = saved /\ proc = None
    BY DEF Reset, LockFree
  <1>3. 0 \in Slots /\ 0 \in Indices /\ QSZ \in Nat
    BY QueueAssumption, SMTT(60) DEF Slots, Indices
  <1>4. GuestTypes' /\ QueueTypes'
    <2>1. Idle \in Calls /\ Idle \in Rets
      BY DEF Idle, Calls, Rets
    <2>2. AllFree \in [Slots -> [tag : Tags \cup {None}, next : Slots, more : BOOLEAN]]
      BY <1>3 DEF AllFree, Free
    <2>3. Zeroes \in [Slots -> Slots]
      BY <1>3 DEF Zeroes
    <2> QED
      BY <1>2, <1>3, <2>1, <2>2, <2>3 DEF GuestTypes, QueueTypes, NoQueue
  <1>5. Captured' \in Images
    BY <1>4, ThenTypes
  <1>6. TypeOK'
    BY <1>1, <1>2, <1>5 DEF TypeOK, Idle
  <1>7. RingInv(Captured')
    <2>1. Posted(Captured') = 0 /\ Pushed(Captured') = 0
      BY <1>2, ThenFields, SMTT(60) DEF Posted, Pushed, Ahead
    <2>2. \A t \in Tags : /\ Captured'.req[t] = None /\ Captured'.ret[t] = None
                          /\ Captured'.page[t]
      BY <1>2, ThenFields, SMTT(60) DEF Idle
    <2>3. 0 .. 0 - 1 = {} /\ 0 <= 0 /\ 0 <= QSZ
      BY <1>3, SMTT(60)
    <2> QED
      BY <2>1, <2>2, <2>3, RingParts
  <1>8. DeviceInv'
    BY <1>2 DEF DeviceInv, NoQueue
  <1> QED
    BY <1>1, <1>2, <1>6, <1>7, <1>8, SavedKept, InvThen, SMTT(60)

\* A fork is the snapshot, over a disk it does not write.
LEMMA RestoreKeeps ==
  ASSUME QueueInv, Restore
  PROVE  QueueInv'
  <1>1. TypeOK /\ stores = <<>> /\ SavedInv
    BY DEF QueueInv
  <1>2. /\ req' = saved.req /\ ret' = saved.ret /\ page' = saved.page /\ desc' = saved.desc
        /\ avail' = saved.avail /\ availIdx' = saved.availIdx
        /\ used' = saved.used /\ usedIdx' = saved.usedIdx
        /\ lastUsed' = saved.lastUsed /\ kick' = saved.kick /\ isr' = saved.isr
        /\ queue' = saved.queue /\ interruptStatus' = saved.interruptStatus
        /\ writable' = FALSE /\ kind' = kind /\ disk' = disk /\ proc' = proc /\ stores' = stores
        /\ saved # None /\ proc = None /\ saved' \in {saved, None}
    BY DEF Restore, RestoredQueue
  <1>3. /\ saved \in Images /\ RingInv(saved) /\ saved.queue.lastAvail = saved.usedIdx
        /\ \A t \in Tags : saved.req[t] \in RequestsOf(kind) \cup {None}
    BY <1>1, <1>2 DEF TypeOK, SavedInv
  <1>4. Captured' \in Images
    BY <1>2, <1>3, FromImage, ThenTypes DEF GuestTypes, QueueTypes
  <1>5. TypeOK'
    BY <1>1, <1>2, <1>3, <1>4 DEF TypeOK
  <1>6. RingInv(Captured')
    <2>1. /\ Captured'.req = saved.req /\ Captured'.ret = saved.ret
          /\ Captured'.page = saved.page /\ Captured'.desc = saved.desc
          /\ Captured'.avail = saved.avail /\ Captured'.availIdx = saved.availIdx
          /\ Captured'.used = saved.used /\ Captured'.usedIdx = saved.usedIdx
          /\ Captured'.lastUsed = saved.lastUsed
      BY <1>2, ThenFields
    <2> QED
      BY <1>3, <2>1, SameRings
  <1>7. DeviceInv'
    BY <1>2, <1>3 DEF DeviceInv
  <1>8. SavedInv'
    BY <1>2, <1>3 DEF SavedInv
  <1> QED
    BY <1>1, <1>2, <1>5, <1>6, <1>7, <1>8, InvThen

\* What the driver takes is the first chain in flight, which is answered.
LEMMA FirstAnswer ==
  ASSUME QueueInv, lastUsed # usedIdx
  PROVE  LET t == desc[used[lastUsed % QSZ]].tag
         IN /\ 0 < Pushed(Captured) /\ t = TagAt(Captured, 0) /\ t \in Tags
            /\ req[t] # None /\ ret[t] # None
  <1>1. Captured \in Images /\ RingInv(Captured)
    BY DEF QueueInv, TypeOK
  <1>2. lastUsed \in Indices /\ usedIdx \in Indices /\ lastUsed \in Nat
    BY <1>1, ImageTypes, NowFields
  <1>3. 0 < Pushed(Captured)
    BY <1>1, <1>2, ImageTypes, Aheads, NowFields, SMTT(60) DEF Pushed
  <1>4. 0 \in 0 .. Posted(Captured) - 1
    BY <1>1, <1>3, ImageTypes, RingParts, SMTT(60)
  <1>5. InFlight(Captured, 0)
    BY <1>1, <1>4, RingParts
  <1>6. Pos(Captured, 0) = lastUsed % QSZ
    BY <1>2, NowFields, SMTT(60) DEF Pos
  <1> QED
    BY <1>3, <1>5, <1>6, NowFields DEF InFlight, TagAt

\* Taking an answer keeps the invariant.
LEMMA FinishKeeps ==
  ASSUME QueueInv, Finish
  PROVE  QueueInv'
  <1> DEFINE t == desc[used[lastUsed % QSZ]].tag
  <1>1. /\ TypeOK /\ stores = <<>> /\ RingInv(Captured) /\ DeviceInv /\ SavedInv
        /\ Captured \in Images
    BY DEF QueueInv, TypeOK
  <1>2. GuestTypes /\ QueueTypes
    BY <1>1, NowTypes
  <1>3. /\ lastUsed # usedIdx
        /\ req' = [req EXCEPT ![t] = None] /\ ret' = [ret EXCEPT ![t] = None]
        /\ page' = [page EXCEPT ![t] = TRUE]
        /\ desc' = [i \in Slots |-> IF desc[i].tag = t THEN Free ELSE desc[i]]
        /\ avail' = [avail EXCEPT ![lastUsed % QSZ] = 0]
        /\ used' = [used EXCEPT ![lastUsed % QSZ] = 0]
        /\ lastUsed' = Incr(lastUsed)
    BY DEF Finish
  <1>4. /\ availIdx' = availIdx /\ kick' = kick /\ isr' = isr /\ usedIdx' = usedIdx
        /\ kind' = kind /\ writable' = writable /\ disk' = disk /\ queue' = queue
        /\ interruptStatus' = interruptStatus /\ proc' = proc /\ stores' = stores /\ saved' = saved
    BY DEF Finish, device, life
  <1>5. 0 < Pushed(Captured) /\ t = TagAt(Captured, 0) /\ t \in Tags
    BY <1>3, FirstAnswer
  <1> HIDE DEF t
  <1>6. GuestTypes' /\ QueueTypes'
    <2>1. 0 \in Slots
      BY QueueAssumption, SMTT(60) DEF Slots
    <2>2. req' \in Calls /\ ret' \in Rets /\ page' \in [Tags -> BOOLEAN]
      BY <1>2, <1>3, <1>5 DEF GuestTypes, Calls, Rets
    <2>3. desc' \in [Slots -> [tag : Tags \cup {None}, next : Slots, more : BOOLEAN]]
      BY <1>2, <1>3, <2>1 DEF GuestTypes, Free
    <2>4. avail' \in [Slots -> Slots] /\ used' \in [Slots -> Slots] /\ lastUsed' \in Indices
      BY <1>2, <1>3, <2>1, IncrIs DEF GuestTypes
    <2> QED
      BY <1>2, <1>4, <2>2, <2>3, <2>4 DEF GuestTypes, QueueTypes
  <1>7. Captured' \in Images
    BY <1>6, ThenTypes
  <1>8. TypeOK'
    <2>1. \A u \in Tags : req'[u] \in RequestsOf(kind) \cup {None}
      BY <1>1, <1>2, <1>3 DEF TypeOK, GuestTypes, Calls
    <2> QED
      BY <1>1, <1>4, <1>7, <2>1 DEF TypeOK
  <1>9. RingInv(Captured')
    <2>1. Finished(Captured, Captured', t)
      BY <1>3, <1>4, NowFields, ThenFields, SMTT(60) DEF Finished
    <2> QED
      BY <1>1, <1>5, <1>7, <2>1, FinishImage
  <1>10. DeviceInv'
    BY <1>1, <1>4 DEF DeviceInv, Ahead
  <1> QED
    BY <1>1, <1>4, <1>8, <1>9, <1>10, SavedKept, InvThen, SMTT(60)

\* What the requests of a kind of device carry.
LEMMA RequestShapes ==
  ASSUME NEW k, NEW r \in RequestsOf(k)
  PROVE  /\ k = "blk" => /\ r.op \in {"in", "out", "flush", "other"}
                         /\ r.op \in {"in", "out"} => r.sector \in Sectors
                         /\ r.op = "out" => r.val \in Vals
                         /\ ChainLen(r) >= 2
         /\ k = "rng" => r.op = "fill"
         /\ k = "balloon" => r.op = "drop"
  BY SMTT(60) DEF RequestsOf, ChainLen

\* What the handler may answer to the request in slot t.
Handled(t) ==
  CASE kind = "blk" -> BlkOutcomes(req[t])
    [] kind = "rng" -> RngOutcomes
    [] kind = "balloon" -> {Answer("ok", None)}

\* An answer is a reply, and one of those the abstract store gives.
LEMMA HandledTypes ==
  ASSUME TypeOK, NEW t \in Tags, req[t] # None, NEW a \in Handled(t)
  PROVE  a \in Replies /\ a # None /\ a \in Store!Answers /\ a \in Store!Outcomes(req[t])
  <1> DEFINE r == req[t]
  <1>1. r \in RequestsOf(kind) /\ kind \in {"blk", "rng", "balloon"} /\ disk \in [Sectors -> Vals]
    BY QueueAssumption DEF TypeOK
  <1>2. CASE kind = "blk"
    <2>1. r.op \in {"in", "out", "flush", "other"} /\ (r.op = "in" => disk[r.sector] \in Vals)
      BY <1>1, <1>2, RequestShapes
    <2>2. a \in BlkOutcomes(r)
      BY <1>2 DEF Handled
    <2>3. a \in Replies /\ a \in Store!Answers /\ a \in Store!Outcomes(r)
      BY <2>1, <2>2, SMTT(60) DEF BlkOutcomes, Answer, Replies, Store!Answers, Store!Status, Store!Outcomes, Store!Answer
    <2> QED
      BY <2>3, NoneAssumption
  <1>3. CASE kind = "rng"
    <2>1. r.op = "fill" /\ a \in RngOutcomes
      BY <1>1, <1>3, RequestShapes DEF Handled
    <2>2. a \in Replies /\ a \in Store!Answers /\ a \in Store!Outcomes(r)
      BY <2>1, SMTT(60) DEF RngOutcomes, Answer, Replies, Store!Answers, Store!Status, Store!Outcomes, Store!Answer
    <2> QED
      BY <2>2, NoneAssumption
  <1>4. CASE kind = "balloon"
    <2>1. r.op = "drop" /\ a = Answer("ok", None)
      BY <1>1, <1>4, RequestShapes DEF Handled
    <2>2. a \in Replies /\ a \in Store!Answers /\ a \in Store!Outcomes(r)
      BY <2>1 DEF Answer, Replies, Store!Answers, Store!Status, Store!Outcomes, Store!Answer
    <2> QED
      BY <2>2, NoneAssumption
  <1> QED
    BY <1>1, <1>2, <1>3, <1>4

\* The stores of a served chain, one after the other.
LEMMA InARow ==
  ASSUME NEW x, NEW y, NEW z
  PROVE  <<>> \o <<x>> \o <<y, z>> = <<x, y, z>>
  <1> DEFINE S == {x, y, z}
             s == <<x>> \o <<y, z>>
             u == <<x, y, z>>
  <1>1. <<x>> \in Seq(S) /\ <<y, z>> \in Seq(S) /\ u \in Seq(S) /\ <<>> \o <<x>> = <<x>>
    BY SMTT(60)
  <1>2. Len(<<x>>) = 1 /\ Len(<<y, z>>) = 2 /\ Len(u) = 3
    OBVIOUS
  <1>3. \A p, q \in Seq(S) : /\ p \o q \in Seq(S) /\ Len(p \o q) = Len(p) + Len(q)
                             /\ \A i \in 1..(Len(p) + Len(q)) :
                                  (p \o q)[i] = IF i <= Len(p) THEN p[i] ELSE q[i - Len(p)]
    BY SMTT(60)
  <1>4. s \in Seq(S) /\ Len(s) = 3
    BY <1>1, <1>2, <1>3, SMTT(60)
  <1>5. \A i \in 1..3 : s[i] = u[i]
    <2>1. \A i \in 1..3 : s[i] = IF i <= 1 THEN <<x>>[i] ELSE <<y, z>>[i - 1]
      BY <1>1, <1>2, <1>3, SMTT(60)
    <2>2. <<x>>[1] = x /\ <<y, z>>[1] = y /\ <<y, z>>[2] = z /\ u[1] = x /\ u[2] = y /\ u[3] = z
      OBVIOUS
    <2> HIDE DEF s, u
    <2>3. s[1] = <<x>>[1] /\ s[2] = <<y, z>>[1] /\ s[3] = <<y, z>>[2]
      BY <2>1, SMTT(60)
    <2> QED
      BY <2>2, <2>3, SMTT(60)
  <1>6. \A p, q \in Seq(S) : Len(p) = 3 /\ Len(q) = 3 /\ (\A i \in 1..3 : p[i] = q[i]) => p = q
    BY SMTT(60)
  <1>7. s = u
    <2> HIDE DEF s, u
    <2> QED
      BY <1>1, <1>2, <1>4, <1>5, <1>6
  <1> QED
    BY <1>1, <1>7

\* One chain is served: the first in flight without an answer gets one.
LEMMA ServeStep ==
  ASSUME Ordered, QueueInv, ServeChain
  PROVE  /\ Pushed(Captured) < Posted(Captured)
         /\ \E t \in Tags, a \in Replies :
              /\ t = TagAt(Captured, Pushed(Captured)) /\ req[t] # None /\ ret[t] = None
              /\ a \in Handled(t) /\ Handle(t, a) /\ a # None
              /\ ret' = [ret EXCEPT ![t] = a]
              /\ used' = [used EXCEPT ![usedIdx % QSZ] = HeadAt(Captured, Pushed(Captured))]
              /\ usedIdx' = Incr(usedIdx) /\ stores' = <<>>
  <1> DEFINE U == Pushed(Captured)
             head == avail[proc.lastAvail % QSZ]
             chain == CollectChain(head)
             t == desc[head].tag
             buffers(a) == IF a = None THEN <<>> ELSE << StoreOf("ret", desc[chain[Len(chain)]].tag, 0, a, 0) >>
  <1>1. TypeOK /\ stores = <<>> /\ RingInv(Captured) /\ Captured \in Images
    BY DEF QueueInv, TypeOK
  <1>2. GuestTypes
    BY <1>1, NowTypes
  <1>3. proc # None /\ proc.lastAvail # proc.until
    BY DEF ServeChain
  <1>4. U < Posted(Captured) /\ proc.lastAvail = usedIdx /\ usedIdx \in Indices
    BY <1>3, Unserved
  <1>5. U \in 0 .. Posted(Captured) - 1 /\ U \in Nat
    BY <1>1, <1>4, ImageTypes, SMTT(60)
  <1>6. usedIdx % QSZ = Pos(Captured, U) /\ Pos(Captured, U) \in Slots
    BY <1>1, PosHere, NowFields
  <1>7. head = HeadAt(Captured, U) /\ head \in Slots /\ t = TagAt(Captured, U)
    BY <1>1, <1>4, <1>5, <1>6, PosType, NowFields DEF HeadAt, TagAt
  <1>8. t \in Tags /\ req[t] # None /\ ret[t] = None /\ Chained(Captured, head, t)
    <2>1. InFlight(Captured, U) /\ ~(U < U)
      BY <1>1, <1>5, RingParts, SMTT(60)
    <2> QED
      BY <1>7, <2>1, NowFields DEF InFlight
  <1>9. desc[chain[Len(chain)]].tag = t /\ (ChainLen(req[t]) >= 2 => Len(chain) >= 2)
    BY <1>1, <1>7, <1>8, ChainCollected
  <1>10. PICK a \in Answers(t, chain) :
           /\ Handle(t, a)
           /\ \E seen \in Surfacing(stores \o buffers(a) \o PushUsed(head)) :
                Apply(seen.now) /\ stores' = seen.later
    BY DEF ServeChain
  <1>11. PICK seen \in Surfacing(stores \o buffers(a) \o PushUsed(head)) :
           Apply(seen.now) /\ stores' = seen.later
    BY <1>10
  <1> HIDE DEF head, chain, t, U
  <1>12. a \in Handled(t)
    <2>1. kind = "blk" => Len(chain) >= 2
      <3>1. req[t] \in RequestsOf(kind)
        BY <1>1, <1>8 DEF TypeOK
      <3> QED
        BY <1>9, <3>1, RequestShapes
    <2>2. t # None
      BY <1>8, NoneAssumption
    <2>3. kind = "blk" => ~(Len(chain) < 2)
      <3>1. CASE kind = "blk"
        BY <2>1, <3>1, SMTT(60) DEF t, chain
      <3> QED
        BY <3>1
    <2>4. Answers(t, chain) = Handled(t)
      BY <1>8, <2>2, <2>3 DEF Answers, Handled
    <2> QED
      BY <2>4
  <1>13. a \in Replies /\ a # None
    BY <1>1, <1>8, <1>12, HandledTypes
  <1>14. OwnUsedIdx = usedIdx
    BY <1>1, <1>2, NoStores DEF OwnUsedIdx, GuestTypes
  <1> DEFINE n == usedIdx % QSZ
             sts == ChainStores(t, a, n, head, Incr(usedIdx))
  <1>15. stores \o buffers(a) \o PushUsed(head) = sts
    <2>1. buffers(a) = << StoreOf("ret", t, 0, a, 0) >>
      BY <1>9, <1>13
    <2>2. PushUsed(head) = << StoreOf("used", None, n, None, head),
                              StoreOf("usedIdx", None, 0, None, Incr(usedIdx)) >>
      BY <1>14 DEF PushUsed
    <2>3. <<>> \o << StoreOf("ret", t, 0, a, 0) >>
          \o << StoreOf("used", None, n, None, head), StoreOf("usedIdx", None, 0, None, Incr(usedIdx)) >> = sts
      BY InARow DEF ChainStores
    <2> HIDE DEF buffers, sts, n
    <2> QED
      BY <1>1, <2>1, <2>2, <2>3
  <1>20. n \in Slots /\ ret \in Rets /\ used \in [Slots -> Slots]
    BY <1>2, <1>6 DEF GuestTypes
  <1>18. /\ RetAfter(sts) = [ret EXCEPT ![t] = a]
         /\ UsedAfter(sts) = [used EXCEPT ![n] = head]
         /\ UsedIdxAfter(sts) = Incr(usedIdx)
    <2> HIDE DEF n, buffers
    <2>1. Stored(t, a, n, head, Incr(usedIdx))
      BY <1>8, <1>20, ThreeStores
    <2> QED
      BY <2>1 DEF Stored
  <1> HIDE DEF sts, buffers, n
  <1>16. Surfacing(sts) = {[now |-> sts, later |-> <<>>]}
    BY DEF Surfacing
  <1>17. seen.now = sts /\ seen.later = <<>>
    BY <1>11, <1>15, <1>16, SMTT(60)
  <1>19. /\ ret' = [ret EXCEPT ![t] = a] /\ used' = [used EXCEPT ![usedIdx % QSZ] = head]
         /\ usedIdx' = Incr(usedIdx) /\ stores' = <<>>
    BY <1>11, <1>17, <1>18 DEF Apply, n
  <1> QED
    BY <1>4, <1>7, <1>8, <1>10, <1>12, <1>13, <1>19 DEF U

\* What the handler leaves of the disk, and of the pages but the slot's own.
LEMMA HandleTypes ==
  ASSUME TypeOK, NEW t \in Tags, req[t] # None, NEW a \in Replies, a # None, Handle(t, a)
  PROVE  /\ disk' \in [Sectors -> Vals]
         /\ page' \in [Tags -> BOOLEAN] /\ \A u \in Tags \ {t} : page'[u] = page[u]
  <1>1. /\ req[t] \in RequestsOf(kind) /\ kind \in {"blk", "rng", "balloon"}
        /\ disk \in [Sectors -> Vals] /\ page \in [Tags -> BOOLEAN]
    BY QueueAssumption, NowTypes DEF TypeOK, GuestTypes
  <1>2. req[t].op = "out" => req[t].sector \in Sectors /\ req[t].val \in Vals
    BY <1>1, RequestShapes
  <1>3. disk' \in Written(req[t], a.status)
    BY DEF Handle
  <1>4. disk' \in [Sectors -> Vals]
    BY <1>1, <1>2, <1>3 DEF Written
  <1>5. page' = IF req[t].op # "drop" THEN page ELSE [p \in Tags |-> page[p] /\ p # t]
    BY DEF Handle, Dropped
  <1>6. page' \in [Tags -> BOOLEAN] /\ \A u \in Tags \ {t} : page'[u] = page[u]
    BY <1>1, <1>5
  <1> QED
    BY <1>4, <1>6

\* A chain is served.
LEMMA ServeKeeps ==
  ASSUME Ordered, QueueInv, ServeChain
  PROVE  QueueInv'
  <1>1. /\ TypeOK /\ stores = <<>> /\ RingInv(Captured) /\ DeviceInv /\ SavedInv
        /\ Captured \in Images
    BY DEF QueueInv, TypeOK
  <1>2. GuestTypes /\ QueueTypes
    BY <1>1, NowTypes
  <1>3. Pushed(Captured) < Posted(Captured)
    BY ServeStep
  <1>4. PICK t \in Tags, a \in Replies :
          /\ t = TagAt(Captured, Pushed(Captured)) /\ req[t] # None /\ ret[t] = None
          /\ a \in Handled(t) /\ Handle(t, a) /\ a # None
          /\ ret' = [ret EXCEPT ![t] = a]
          /\ used' = [used EXCEPT ![usedIdx % QSZ] = HeadAt(Captured, Pushed(Captured))]
          /\ usedIdx' = Incr(usedIdx) /\ stores' = <<>>
    BY ServeStep
  <1>5. /\ req' = req /\ desc' = desc /\ avail' = avail /\ availIdx' = availIdx
        /\ lastUsed' = lastUsed /\ kick' = kick /\ isr' = isr /\ kind' = kind /\ writable' = writable
        /\ queue' = queue /\ interruptStatus' = interruptStatus /\ saved' = saved
    BY DEF ServeChain, driver, device, life
  <1>6. /\ proc # None /\ proc.lastAvail # proc.until /\ proc.budget > 0
        /\ proc' = [proc EXCEPT !.lastAvail = Incr(@), !.budget = @ - 1, !.progressed = TRUE]
    BY DEF ServeChain
  <1>7. proc \in Locals /\ proc.lastAvail = usedIdx /\ usedIdx \in Indices
    BY <1>6, Unserved
  <1>8. /\ disk' \in [Sectors -> Vals]
        /\ page' \in [Tags -> BOOLEAN] /\ \A u \in Tags \ {t} : page'[u] = page[u]
    BY <1>1, <1>4, HandleTypes
  <1>9. Incr(usedIdx) \in Indices
    BY <1>7, IncrIs
  <1>10. GuestTypes' /\ QueueTypes'
    <2>1. usedIdx % QSZ = Pos(Captured, Pushed(Captured)) /\ Pos(Captured, Pushed(Captured)) \in Slots
      BY <1>1, PosHere, NowFields
    <2>2. HeadAt(Captured, Pushed(Captured)) \in Slots
      BY <1>2, <2>1, NowFields DEF GuestTypes, HeadAt
    <2>3. ret' \in Rets /\ used' \in [Slots -> Slots]
      BY <1>2, <1>4, <2>2 DEF GuestTypes, Rets
    <2> QED
      BY <1>2, <1>4, <1>5, <1>8, <1>9, <2>3 DEF GuestTypes, QueueTypes
  <1>11. Captured' \in Images
    BY <1>10, ThenTypes
  <1>12. /\ proc' \in Locals /\ proc' # None
         /\ proc'.lastAvail = Incr(usedIdx) /\ proc'.until = proc.until
    <2>1. proc' \in Locals
      <3>1. /\ proc.until \in Indices /\ proc.budget - 1 \in Nat /\ Incr(proc.lastAvail) \in Indices
            /\ proc = [until |-> proc.until, lastAvail |-> proc.lastAvail, budget |-> proc.budget,
                       progressed |-> proc.progressed]
        BY <1>6, <1>7, <1>9, SMTT(60) DEF Locals
      <3>2. proc' = [until |-> proc.until, lastAvail |-> Incr(proc.lastAvail),
                     budget |-> proc.budget - 1, progressed |-> TRUE]
        BY <1>6, <3>1
      <3> QED
        BY <3>1, <3>2 DEF Locals
    <2>2. proc'.lastAvail = Incr(usedIdx) /\ proc'.until = proc.until
      BY <1>6, <1>7 DEF Locals
    <2> QED
      BY <2>1, <2>2, NoneAssumption
  <1>13. TypeOK'
    BY <1>1, <1>5, <1>8, <1>11, <1>12 DEF TypeOK
  <1>14. RingInv(Captured')
    <2>1. Answering(Captured, Captured', t, a)
      BY <1>4, <1>5, <1>8, NowFields, ThenFields DEF Answering
    <2> QED
      BY <1>1, <1>3, <1>4, <1>11, <2>1, ServeImage
  <1>15. DeviceInv'
    <2>1. proc.until \in Indices /\ availIdx \in Indices
      BY <1>2, <1>7 DEF Locals, GuestTypes
    <2>2. usedIdx # proc.until /\ Ahead(usedIdx, proc.until) <= Ahead(usedIdx, availIdx)
      BY <1>1, <1>6, <1>7 DEF DeviceInv
    <2>3. /\ Ahead(Incr(usedIdx), proc.until) = Ahead(usedIdx, proc.until) - 1
          /\ Ahead(usedIdx, proc.until) \in 0 .. IdxMod - 1
          /\ Ahead(usedIdx, proc.until) = 0 <=> usedIdx = proc.until
      BY <1>7, <2>1, <2>2, Aheads
    <2>4. Ahead(usedIdx, availIdx) \in 0 .. IdxMod - 1 /\ (Ahead(usedIdx, availIdx) = 0 <=> usedIdx = availIdx)
      BY <1>7, <2>1, Aheads
    <2>5. usedIdx # availIdx
      BY <2>2, <2>3, <2>4, SMTT(60)
    <2>6. Ahead(Incr(usedIdx), availIdx) = Ahead(usedIdx, availIdx) - 1
      BY <1>7, <2>1, <2>5, Aheads
    <2>7. Ahead(Incr(usedIdx), proc.until) <= Ahead(Incr(usedIdx), availIdx)
      BY <2>2, <2>3, <2>4, <2>6, SMTT(60)
    <2> QED
      BY <1>4, <1>5, <1>12, <2>7 DEF DeviceInv, Ahead
  <1> QED
    BY <1>1, <1>4, <1>5, <1>13, <1>14, <1>15, SavedKept, InvThen, SMTT(60)

-----------------------------------------------------------------------------
(***************************************************************************)
(* The invariant.                                                          *)
(***************************************************************************)

\* A new device has empty rings.
LEMMA InitInv == Init => QueueInv
  <1> SUFFICES ASSUME Init PROVE QueueInv
    OBVIOUS
  <1>1. /\ req = Idle /\ ret = Idle /\ page = [t \in Tags |-> TRUE] /\ desc = AllFree
        /\ avail = Zeroes /\ used = Zeroes /\ availIdx = 0 /\ usedIdx = 0 /\ lastUsed = 0
        /\ kick = FALSE /\ isr = FALSE /\ queue = NoQueue /\ interruptStatus = FALSE
        /\ kind \in Kinds /\ writable = (kind = "blk")
        /\ disk = [s \in Sectors |-> CHOOSE v \in Vals : TRUE]
        /\ proc = None /\ stores = <<>> /\ saved = None
    BY DEF Init
  <1>2. 0 \in Slots /\ 0 \in Indices /\ QSZ \in Nat
    BY QueueAssumption, SMTT(60) DEF Slots, Indices
  <1>3. Captured \in Images
    <2>1. Idle \in Calls /\ Idle \in Rets
      BY DEF Idle, Calls, Rets
    <2>2. AllFree \in [Slots -> [tag : Tags \cup {None}, next : Slots, more : BOOLEAN]]
      BY <1>2 DEF AllFree, Free
    <2>3. Zeroes \in [Slots -> Slots]
      BY <1>2 DEF Zeroes
    <2>4. GuestTypes /\ QueueTypes
      BY <1>1, <1>2, <2>1, <2>2, <2>3 DEF GuestTypes, QueueTypes, NoQueue
    <2> QED
      BY <2>4, NowTypes
  <1>4. disk \in [Sectors -> Vals]
    <2>1. (CHOOSE v \in Vals : TRUE) \in Vals
      BY QueueAssumption
    <2> QED
      BY <1>1, <2>1
  <1>5. TypeOK
    BY <1>1, <1>3, <1>4 DEF TypeOK, Idle
  <1>6. RingInv(Captured)
    <2>1. Posted(Captured) = 0 /\ Pushed(Captured) = 0
      BY <1>1, NowFields, SMTT(60) DEF Posted, Pushed, Ahead
    <2>2. \A t \in Tags : Captured.req[t] = None /\ Captured.ret[t] = None /\ Captured.page[t]
      BY <1>1, NowFields, SMTT(60) DEF Idle
    <2>3. 0 .. 0 - 1 = {} /\ 0 <= 0 /\ 0 <= QSZ
      BY <1>2, SMTT(60)
    <2> QED
      BY <2>1, <2>2, <2>3, RingParts
  <1>7. DeviceInv /\ SavedInv
    BY <1>1 DEF DeviceInv, SavedInv, NoQueue
  <1> QED
    BY <1>1, <1>5, <1>6, <1>7 DEF QueueInv

\* A step that changes nothing.
LEMMA IdleKeeps ==
  ASSUME QueueInv, UNCHANGED vars
  PROVE  QueueInv'
  <1>1. /\ TypeOK /\ stores = <<>> /\ RingInv(Captured) /\ DeviceInv /\ SavedInv
    BY DEF QueueInv
  <1>2. /\ req' = req /\ ret' = ret /\ page' = page /\ desc' = desc /\ avail' = avail
        /\ availIdx' = availIdx /\ used' = used /\ usedIdx' = usedIdx /\ lastUsed' = lastUsed
        /\ kick' = kick /\ isr' = isr /\ kind' = kind /\ writable' = writable /\ disk' = disk
        /\ queue' = queue /\ interruptStatus' = interruptStatus
        /\ proc' = proc /\ stores' = stores /\ saved' = saved
    BY DEF vars, driver, shared, backing, device, life
  <1>3. Captured' = Captured
    BY <1>2 DEF Captured
  <1>4. TypeOK'
    BY <1>1, <1>2, <1>3 DEF TypeOK
  <1>5. DeviceInv'
    BY <1>1, <1>2 DEF DeviceInv, Ahead
  <1> QED
    BY <1>1, <1>2, <1>3, <1>4, <1>5, SavedKept, InvThen

-----------------------------------------------------------------------------
(***************************************************************************)
(* What the driver finds in the used ring.                                 *)
(***************************************************************************)

\* Remainders of what wraps at most once.
LEMMA WrapOnce ==
  ASSUME NEW a \in 0 .. (IdxMod + IdxMod) - 1
  PROVE  a % IdxMod = IF a < IdxMod THEN a ELSE a - IdxMod
  <1> DEFINE r == a % IdxMod
             k == a \div IdxMod
  <1>1. IdxMod \in Nat \ {0} /\ a \in Nat
    BY QueueAssumption, SMTT(60)
  <1>2. r \in 0 .. IdxMod - 1 /\ k \in Nat /\ a = IdxMod * k + r
    BY <1>1, Division
  <1> HIDE DEF r, k
  <1>3. CASE a < IdxMod
    <2>1. a \in 0 .. IdxMod - 1 /\ a = r + IdxMod * k /\ k \in Int
      BY <1>1, <1>2, <1>3, SMTT(60)
    <2>2. a = r
      BY <1>1, <1>2, <2>1, SameRemainder
    <2> QED
      BY <1>3, <2>2 DEF r
  <1>4. CASE ~(a < IdxMod)
    <2> DEFINE b == a - IdxMod
               q == k - 1
    <2>1. b \in 0 .. IdxMod - 1 /\ b = r + IdxMod * q /\ q \in Int
      BY <1>1, <1>2, <1>4, SMTT(60)
    <2> HIDE DEF b, q
    <2>2. b = r
      BY <1>1, <1>2, <2>1, SameRemainder
    <2> QED
      BY <1>4, <2>2 DEF r, b
  <1> QED
    BY <1>3, <1>4

\* What the driver has not looked at are the chains that are answered.
LEMMA UnseenAre ==
  ASSUME QueueInv, NEW i \in Unseen
  PROVE  \E n \in 0 .. Posted(Captured) - 1 :
           n < Pushed(Captured) /\ i = (lastUsed + n) % IdxMod /\ i % QSZ = Pos(Captured, n)
  <1>1. Captured \in Images /\ RingInv(Captured)
    BY DEF QueueInv, TypeOK
  <1>2. /\ lastUsed \in Indices /\ usedIdx \in Indices
        /\ IdxMod \in Nat \ {0} /\ Indices = 0 .. IdxMod - 1
    BY <1>1, ImageTypes, NowFields, QueueAssumption, SMTT(60) DEF Indices
  <1>3. (usedIdx + IdxMod - lastUsed) % IdxMod = Ahead(lastUsed, usedIdx)
    <2> DEFINE a == usedIdx + IdxMod - lastUsed
    <2>1. a \in 0 .. (IdxMod + IdxMod) - 1
      BY <1>2, SMTT(60)
    <2>2. a % IdxMod = IF a < IdxMod THEN a ELSE a - IdxMod
      BY <2>1, WrapOnce
    <2> QED
      BY <1>2, <2>2, SMTT(60) DEF Ahead
  <1>4. Ahead(lastUsed, usedIdx) = Pushed(Captured)
    BY NowFields DEF Pushed
  <1>5. PICK n \in 0 .. Pushed(Captured) - 1 : i = (lastUsed + n) % IdxMod
    BY <1>3, <1>4 DEF Unseen
  <1>6. /\ Pushed(Captured) \in 0 .. IdxMod - 1 /\ Posted(Captured) \in Nat
        /\ Pushed(Captured) <= Posted(Captured)
    BY <1>1, <1>2, <1>4, Aheads, ImageTypes, RingParts, SMTT(60)
  <1>7. n \in 0 .. Posted(Captured) - 1 /\ n < Pushed(Captured) /\ n \in Nat
    BY <1>5, <1>6, SMTT(60)
  <1>8. i % QSZ = (lastUsed + n) % QSZ
    <2> DEFINE a == lastUsed + n
    <2>1. a \in 0 .. (IdxMod + IdxMod) - 1 /\ a \in Nat
      BY <1>2, <1>5, <1>6, SMTT(60)
    <2>2. a % IdxMod = IF a < IdxMod THEN a ELSE a - IdxMod
      BY <2>1, WrapOnce
    <2>3. CASE a < IdxMod
      BY <1>5, <2>2, <2>3
    <2>4. CASE ~(a < IdxMod)
      <3>1. i = a - IdxMod /\ i \in Nat /\ a = i + IdxMod
        BY <1>2, <1>5, <2>1, <2>2, <2>4, SMTT(60)
      <3>2. (i + IdxMod) % QSZ = i % QSZ
        BY <3>1, WrapPos
      <3> QED
        BY <3>1, <3>2
    <2> QED
      BY <2>3, <2>4
  <1> QED
    BY <1>5, <1>7, <1>8, NowFields DEF Pos

\* The invariant gives the property.
LEMMA InvPagesKept == QueueInv => PagesKept
  <1> SUFFICES ASSUME QueueInv PROVE PagesKept
    OBVIOUS
  <1>1. TypeOK /\ Captured \in Images /\ RingInv(Captured)
    BY DEF QueueInv, TypeOK
  <1>2. \A n \in 0 .. Posted(Captured) - 1 :
          /\ TagAt(Captured, n) \in Tags /\ desc[HeadAt(Captured, n)].tag = TagAt(Captured, n)
          /\ n < Pushed(Captured) => /\ used[Pos(Captured, n)] = HeadAt(Captured, n)
                                     /\ ret[TagAt(Captured, n)] # None
          /\ \A m \in 0 .. Posted(Captured) - 1 : TagAt(Captured, n) = TagAt(Captured, m) => n = m
    BY <1>1, RingParts, NowFields DEF InFlight, TagAt
  <1>3. ASSUME NEW i \in Unseen
        PROVE  LET t == desc[used[i % QSZ]].tag IN t # None /\ ret[t] # None
    <2>1. PICK n \in 0 .. Posted(Captured) - 1 : n < Pushed(Captured) /\ i % QSZ = Pos(Captured, n)
      BY UnseenAre
    <2>2. TagAt(Captured, n) # None
      BY <1>2, NoneAssumption
    <2> QED
      BY <1>2, <2>1, <2>2
  <1>4. ASSUME NEW i \in Unseen, NEW j \in Unseen, used[i % QSZ] = used[j % QSZ]
        PROVE  i = j
    <2>1. PICK n \in 0 .. Posted(Captured) - 1 :
            n < Pushed(Captured) /\ i = (lastUsed + n) % IdxMod /\ i % QSZ = Pos(Captured, n)
      BY UnseenAre
    <2>2. PICK m \in 0 .. Posted(Captured) - 1 :
            m < Pushed(Captured) /\ j = (lastUsed + m) % IdxMod /\ j % QSZ = Pos(Captured, m)
      BY UnseenAre
    <2>3. HeadAt(Captured, n) = HeadAt(Captured, m)
      BY <1>2, <1>4, <2>1, <2>2
    <2>4. n = m
      BY <1>2, <2>3
    <2> QED
      BY <2>1, <2>2, <2>4
  <1>5. \A t \in Tags : req[t] = None => page[t]
    BY <1>1, RingParts, NowFields
  <1> QED
    BY <1>1, <1>3, <1>4, <1>5 DEF PagesKept, UsedIsComplete

-----------------------------------------------------------------------------
(***************************************************************************)
(* The device implements BlockStore.                                       *)
(***************************************************************************)

\* The answers a state stands for.
LEMMA StoreAnswers ==
  ASSUME QueueInv
  PROVE  RetAfter(stores) = ret
  <1>1. stores = <<>> /\ GuestTypes
    BY NowTypes DEF QueueInv, TypeOK
  <1> QED
    BY <1>1, NoStores DEF GuestTypes

\* The same after a step.
LEMMA StoreAnswersThen ==
  ASSUME QueueInv'
  PROVE  RetAfter(stores)' = ret'
  <1>1. ret' \in Rets /\ stores' = <<>>
    BY ThenFields, ImageTypes DEF QueueInv, TypeOK
  <1>2. DOMAIN <<>> = {} /\ ret' = [t \in Tags |-> ret'[t]]
    BY <1>1, SMTT(60) DEF Rets
  <1> QED
    BY <1>1, <1>2 DEF RetAfter

\* A snapshot's requests and answers are never none.
LEMMA KeptIs ==
  ASSUME NEW s \in Images
  PROVE  <<s.req, s.ret>> # None
  <1>1. s.req \in Calls /\ s.ret \in Rets
    BY ImageTypes
  <1>2. <<s.req, s.ret>> \in Calls \X Rets
    BY <1>1
  <1> QED
    BY <1>2, NoneAssumption

\* A served chain is a request carried out.
LEMMA ServeCarries ==
  ASSUME Ordered, QueueInv, QueueInv', ServeChain
  PROVE  \E t \in Tags, a \in Store!Answers : Store!Carry(t, a)
  <1>1. RetAfter(stores) = ret /\ RetAfter(stores)' = ret' /\ TypeOK
    BY StoreAnswers, StoreAnswersThen DEF QueueInv
  <1>2. PICK t \in Tags, a \in Replies :
          /\ req[t] # None /\ ret[t] = None /\ a \in Handled(t) /\ Handle(t, a) /\ a # None
          /\ ret' = [ret EXCEPT ![t] = a]
    BY ServeStep
  <1>3. a \in Store!Answers /\ a \in Store!Outcomes(req[t])
    BY <1>1, <1>2, HandledTypes
  <1>4. disk' \in Store!Written(req[t], a.status)
    BY <1>2 DEF Handle, Written, Store!Written
  <1>5. req' = req /\ writable' = writable /\ saved' = saved
    BY DEF ServeChain, driver, life
  <1>6. Store!Carry(t, a)
    BY <1>1, <1>2, <1>3, <1>4, <1>5 DEF Store!Carry
  <1> QED
    BY <1>3, <1>6

\* Every step is a step of the store, or none.
LEMMA StoreStep ==
  ASSUME Ordered, QueueInv, QueueInv', [Next]_vars
  PROVE  [Store!Next]_(Store!vars)
  <1>1. RetAfter(stores) = ret /\ RetAfter(stores)' = ret' /\ TypeOK /\ stores = <<>> /\ GuestTypes
    BY StoreAnswers, StoreAnswersThen, NowTypes DEF QueueInv, TypeOK
  <1>2. ASSUME writable' = writable, disk' = disk, req' = req, ret' = ret, saved' = saved
        PROVE  UNCHANGED Store!vars
    BY <1>1, <1>2 DEF Store!vars
  <1>3. CASE SetUpQueue \/ IsrEnter \/ IsrLeave \/ Notify \/ UNCHANGED vars
    BY <1>2, <1>3
    DEF SetUpQueue, IsrEnter, IsrLeave, Notify, vars, driver, shared, backing, life
  <1>4. CASE Served
    <2>1. ret' = ret
      BY <1>1, <1>4, NoStores DEF Served, Apply, GuestTypes
    <2> QED
      BY <1>2, <1>4, <2>1 DEF Served, driver, backing, life
  <1>5. CASE \E t \in Tags, r \in RequestsOf(kind) : Post(t, r)
    <2>1. PICK t \in Tags, r \in RequestsOf(kind) : Post(t, r)
      BY <1>5
    <2>2. r \in Requests
      BY <1>1, RequestTypes DEF TypeOK
    <2>3. /\ req[t] = None /\ req' = [req EXCEPT ![t] = r]
          /\ writable' = writable /\ disk' = disk /\ ret' = ret /\ saved' = saved
      BY <2>1 DEF Post, shared, backing, life
    <2>4. Store!Submit(t, r)
      BY <1>1, <2>3 DEF Store!Submit
    <2> QED
      BY <2>2, <2>4 DEF Store!Next
  <1>6. CASE ServeChain
    BY <1>6, ServeCarries DEF Store!Next
  <1>7. CASE Finish
    <2> DEFINE t == desc[used[lastUsed % QSZ]].tag
    <2>1. t \in Tags /\ ret[t] # None
      BY <1>7, FirstAnswer DEF Finish
    <2>2. /\ req' = [req EXCEPT ![t] = None] /\ ret' = [ret EXCEPT ![t] = None]
          /\ writable' = writable /\ disk' = disk /\ saved' = saved
      BY <1>7 DEF Finish, life
    <2> HIDE DEF t
    <2>3. Store!Return(t)
      BY <1>1, <2>1, <2>2 DEF Store!Return
    <2> QED
      BY <2>1, <2>3 DEF Store!Next
  <1>8. CASE Reset
    <2>1. /\ req' = Idle /\ ret' = Idle
          /\ writable' = writable /\ disk' = disk /\ saved' = saved
      BY <1>8 DEF Reset
    <2>2. Store!Reset
      BY <1>1, <2>1 DEF Store!Reset, Store!Idle, Idle
    <2> QED
      BY <2>2 DEF Store!Next
  <1>9. CASE Capture
    <2>1. /\ req' = req /\ ret' = ret /\ writable' = writable /\ disk' = disk /\ saved' = Captured
      BY <1>9 DEF Capture, driver, shared, backing
    <2>2. Captured # None
      BY <1>1, NoneAssumption DEF TypeOK
    <2>3. Store!Checkpoint
      BY <1>1, <2>1, <2>2, NowFields DEF Store!Checkpoint
    <2> QED
      BY <2>3 DEF Store!Next
  <1>10. CASE Restore
    <2>1. /\ saved # None /\ req' = saved.req /\ ret' = saved.ret
          /\ writable' = FALSE /\ disk' = disk /\ saved' \in {saved, None}
      BY <1>10 DEF Restore
    <2>2. <<saved.req, saved.ret>> # None
      BY <1>1, <2>1, KeptIs DEF TypeOK
    <2>3. Store!Rollback
      BY <1>1, <2>1, <2>2 DEF Store!Rollback
    <2> QED
      BY <2>3 DEF Store!Next
  <1> QED
    BY <1>3, <1>4, <1>5, <1>6, <1>7, <1>8, <1>9, <1>10 DEF Next

-----------------------------------------------------------------------------
(***************************************************************************)
(* Free descriptors are room on the ring.                                  *)
(***************************************************************************)

\* The size of 0 .. n - 1, as FS_Interval gives it.
LEMMA SpanOf ==
  ASSUME NEW n \in Nat
  PROVE  0 \in Int /\ n - 1 \in Int /\ (IF 0 > n - 1 THEN 0 ELSE (n - 1) - 0 + 1) = n
  BY SMTT(60)

\* The chains in flight have a head each, none of them free.
LEMMA HeadsApart ==
  ASSUME NEW s \in Images, RingInv(s), NEW i \in Slots, s.desc[i] = Free
  PROVE  LET P == 0 .. Posted(s) - 1
         IN /\ \A n \in P : HeadAt(s, n) \in Slots \ {i}
            /\ \A n, m \in P : HeadAt(s, n) = HeadAt(s, m) => n = m
  <1> DEFINE P == 0 .. Posted(s) - 1
  <1>1. Posted(s) \in Nat
    BY ImageTypes
  <1>2. ASSUME NEW n \in P PROVE HeadAt(s, n) \in Slots \ {i}
    <2>1. n \in Nat /\ TagAt(s, n) \in Tags
      BY <1>1, RingParts, SMTT(60) DEF InFlight
    <2>2. HeadAt(s, n) # i
      BY <2>1, NoneAssumption, SMTT(60) DEF TagAt, Free
    <2> QED
      BY <2>1, <2>2, PosType
  <1>3. ASSUME NEW n \in P, NEW m \in P, HeadAt(s, n) = HeadAt(s, m) PROVE n = m
    BY <1>3, RingParts DEF TagAt
  <1> QED
    BY <1>2, <1>3

\* c different descriptors are free.
SomeFree(c) ==
  \E f \in [1 .. c -> FreeDescs] : \A j, k \in 1 .. c : f[j] = f[k] => j = k

\* Where c descriptors are free, n of them can be taken.
LEMMA TakeSome ==
  ASSUME NEW n \in 1 .. 3, NEW c \in Nat, c >= n, c <= QSZ, SomeFree(c)
  PROVE  Takes(n)
  <1>1. PICK f \in [1 .. c -> FreeDescs] : \A j, k \in 1 .. c : f[j] = f[k] => j = k
    BY DEF SomeFree
  <1> DEFINE g == [k \in 1 .. n |-> f[k]]
  <1>2. n <= QSZ /\ \A k \in 1 .. n : k \in 1 .. c
    BY QueueAssumption, SMTT(60)
  <1>3. g \in [1 .. n -> FreeDescs] /\ \A j, k \in 1 .. n : g[j] = g[k] => j = k
    BY <1>1, <1>2
  <1> HIDE DEF g
  <1> QED
    BY <1>2, <1>3 DEF TakeFree, Takes

\* The first of the descriptors taken for a chain.
LEMMA FirstOf ==
  ASSUME NEW r
  PROVE  ChainLen(r) \in 1 .. 3 /\ 1 \in 1 .. ChainLen(r)
  BY ChainLens, SMTT(60)

\* Cardinalities, which nothing above is about.
INSTANCE FiniteSetTheorems

\* The size of 0 .. n - 1.
LEMMA Interval ==
  ASSUME NEW n \in Nat
  PROVE  IsFiniteSet(0 .. n - 1) /\ Cardinality(0 .. n - 1) = n
  BY SpanOf, FS_Interval

\* A free descriptor leaves room on the ring.
LEMMA RoomLeft ==
  ASSUME NEW s \in Images, RingInv(s), NEW i \in Slots, s.desc[i] = Free
  PROVE  Posted(s) <= QSZ - 1
  <1> DEFINE P == 0 .. Posted(s) - 1
             H == [n \in P |-> HeadAt(s, n)]
             R == Slots \ {i}
  <1>1. Posted(s) \in Nat /\ QSZ \in Nat
    BY ImageTypes, QueueAssumption
  <1>2. IsFiniteSet(P) /\ Cardinality(P) = Posted(s)
    BY <1>1, Interval
  <1>3. IsFiniteSet(Slots) /\ Cardinality(Slots) = QSZ
    BY <1>1, Interval DEF Slots
  <1>4. IsFiniteSet(R) /\ Cardinality(R) = QSZ - 1
    BY <1>3, FS_RemoveElement
  <1>5. H \in Injection(P, R)
    BY HeadsApart DEF Injection, IsInjective
  <1> HIDE DEF P, H, R
  <1>6. Cardinality(P) <= Cardinality(R)
    BY <1>4, <1>5, FS_Injection
  <1> QED
    BY <1>2, <1>4, <1>6

\* n descriptors taken from the free ones are n of them.
LEMMA Taken ==
  ASSUME NEW n \in 1 .. 3, Cardinality(FreeDescs) >= n
  PROVE  Takes(n)
  <1> DEFINE c == Cardinality(FreeDescs)
  <1>1. IsFiniteSet(Slots) /\ Cardinality(Slots) = QSZ
    BY QueueAssumption, Interval DEF Slots
  <1>2. FreeDescs \in SUBSET Slots
    BY DEF FreeDescs
  <1>3. IsFiniteSet(FreeDescs) /\ c <= QSZ
    BY <1>1, <1>2, FS_Subset
  <1>4. c \in Nat /\ ExistsBijection(1 .. c, FreeDescs)
    BY <1>3, FS_CardinalityType
  <1>5. SomeFree(c)
    BY <1>4 DEF SomeFree, ExistsBijection, Bijection, Injection, IsInjective
  <1>6. c \in Nat /\ c >= n /\ c <= QSZ
    BY <1>3, <1>4
  <1> HIDE DEF c
  <1> QED
    BY <1>5, <1>6, TakeSome

\* Posting a chain keeps the invariant.
LEMMA PostKeeps ==
  ASSUME QueueInv, NEW t \in Tags, NEW r \in RequestsOf(kind), Post(t, r)
  PROVE  QueueInv'
  <1> DEFINE n == ChainLen(r)
  <1>1. n \in 1 .. 3 /\ 1 \in 1 .. n
    BY FirstOf
  <1>2. Cardinality(FreeDescs) >= n
    BY DEF Post
  <1> HIDE DEF n
  <1>3. Takes(n)
    BY <1>1, <1>2, Taken
  <1>4. TakeFree(n)[1] \in Slots /\ desc[TakeFree(n)[1]] = Free
    BY <1>1, <1>3 DEF Takes, FreeDescs
  <1>5. Posted(Captured) <= QSZ - 1
    BY <1>4, RoomLeft, NowFields DEF QueueInv, TypeOK
  <1> QED
    BY <1>3, <1>5, PostWithRoom DEF Room, n

-----------------------------------------------------------------------------
(***************************************************************************)
(* The theorems.                                                           *)
(***************************************************************************)

\* Every step keeps the invariant, where stores are seen in order.
LEMMA NextKeeps ==
  ASSUME Ordered, QueueInv, [Next]_vars
  PROVE  QueueInv'
  <1>1. CASE SetUpQueue \/ IsrEnter \/ IsrLeave
    BY <1>1, SmallStepsKeep
  <1>2. CASE Reset
    BY <1>2, ResetKeeps
  <1>3. CASE Notify
    BY <1>3, NotifyKeeps
  <1>4. CASE ServeChain
    BY <1>4, ServeKeeps
  <1>5. CASE Served
    BY <1>5, ServedKeeps
  <1>6. CASE \E t \in Tags, r \in RequestsOf(kind) : Post(t, r)
    BY <1>6, PostKeeps
  <1>7. CASE Finish
    BY <1>7, FinishKeeps
  <1>8. CASE Capture
    BY <1>8, CaptureKeeps
  <1>9. CASE Restore
    BY <1>9, RestoreKeeps
  <1>10. CASE UNCHANGED vars
    BY <1>10, IdleKeeps
  <1> QED
    BY <1>1, <1>2, <1>3, <1>4, <1>5, <1>6, <1>7, <1>8, <1>9, <1>10, SMTT(60) DEF Next

\* The rings, the device and the snapshot agree in every state: the chains in
\* flight are those of the requests, the device has consumed those it has pushed
\* (VirtioMmio::process), and no others are answered.
THEOREM RingsAgree == ASSUME Ordered PROVE Spec => []QueueInv
  <1>1. QueueInv /\ [Next]_vars => QueueInv'
    BY NextKeeps
  <1> QED
    BY InitInv, <1>1, PTL DEF Spec

\* Whatever the driver finds in the used ring is a chain it posted, answered in
\* full, and no chain is there twice; a page is dropped only while the guest has
\* given it up (push_used, BalloonDevice::handle), where stores are seen in order.
THEOREM PagesAreKept == ASSUME Ordered PROVE Spec => []PagesKept
  BY RingsAgree, InvPagesKept, PTL

\* Every request is carried out once, between its submission and its return,
\* whatever the rings, the interrupts and a snapshot do (VirtioMmio::process),
\* where stores are seen in order.
THEOREM ImplementsStore == ASSUME Ordered PROVE Spec => StoreSpec
  <1>1. Init => Store!Init
    <2> SUFFICES ASSUME Init PROVE Store!Init
      OBVIOUS
    <2>1. QueueInv
      BY InitInv
    <2>2. /\ RetAfter(stores) = ret /\ writable \in BOOLEAN /\ disk \in [Sectors -> Vals]
          /\ req = Idle /\ ret = Idle /\ saved = None
      BY <2>1, StoreAnswers DEF QueueInv, TypeOK, Init
    <2> QED
      BY <2>2 DEF Store!Init, Store!Idle, Idle
  <1>2. QueueInv /\ QueueInv' /\ [Next]_vars => [Store!Next]_(Store!vars)
    BY StoreStep
  <1> QED
    BY RingsAgree, <1>1, <1>2, PTL DEF Spec, StoreSpec, Store!Spec
=============================================================================
