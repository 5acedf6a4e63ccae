----------------------------- MODULE VsockProofs -----------------------------
(***************************************************************************)
(* Proofs about module Vsock, for every wrap of the counters, every window *)
(* on either side that is below it, and any amount of payload.             *)
(***************************************************************************)
EXTENDS Vsock, Integers, TLAPS

\* Leaves are for Zenon; those for the SMT solver say so.
USE ZenonT(60)

Counters == 0 .. (Wrap - 1)

-----------------------------------------------------------------------------
(***************************************************************************)
(* The invariant.                                                          *)
(***************************************************************************)

\* The packets on their way to the guest.
Inbound == IF inbox = Nothing THEN rx ELSE <<inbox>> \o rx

\* The payload of q takes a count from x to y.
Adds(q, x, y) ==
  \E b \in [0 .. Len(q) -> x .. y] :
    /\ b[0] = x /\ b[Len(q)] = y
    /\ \A i \in 1 .. Len(q) : b[i] = b[i - 1] + q[i].len
    /\ \A i, j \in 0 .. Len(q) : i <= j => b[i] <= b[j]

\* The counts that the packets of q carry are behind counter c by less and less,
\* by hi at most and by lo at least.
Lags(q, c, hi, lo) ==
  /\ lo <= hi
  /\ \A i \in 1 .. Len(q) :
       lo <= WrappingSub(c, q[i].fwd) /\ WrappingSub(c, q[i].fwd) <= hi
  /\ \A i, j \in 1 .. Len(q) :
       i <= j => WrappingSub(c, q[j].fwd) <= WrappingSub(c, q[i].fwd)

\* What the guest sent and the host peer has not taken is in the transmit queue and
\* in to_host; the guest's view of fwd_cnt is behind, and catches up.
ToHostInv ==
  /\ conn => /\ WrappingSub(gtx, gpeer) <= BUF_ALLOC
             /\ Lags(Inbound, gtx, WrappingSub(gtx, gpeer), WrappingSub(gtx, fwd_cnt))
             /\ Adds(txq, to_host, WrappingSub(gtx, fwd_cnt))
  /\ \A i \in 1 .. Len(txq) : txq[i].op # "RW" => txq[i].len = 0

\* What the device sent and the application has not read is on its way and in the
\* driver; the device's view of the guest's count is behind, and catches up.
ToGuestInv ==
  /\ conn => /\ WrappingSub(tx_cnt, peer_fwd_cnt) <= GuestBuf
             /\ Lags(txq, tx_cnt, WrappingSub(tx_cnt, peer_fwd_cnt),
                     WrappingSub(tx_cnt, gfwd))
  /\ gst = "open" => /\ WrappingSub(tx_cnt, gfwd) <= GuestBuf
                     /\ Adds(Inbound, grecv, WrappingSub(tx_cnt, gfwd))
  /\ grecv <= GuestBuf

\* One end dials, once: what is under way until the guest's socket is open.
DialInv ==
  /\ gst \in {"idle", "dialing"} =>
       /\ gtx = 0 /\ gfwd = 0 /\ gpeer = 0 /\ grecv = 0
       /\ tx_cnt = 0 /\ fwd_cnt = 0 /\ to_host = 0 /\ peer_fwd_cnt = 0
  /\ gst = "idle" =>
       /\ txq = <<>>
       /\ Inbound = IF conn THEN <<Packet("REQUEST", 0, 0)>> ELSE <<>>
  /\ gst = "dialing" =>
       \/ txq = <<Packet("REQUEST", 0, 0)>> /\ ~conn /\ Inbound = <<>> /\ hst = "idle"
       \/ txq = <<>> /\ conn /\ Inbound = <<Packet("RESPONSE", 0, 0)>>
       \/ txq = <<>> /\ ~conn /\ Inbound = <<Packet("RST", 0, 0)>> /\ hst = "idle"
  /\ waiting => gst = "idle" /\ ~conn
  /\ waiting \/ conn => hst # "idle"
  /\ \A i \in 1 .. Len(txq) : txq[i].op = "REQUEST" => gst = "dialing"

\* The end of the stream is told after its last byte.
Quiet == gst = "closed" \/ (hbuf = 0 /\ hst # "open")
EndInv ==
  /\ hst = "idle" => hbuf = 0
  /\ hbuf + hleft <= HostBytes
  /\ \A i \in 1 .. Len(txq) : txq[i].op = "SHUTDOWN" => gst = "closed"
  /\ \A i \in 1 .. Len(Inbound) :
       Inbound[i].op \in {"RST", "SHUTDOWN"} => ~conn /\ Quiet
  /\ gst = "ended" => ~conn /\ Quiet
  /\ conn /\ host_done => gst = "closed" \/ (hst = "closed" /\ (hbuf = 0 \/ to_host > 0))

VsockInv == TypeOK /\ ToHostInv /\ ToGuestInv /\ DialInv /\ EndInv

-----------------------------------------------------------------------------
(***************************************************************************)
(* Counters that wrap.                                                     *)
(***************************************************************************)

\* The constants.
LEMMA Sizes ==
  /\ {Wrap, BUF_ALLOC, GuestBuf, MaxPayload, GuestBytes, HostBytes, MaxTx, MaxAsks} \subseteq Nat \ {0}
  /\ Wrap \in Nat \ {0} /\ BUF_ALLOC \in Nat \ {0} /\ GuestBuf \in Nat \ {0}
  /\ MaxPayload \in Nat \ {0} /\ HostBytes \in Nat /\ GuestBytes \in Nat /\ MaxAsks \in Nat
  /\ BUF_ALLOC < Wrap /\ GuestBuf < Wrap
  BY VsockAssumption

\* Sums and differences of counters are counters.
LEMMA CounterTypes ==
  ASSUME NEW a \in Counters, NEW b \in Counters, NEW n \in Nat, n < Wrap
  PROVE  WrappingAdd(a, n) \in Counters /\ WrappingSub(a, b) \in Counters
  BY Sizes, SMTT(60) DEF Counters, WrappingAdd, WrappingSub

\* A counter that moves on is as much further ahead.
LEMMA MoveOn ==
  ASSUME NEW a \in Counters, NEW b \in Counters, NEW n \in Nat, WrappingSub(a, b) + n < Wrap
  PROVE  WrappingSub(WrappingAdd(a, n), b) = WrappingSub(a, b) + n
  BY Sizes, SMTT(60) DEF Counters, WrappingAdd, WrappingSub

\* One that moves on behind it catches up.
LEMMA CatchUp ==
  ASSUME NEW a \in Counters, NEW b \in Counters, NEW n \in Nat, n <= WrappingSub(a, b)
  PROVE  WrappingSub(a, WrappingAdd(b, n)) = WrappingSub(a, b) - n
  BY Sizes, SMTT(60) DEF Counters, WrappingAdd, WrappingSub

\* A distance.
LEMMA Lag ==
  ASSUME NEW a \in Counters, NEW b \in Counters
  PROVE  WrappingSub(a, b) \in Nat /\ WrappingSub(a, b) \in Int /\ WrappingSub(a, b) < Wrap
  BY Sizes, SMTT(60) DEF Counters, WrappingSub

\* No distance.
LEMMA Even == 0 \in Counters /\ WrappingSub(0, 0) = 0
  BY Sizes, SMTT(60) DEF Counters, WrappingSub

-----------------------------------------------------------------------------
(***************************************************************************)
(* Payload in a queue.                                                     *)
(***************************************************************************)

\* An empty queue adds nothing.
LEMMA AddsNil ==
  ASSUME NEW x \in Nat
  PROVE  Adds(<<>>, x, x)
  <1> DEFINE b == [i \in 0 .. 0 |-> x]
  <1>1. /\ b \in [0 .. 0 -> x .. x] /\ b[0] = x
        /\ \A i, j \in 0 .. 0 : i <= j => b[i] <= b[j]
    BY SMTT(60)
  <1>2. Len(<<>>) = 0 /\ 1 .. 0 = {}
    BY SMTT(60)
  <1> HIDE DEF b
  <1> QED
    BY <1>1, <1>2 DEF Adds

\* A queue never takes anything away.
LEMMA AddsUp ==
  ASSUME NEW P, NEW q \in Seq(P), NEW x \in Nat, NEW y \in Nat, Adds(q, x, y)
  PROVE  x <= y /\ (q = <<>> => x = y)
  <1>1. PICK b \in [0 .. Len(q) -> x .. y] : b[0] = x /\ b[Len(q)] = y
    BY DEF Adds
  <1>2. Len(q) \in Nat /\ 0 \in 0 .. Len(q) /\ (q = <<>> => Len(q) = 0)
    BY SMTT(60)
  <1> QED
    BY <1>1, <1>2, SMTT(60)

\* Queues one behind the other.
LEMMA AddsCat ==
  ASSUME NEW P, NEW q \in Seq(P), NEW r \in Seq(P),
         NEW x \in Nat, NEW y \in Nat, NEW z \in Nat, Adds(q, x, y), Adds(r, y, z)
  PROVE  Adds(q \o r, x, z)
  <1>1. PICK b \in [0 .. Len(q) -> x .. y] :
           /\ b[0] = x /\ b[Len(q)] = y
           /\ \A i \in 1 .. Len(q) : b[i] = b[i - 1] + q[i].len
           /\ \A i, j \in 0 .. Len(q) : i <= j => b[i] <= b[j]
    BY DEF Adds
  <1>2. PICK d \in [0 .. Len(r) -> y .. z] :
           /\ d[0] = y /\ d[Len(r)] = z
           /\ \A i \in 1 .. Len(r) : d[i] = d[i - 1] + r[i].len
           /\ \A i, j \in 0 .. Len(r) : i <= j => d[i] <= d[j]
    BY DEF Adds
  <1> DEFINE m == Len(q)
             n == Len(r)
             s == q \o r
             c == [i \in 0 .. m + n |-> IF i <= m THEN b[i] ELSE d[i - m]]
  <1>3. /\ m \in Nat /\ n \in Nat /\ Len(s) = m + n
        /\ \A i \in 1 .. m : s[i] = q[i]
        /\ \A i \in m + 1 .. m + n : s[i] = r[i - m]
    BY SMTT(60)
  <1>4. x <= y /\ y <= z
    BY AddsUp
  <1>5. /\ \A i \in 0 .. m : c[i] = b[i] /\ b[i] \in x .. y
        /\ \A i \in m .. m + n : i - m \in 0 .. n /\ c[i] = d[i - m] /\ d[i - m] \in y .. z
    <2>1. ASSUME NEW i \in 0 .. m PROVE c[i] = b[i] /\ b[i] \in x .. y
      <3>1. i \in 0 .. m + n /\ i <= m
        BY <1>3, SMTT(60)
      <3> QED
        BY <1>1, <3>1
    <2>2. ASSUME NEW i \in m .. m + n
          PROVE  i - m \in 0 .. n /\ c[i] = d[i - m] /\ d[i - m] \in y .. z
      <3>1. i - m \in 0 .. n /\ i \in 0 .. m + n /\ (i <= m => i = m /\ i - m = 0)
        BY <1>3, SMTT(60)
      <3> QED
        BY <1>1, <1>2, <3>1
    <2> QED
      BY <2>1, <2>2
  <1>6. c = [i \in 0 .. m + n |-> c[i]]
    OBVIOUS
  <1> HIDE DEF c, s, m, n
  <1>7. \A i \in 0 .. m + n : i \in 0 .. m \/ i \in m .. m + n
    BY <1>3, SMTT(60)
  <1>8. ASSUME NEW i \in 0 .. m + n PROVE c[i] \in x .. z
    BY <1>4, <1>5, <1>7, SMTT(60)
  <1>9. c[0] = x /\ c[m + n] = z
    <2>1. 0 \in 0 .. m /\ m + n \in m .. m + n /\ (m + n) - m = n
      BY <1>3, SMTT(60)
    <2> QED
      BY <1>1, <1>2, <1>5, <2>1 DEF m, n
  <1>11. ASSUME NEW i \in 1 .. m + n PROVE c[i] = c[i - 1] + s[i].len
    <2>1. CASE i \in 1 .. m
      <3>1. i \in 0 .. m /\ i - 1 \in 0 .. m
        BY <1>3, <2>1, SMTT(60)
      <3> QED
        BY <1>1, <1>3, <1>5, <2>1, <3>1 DEF m
    <2>2. CASE i \in m + 1 .. m + n
      <3>1. i \in m .. m + n /\ i - 1 \in m .. m + n /\ i - m \in 1 .. n /\ (i - 1) - m = (i - m) - 1
        BY <1>3, <2>2, SMTT(60)
      <3>2. d[i - m] = d[(i - m) - 1] + r[i - m].len
        BY <1>2, <3>1 DEF n
      <3> QED
        BY <1>3, <1>5, <2>2, <3>1, <3>2
    <2> QED
      BY <1>3, <2>1, <2>2, SMTT(60)
  <1>12. ASSUME NEW i \in 0 .. m + n, NEW j \in 0 .. m + n, i <= j PROVE c[i] <= c[j]
    <2>1. CASE j \in 0 .. m
      <3>1. i \in 0 .. m
        BY <1>3, <1>12, <2>1, SMTT(60)
      <3> QED
        BY <1>1, <1>5, <1>12, <2>1, <3>1 DEF m
    <2>2. CASE i \in m .. m + n
      <3>1. j \in m .. m + n /\ i - m <= j - m
        BY <1>3, <1>12, <2>2, SMTT(60)
      <3> QED
        BY <1>2, <1>5, <2>2, <3>1 DEF n
    <2>3. CASE i \in 0 .. m /\ j \in m .. m + n
      <3>1. c[i] \in x .. y /\ c[j] \in y .. z
        BY <1>5, <2>3
      <3> QED
        BY <3>1, SMTT(60)
    <2> QED
      BY <1>7, <2>1, <2>2, <2>3
  <1>13. c \in [0 .. m + n -> x .. z]
    BY <1>6, <1>8
  <1>10. Adds(s, x, z)
    BY <1>3, <1>9, <1>11, <1>12, <1>13 DEF Adds
  <1> QED
    BY <1>10 DEF s

\* A packet adds its payload.
LEMMA AddsOne ==
  ASSUME NEW p, p.len \in Nat, NEW y \in Nat
  PROVE  Adds(<<p>>, y, y + p.len)
  <1> DEFINE z == y + p.len
             c == [i \in 0 .. 1 |-> IF i = 0 THEN y ELSE z]
             q == <<p>>
  <1>1. Len(q) = 1 /\ q[1] = p
    BY SMTT(60)
  <1>2. z \in Nat /\ y <= z /\ y \in y .. z /\ z \in y .. z /\ y <= y /\ z <= z
    BY SMTT(60)
  <1>3. 0 \in 0 .. 1 /\ 1 \in 0 .. 1 /\ 0 # 1 /\ 1 - 1 = 0 /\ ~(1 <= 0)
        /\ (\A i \in 0 .. 1 : i = 0 \/ i = 1) /\ \A i \in 1 .. 1 : i = 1
    BY SMTT(60)
  <1>4. c \in [0 .. 1 -> y .. z] /\ c[0] = y /\ c[1] = z
    BY <1>2, <1>3
  <1> HIDE DEF c, q
  <1>5. \A i \in 1 .. 1 : c[i] = c[i - 1] + q[i].len
    BY <1>1, <1>3, <1>4
  <1>6. \A i, j \in 0 .. 1 : i <= j => c[i] <= c[j]
    BY <1>2, <1>3, <1>4
  <1> HIDE DEF z
  <1>7. Adds(q, y, z)
    BY <1>1, <1>4, <1>5, <1>6 DEF Adds
  <1> QED
    BY <1>7 DEF q, z

\* A packet behind the queue adds its payload.
LEMMA AddsAppend ==
  ASSUME NEW P, NEW q \in Seq(P), NEW p \in P, p.len \in Nat,
         NEW x \in Nat, NEW y \in Nat, Adds(q, x, y)
  PROVE  Adds(Append(q, p), x, y + p.len)
  <1>1. <<p>> \in Seq(P) /\ Append(q, p) = q \o <<p>> /\ y + p.len \in Nat
    BY SMTT(60)
  <1>2. Adds(<<p>>, y, y + p.len)
    BY AddsOne
  <1> QED
    BY <1>1, <1>2, AddsCat

\* The payload of the first packet is taken off the front.
LEMMA AddsTail ==
  ASSUME NEW P, NEW q \in Seq(P), q # <<>>, Head(q).len \in Nat,
         NEW x \in Nat, NEW y \in Nat, Adds(q, x, y)
  PROVE  x + Head(q).len <= y /\ Adds(Tail(q), x + Head(q).len, y)
  <1>1. PICK b \in [0 .. Len(q) -> x .. y] :
           /\ b[0] = x /\ b[Len(q)] = y
           /\ \A i \in 1 .. Len(q) : b[i] = b[i - 1] + q[i].len
           /\ \A i, j \in 0 .. Len(q) : i <= j => b[i] <= b[j]
    BY DEF Adds
  <1> DEFINE n == Len(q) - 1
             r == Tail(q)
             z == x + Head(q).len
             c == [i \in 0 .. n |-> b[i + 1]]
  <1>2. n \in Nat /\ Len(q) = n + 1 /\ Len(r) = n /\ Head(q) = q[1] /\ \A i \in 1 .. n : r[i] = q[i + 1]
    BY SMTT(60)
  <1>3. b[1] = z /\ z \in Nat /\ z <= y
    BY <1>1, <1>2, SMTT(60)
  <1>4. ASSUME NEW i \in 0 .. n PROVE c[i] \in z .. y
    BY <1>1, <1>2, <1>3, SMTT(60)
  <1>5. c[0] = z /\ c[n] = y
    BY <1>1, <1>2, <1>3, SMTT(60)
  <1>6. ASSUME NEW i \in 1 .. n PROVE c[i] = c[i - 1] + r[i].len
    BY <1>1, <1>2, SMTT(60)
  <1>7. ASSUME NEW i \in 0 .. n, NEW j \in 0 .. n, i <= j PROVE c[i] <= c[j]
    BY <1>1, <1>2, <1>7, SMTT(60)
  <1>8. c \in [0 .. n -> z .. y]
    BY <1>4
  <1> HIDE DEF c, r, z, n
  <1>9. Adds(r, z, y)
    BY <1>2, <1>5, <1>6, <1>7, <1>8 DEF Adds
  <1> QED
    BY <1>3, <1>9 DEF r, z

\* Counts move together.
LEMMA AddsShift ==
  ASSUME NEW P, \A p \in P : p.len \in Nat, NEW q \in Seq(P),
         NEW x \in Nat, NEW y \in Nat, Adds(q, x, y), NEW z \in Int, x + z \in Nat
  PROVE  Adds(q, x + z, y + z)
  <1>1. PICK b \in [0 .. Len(q) -> x .. y] :
           /\ b[0] = x /\ b[Len(q)] = y
           /\ \A i \in 1 .. Len(q) : b[i] = b[i - 1] + q[i].len
           /\ \A i, j \in 0 .. Len(q) : i <= j => b[i] <= b[j]
    BY DEF Adds
  <1> DEFINE n == Len(q)
             c == [i \in 0 .. n |-> b[i] + z]
             u == x + z
             v == y + z
  <1>2. n \in Nat
    BY SMTT(60)
  <1>4. ASSUME NEW i \in 0 .. n PROVE c[i] \in u .. v
    BY <1>1, <1>2, SMTT(60)
  <1>5. c[0] = u /\ c[n] = v
    BY <1>1, <1>2, SMTT(60)
  <1>6. ASSUME NEW i \in 1 .. n PROVE c[i] = c[i - 1] + q[i].len
    <2>1. q[i] \in P
      BY SMTT(60)
    <2> QED
      <3>1. /\ i \in 0 .. n /\ i - 1 \in 0 .. n /\ b[i] = b[i - 1] + q[i].len
            /\ b[i - 1] \in Int /\ q[i].len \in Int
        <4>1. i \in 0 .. n /\ i - 1 \in 0 .. n
          BY <1>2, SMTT(60)
        <4>2. b[i - 1] \in x .. y /\ q[i].len \in Nat
          BY <1>1, <2>1, <4>1
        <4> QED
          BY <1>1, <4>1, <4>2, SMTT(60)
      <3>2. c[i] = b[i] + z /\ c[i - 1] = b[i - 1] + z
        BY <3>1
      <3> HIDE DEF c
      <3> QED
        BY <3>1, <3>2, SMTT(60)
  <1>7. ASSUME NEW i \in 0 .. n, NEW j \in 0 .. n, i <= j PROVE c[i] <= c[j]
    BY <1>1, <1>2, <1>7, SMTT(60)
  <1>8. c \in [0 .. n -> u .. v]
    BY <1>4
  <1> HIDE DEF c, u, v, n
  <1>9. Adds(q, u, v)
    BY <1>5, <1>6, <1>7, <1>8 DEF Adds, n
  <1> QED
    BY <1>9 DEF u, v

-----------------------------------------------------------------------------
(***************************************************************************)
(* Counts carried in a queue.                                              *)
(***************************************************************************)

\* What Lags says of an empty queue.
LEMMA LagsNil ==
  ASSUME NEW c, NEW hi \in Int, NEW lo \in Int, lo <= hi
  PROVE  Lags(<<>>, c, hi, lo)
  BY SMTT(60) DEF Lags

\* A packet behind the queue has the smallest lag.
LEMMA LagsAppend ==
  ASSUME NEW P, \A p \in P : p.fwd \in Counters, NEW q \in Seq(P), NEW p \in P, NEW c \in Counters,
         NEW hi \in Int, NEW lo \in Int, Lags(q, c, hi, lo), WrappingSub(c, p.fwd) <= lo
  PROVE  Lags(Append(q, p), c, hi, WrappingSub(c, p.fwd))
  <1> DEFINE n == Len(q)
             r == Append(q, p)
             l(i) == WrappingSub(c, r[i].fwd)
             e == WrappingSub(c, p.fwd)
  <1>1. n \in Nat /\ Len(r) = n + 1 /\ r[n + 1] = p /\ \A i \in 1 .. n : r[i] = q[i] /\ r[i] \in P
    BY SMTT(60)
  <1>2. \A i \in 1 .. n + 1 : r[i] \in P
    BY <1>1, SMTT(60)
  <1>3. \A i \in 1 .. n + 1 : l(i) \in Counters
    BY <1>2, CounterTypes, Sizes, SMTT(60)
  <1>4. /\ lo <= hi /\ e \in Counters
        /\ \A i \in 1 .. n : lo <= l(i) /\ l(i) <= hi
        /\ \A i, j \in 1 .. n : i <= j => l(j) <= l(i)
    BY <1>1, CounterTypes, Sizes, SMTT(60) DEF Lags
  <1>5. l(n + 1) = e
    BY <1>1
  <1> HIDE DEF l, e
  <1>6. e <= hi /\ \A i \in 1 .. n + 1 : e <= l(i) /\ l(i) <= hi
    BY <1>1, <1>3, <1>4, <1>5, SMTT(60) DEF Counters, e
  <1>7. ASSUME NEW i \in 1 .. n + 1, NEW j \in 1 .. n + 1, i <= j PROVE l(j) <= l(i)
    <2>1. CASE j = n + 1
      BY <1>5, <1>6, <2>1
    <2>2. CASE j \in 1 .. n
      <3>1. i \in 1 .. n
        BY <1>1, <1>7, <2>2, SMTT(60)
      <3> QED
        BY <1>4, <1>7, <2>2, <3>1
    <2> QED
      BY <1>1, <2>1, <2>2, SMTT(60)
  <1> HIDE DEF r, n
  <1> QED
    BY <1>1, <1>6, <1>7 DEF Lags, l, e, r

\* The lag of the first packet bounds the others.
LEMMA LagsTail ==
  ASSUME NEW P, NEW q \in Seq(P), q # <<>>, NEW c,
         NEW hi \in Int, NEW lo \in Int, Lags(q, c, hi, lo)
  PROVE  /\ lo <= WrappingSub(c, Head(q).fwd) /\ WrappingSub(c, Head(q).fwd) <= hi
         /\ Lags(Tail(q), c, WrappingSub(c, Head(q).fwd), lo)
  <1> DEFINE n == Len(q) - 1
             r == Tail(q)
             e == WrappingSub(c, Head(q).fwd)
  <1>1. /\ n \in Nat /\ Len(q) = n + 1 /\ Len(r) = n /\ Head(q) = q[1]
        /\ \A i \in 1 .. n : r[i] = q[i + 1]
    BY SMTT(60)
  <1>2. 1 \in 1 .. n + 1 /\ \A i \in 1 .. n : i + 1 \in 1 .. n + 1 /\ 1 <= i + 1
    BY <1>1, SMTT(60)
  <1>3. \A i, j \in 1 .. n : i <= j => i + 1 <= j + 1
    BY <1>1, SMTT(60)
  <1>4. e = WrappingSub(c, q[1].fwd) /\ lo <= e /\ e <= hi
    BY <1>1, <1>2 DEF Lags
  <1>5. \A i \in 1 .. n : lo <= WrappingSub(c, r[i].fwd) /\ WrappingSub(c, r[i].fwd) <= e
    BY <1>1, <1>2, <1>4 DEF Lags
  <1>6. \A i, j \in 1 .. n : i <= j => WrappingSub(c, r[j].fwd) <= WrappingSub(c, r[i].fwd)
    BY <1>1, <1>2, <1>3 DEF Lags
  <1> HIDE DEF r, n, e
  <1>7. Lags(r, c, e, lo)
    BY <1>1, <1>4, <1>5, <1>6 DEF Lags
  <1> QED
    BY <1>4, <1>7 DEF r, e

\* The counter moves on from what the packets carry.
LEMMA LagsMove ==
  ASSUME NEW P, \A p \in P : p.fwd \in Counters, NEW q \in Seq(P), NEW c \in Counters,
         NEW n \in Nat, n < Wrap,
         NEW hi \in Nat, NEW lo \in Nat, Lags(q, c, hi, lo), hi + n < Wrap
  PROVE  Lags(q, WrappingAdd(c, n), hi + n, lo + n)
  <1> DEFINE l(i) == WrappingSub(c, q[i].fwd)
             m(i) == WrappingSub(WrappingAdd(c, n), q[i].fwd)
  <1>1. \A i \in 1 .. Len(q) : q[i] \in P
    BY SMTT(60)
  <1>2. lo <= hi /\ \A i \in 1 .. Len(q) : lo <= l(i) /\ l(i) <= hi
    BY DEF Lags
  <1>3. ASSUME NEW i \in 1 .. Len(q) PROVE l(i) \in Counters /\ m(i) = l(i) + n
    <2>1. q[i].fwd \in Counters /\ l(i) <= hi
      BY <1>1, <1>2
    <2>2. l(i) \in Counters
      BY <2>1, CounterTypes
    <2>3. l(i) + n < Wrap
      BY <2>1, <2>2, Sizes, SMTT(60) DEF Counters
    <2> QED
      BY <2>1, <2>2, <2>3, MoveOn
  <1>4. \A i, j \in 1 .. Len(q) : i <= j => l(j) <= l(i)
    BY DEF Lags
  <1> HIDE DEF l, m
  <1>5. lo + n <= hi + n
    BY <1>2, SMTT(60)
  <1>6. ASSUME NEW i \in 1 .. Len(q) PROVE lo + n <= m(i) /\ m(i) <= hi + n
    BY <1>2, <1>3, SMTT(60) DEF Counters
  <1>7. ASSUME NEW i \in 1 .. Len(q), NEW j \in 1 .. Len(q), i <= j PROVE m(j) <= m(i)
    BY <1>3, <1>4, <1>7, SMTT(60) DEF Counters
  <1> QED
    BY <1>5, <1>6, <1>7 DEF Lags, m

\* Packets that carry one count.
LEMMA LagsSame ==
  ASSUME NEW q, NEW c, NEW f, NEW hi \in Int, WrappingSub(c, f) \in Int, WrappingSub(c, f) <= hi,
         \A i \in 1 .. Len(q) : q[i].fwd = f
  PROVE  Lags(q, c, hi, WrappingSub(c, f))
  <1>1. WrappingSub(c, f) <= WrappingSub(c, f)
    BY SMTT(60)
  <1> QED
    BY <1>1 DEF Lags

-----------------------------------------------------------------------------
(***************************************************************************)
(* The packets on their way to the guest.                                  *)
(***************************************************************************)

\* TypeOK, variable by variable.
Typed ==
  /\ conn \in BOOLEAN /\ up \in BOOLEAN /\ host_done \in BOOLEAN /\ waiting \in BOOLEAN
  /\ to_host \in 0 .. BUF_ALLOC
  /\ fwd_cnt \in Counters /\ tx_cnt \in Counters /\ peer_fwd_cnt \in Counters
  /\ gfwd \in Counters /\ gtx \in Counters /\ gpeer \in Counters
  /\ peer_buf_alloc \in {0, GuestBuf}
  /\ rx \in Seq(ToGuest) /\ inbox \in ToGuest \cup {Nothing} /\ txq \in Seq(FromGuest)
  /\ gst \in {"idle", "dialing", "open", "closed", "ended"}
  /\ grecv \in Nat /\ gleft \in 0 .. GuestBytes /\ gasks \in 0 .. MaxAsks
  /\ hst \in {"idle", "open", "closed"}
  /\ hbuf \in 0 .. HostBytes /\ hleft \in 0 .. HostBytes

\* They say the same.
LEMMA TypedIs == TypeOK <=> Typed
  BY DEF TypeOK, Typed, Counters

\* ... and in the next state.
LEMMA TypedThen == TypeOK' <=> Typed'
  BY DEF TypeOK, Typed, Counters

\* What packets carry.
LEMMA PacketTypes ==
  /\ \A p \in ToGuest : p.len \in Nat /\ p.len \in 0 .. MaxPayload /\ p.fwd \in Counters
  /\ \A p \in FromGuest : p.len \in Nat /\ p.len \in 0 .. BUF_ALLOC /\ p.fwd \in Counters
  <1>1. \A n : n \in 0 .. MaxPayload \/ n \in 0 .. BUF_ALLOC => n \in Nat
    BY Sizes, SMTT(60)
  <1> QED
    BY <1>1 DEF ToGuest, FromGuest, Packets, Counters

\* The packets without payload.
LEMMA Bare ==
  ASSUME NEW fwd \in Counters
  PROVE  /\ \A op \in {"REQUEST", "RESPONSE", "RST", "SHUTDOWN", "CREDIT_UPDATE"} :
              Packet(op, 0, fwd) \in ToGuest
         /\ \A op \in {"REQUEST", "RESPONSE", "SHUTDOWN", "CREDIT_UPDATE", "CREDIT_REQUEST"} :
              Packet(op, 0, fwd) \in FromGuest
  <1>1. 0 \in 0 .. MaxPayload /\ 0 \in 0 .. BUF_ALLOC
    BY Sizes, SMTT(60)
  <1> QED
    BY <1>1 DEF Packet, ToGuest, FromGuest, Packets, Counters

\* A queue and a packet behind it.
LEMMA Appended ==
  ASSUME NEW P, NEW q \in Seq(P), NEW p \in P
  PROVE  /\ Append(q, p) \in Seq(P) /\ Append(q, p) # <<>>
         /\ \A i \in 1 .. Len(Append(q, p)) :
              Append(q, p)[i] = p \/ (i \in 1 .. Len(q) /\ Append(q, p)[i] = q[i])
  BY SMTT(60)

\* A queue without its first packet.
LEMMA Tailed ==
  ASSUME NEW P, NEW q \in Seq(P), q # <<>>
  PROVE  /\ Tail(q) \in Seq(P) /\ Head(q) \in P /\ 1 \in 1 .. Len(q) /\ Head(q) = q[1]
         /\ \A i \in 1 .. Len(Tail(q)) : i + 1 \in 1 .. Len(q) /\ Tail(q)[i] = q[i + 1]
  BY SMTT(60)

\* A queue of one packet.
LEMMA Single ==
  ASSUME NEW p
  PROVE  /\ <<p>> # <<>> /\ Head(<<p>>) = p /\ Tail(<<p>>) = <<>> /\ Append(<<>>, p) = <<p>>
         /\ Len(<<p>>) = 1 /\ <<p>>[1] = p /\ \A i \in 1 .. Len(<<p>>) : <<p>>[i] = p
  BY SMTT(60)

\* A queue and a packet before it.
LEMMA Prefixed ==
  ASSUME NEW P, NEW q \in Seq(P), NEW p \in P
  PROVE  /\ <<p>> \o q \in Seq(P) /\ <<p>> \o q # <<>>
         /\ Head(<<p>> \o q) = p /\ Tail(<<p>> \o q) = q
  BY SMTT(60)

\* A packet before and a packet behind.
LEMMA BothEnds ==
  ASSUME NEW P, NEW q \in Seq(P), NEW p \in P, NEW r \in P
  PROVE  <<p>> \o Append(q, r) = Append(<<p>> \o q, r)
  BY SMTT(60)

\* A queue taken apart and put together.
LEMMA Rejoined ==
  ASSUME NEW P, NEW q \in Seq(P), q # <<>>
  PROVE  <<Head(q)>> \o Tail(q) = q
  BY SMTT(60)

\* The packets on their way are packets.
LEMMA InboundType == Typed => Inbound \in Seq(ToGuest)
  BY Prefixed DEF Typed, Inbound

\* A packet sent is the last on its way.
LEMMA InboundSend ==
  ASSUME Typed, NEW p \in ToGuest, rx' = Append(rx, p), inbox' = inbox
  PROVE  /\ Inbound' = Append(Inbound, p)
         /\ rx' \in Seq(ToGuest) /\ inbox' \in ToGuest \cup {Nothing}
  <1>1. rx \in Seq(ToGuest) /\ inbox \in ToGuest \cup {Nothing} /\ rx' \in Seq(ToGuest)
    BY Appended DEF Typed
  <1>2. CASE inbox = Nothing
    BY <1>1, <1>2 DEF Inbound
  <1>3. CASE inbox # Nothing
    <2>1. <<inbox>> \o Append(rx, p) = Append(<<inbox>> \o rx, p)
      BY <1>1, <1>3, BothEnds
    <2> QED
      BY <1>1, <1>3, <2>1 DEF Inbound
  <1> QED
    BY <1>2, <1>3

\* Those queued when nothing is on its way.
LEMMA InboundDeliver ==
  ASSUME inbox = Nothing, rx = <<>>, NEW q \in Seq(ToGuest), Deliver(q)
  PROVE  /\ Inbound = <<>> /\ Inbound' = q
         /\ rx' \in Seq(ToGuest) /\ inbox' \in ToGuest \cup {Nothing}
  <1>1. CASE q = <<>>
    BY <1>1 DEF Deliver, Inbound
  <1>2. CASE q # <<>>
    <2>1. Tail(q) \in Seq(ToGuest) /\ Head(q) \in ToGuest /\ <<Head(q)>> \o Tail(q) = q
      BY <1>2, Tailed, Rejoined
    <2> QED
      BY <1>2, <2>1, NothingAssumption DEF Deliver, Inbound
  <1> QED
    BY <1>1, <1>2

\* A receive buffer takes a packet that is on its way already.
LEMMA InboundPoll ==
  ASSUME Typed, PollRx
  PROVE  /\ Inbound' = Inbound
         /\ rx' \in Seq(ToGuest) /\ inbox' \in ToGuest \cup {Nothing}
  <1>1. inbox = Nothing /\ rx # <<>> /\ rx \in Seq(ToGuest) /\ rx' = Tail(rx) /\ inbox' = Head(rx)
    BY DEF PollRx, Deliver, Typed
  <1>2. Tail(rx) \in Seq(ToGuest) /\ Head(rx) \in ToGuest /\ <<Head(rx)>> \o Tail(rx) = rx
    BY <1>1, Tailed, Rejoined
  <1> QED
    BY <1>1, <1>2, NothingAssumption DEF Inbound

\* The driver takes the first.
LEMMA InboundReceive ==
  ASSUME Typed, inbox # Nothing, inbox' = Nothing, rx' = rx
  PROVE  /\ Inbound # <<>> /\ inbox = Head(Inbound) /\ Inbound' = Tail(Inbound)
         /\ inbox \in ToGuest
  BY Prefixed DEF Typed, Inbound

\* Nothing moves.
LEMMA InboundSame ==
  ASSUME UNCHANGED <<rx, inbox>>
  PROVE  Inbound' = Inbound
  BY DEF Inbound

-----------------------------------------------------------------------------
(***************************************************************************)
(* What pump sends.                                                        *)
(***************************************************************************)

\* Products grow with their factors.
LEMMA Times ==
  ASSUME NEW a \in Nat, NEW b \in Nat, a <= b, NEW m \in Nat
  PROVE  a * m \in Nat /\ b * m \in Nat /\ a * m <= b * m
  <1>1. PICK d \in Nat : b = a + d
    BY SMTT(60)
  <1>2. (a + d) * m = a * m + d * m /\ a * m \in Nat /\ d * m \in Nat
    BY SMTT(60)
  <1> QED
    BY <1>1, <1>2, SMTT(60)

\* t bytes in pieces of m: k pieces hold them, and one less does not.
LEMMA Pieces ==
  ASSUME NEW t \in Nat, NEW m \in Nat \ {0}
  PROVE  LET k == (t + (m - 1)) \div m
         IN /\ k \in Nat /\ t <= k * m
            /\ \A i \in 1 .. k : (i - 1) * m \in Nat /\ (i - 1) * m < t
  <1> DEFINE a == t + (m - 1)
             k == a \div m
             r == a % m
  <1>1. a \in Nat
    BY SMTT(60)
  <1>2. k \in Nat /\ r \in 0 .. m - 1 /\ a = m * k + r
    BY <1>1, SMTT(60)
  <1> HIDE DEF k, r
  <1>3. m * k = k * m /\ k * m \in Nat
    BY <1>2, SMTT(60)
  <1>4. t <= k * m
    BY <1>2, <1>3, SMTT(60)
  <1>5. ASSUME NEW i \in 1 .. k PROVE (i - 1) * m \in Nat /\ (i - 1) * m < t
    <2>1. k - 1 \in Nat /\ i - 1 \in Nat /\ i - 1 <= k - 1
      BY <1>2, SMTT(60)
    <2>2. (i - 1) * m \in Nat /\ (k - 1) * m \in Nat /\ (i - 1) * m <= (k - 1) * m
      BY <2>1, Times
    <2>3. (k - 1) * m = k * m - m
      BY <1>2, SMTT(60)
    <2> QED
      BY <1>2, <1>3, <2>2, <2>3, SMTT(60)
  <1> QED
    BY <1>2, <1>4, <1>5 DEF k

\* A queue of n packets.
LEMMA QueueOf ==
  ASSUME NEW P, NEW n \in Nat, NEW q \in [1 .. n -> P]
  PROVE  q \in Seq(P) /\ Len(q) = n
  BY SMTT(60)

\* What is taken from the stream is under the window.
LEMMA TakenUnder ==
  ASSUME Typed
  PROVE  /\ Taken \in Nat /\ Taken <= hbuf
         /\ WrappingSub(tx_cnt, peer_fwd_cnt) <= GuestBuf
              => WrappingSub(tx_cnt, peer_fwd_cnt) + Taken <= GuestBuf
         /\ up /\ Taken < GuestWindow => Taken = hbuf
  <1>1. /\ hbuf \in Nat /\ GuestBuf \in Nat /\ peer_buf_alloc \in {0, GuestBuf}
        /\ WrappingSub(tx_cnt, peer_fwd_cnt) \in Nat /\ up \in BOOLEAN
    BY Sizes, Lag, SMTT(60) DEF Typed
  <1> DEFINE d == WrappingSub(tx_cnt, peer_fwd_cnt)
             g == GuestWindow
  <1>2. g = IF d <= peer_buf_alloc THEN peer_buf_alloc - d ELSE 0
    BY DEF GuestWindow
  <1>3. Taken = IF up THEN Least(g, hbuf) ELSE 0
    BY DEF Taken
  <1> HIDE DEF d, g
  <1>4. d \in Nat
    BY <1>1 DEF d
  <1>5. g \in Nat /\ (d <= GuestBuf => d + g <= GuestBuf)
    BY <1>1, <1>2, <1>4, SMTT(60)
  <1>6. /\ Taken \in Nat /\ Taken <= hbuf
        /\ d <= GuestBuf => d + Taken <= GuestBuf
        /\ up /\ Taken < g => Taken = hbuf
    BY <1>1, <1>3, <1>4, <1>5, SMTT(60) DEF Least
  <1> QED
    BY <1>6 DEF d, g

\* The packets that carry it.
LEMMA DataIs ==
  ASSUME Typed, NEW fwd \in Counters
  PROVE  /\ DataPackets(fwd) \in Seq(ToGuest)
         /\ \A i \in 1 .. Len(DataPackets(fwd)) :
              DataPackets(fwd)[i].op = "RW" /\ DataPackets(fwd)[i].fwd = fwd
         /\ Adds(DataPackets(fwd), 0, Taken)
  <1> DEFINE t == Taken
             m == MaxPayload
             k == (t + (m - 1)) \div m
             q == DataPackets(fwd)
             len(i) == Least(m, t - ((i - 1) * m))
             b == [i \in 0 .. k |-> Least(t, i * m)]
  <1>1. t \in Nat /\ m \in Nat \ {0}
    BY TakenUnder, Sizes
  <1>2. /\ k \in Nat /\ t <= k * m
        /\ \A i \in 1 .. k : (i - 1) * m \in Nat /\ (i - 1) * m < t
    BY <1>1, Pieces
  <1>3. q = [i \in 1 .. k |-> Packet("RW", len(i), fwd)]
    BY DEF DataPackets
  <1> HIDE DEF k, q, t, m
  <1>4. ASSUME NEW i \in 1 .. k PROVE len(i) \in 0 .. m
    BY <1>1, <1>2, SMTT(60) DEF Least
  <1>5. ASSUME NEW i \in 1 .. k
        PROVE  q[i] \in ToGuest /\ q[i].op = "RW" /\ q[i].fwd = fwd /\ q[i].len = len(i)
    <2> HIDE DEF len
    <2>1. q[i] = Packet("RW", len(i), fwd) /\ len(i) \in 0 .. MaxPayload
      BY <1>3, <1>4 DEF m
    <2> DEFINE p == Packet("RW", len(i), fwd)
    <2>2. p \in ToGuest /\ p.op = "RW" /\ p.fwd = fwd /\ p.len = len(i)
      BY <2>1 DEF Packet, ToGuest, Packets, Counters
    <2> HIDE DEF p
    <2>3. q[i] = p
      BY <2>1 DEF p
    <2> QED
      BY <2>2, <2>3
  <1>6. q \in Seq(ToGuest) /\ Len(q) = k
    <2>1. q \in [1 .. k -> ToGuest]
      BY <1>3, <1>5
    <2> QED
      BY <1>2, <2>1, QueueOf
  <1>7. ASSUME NEW i \in 0 .. k PROVE i * m \in Nat /\ b[i] = Least(t, i * m) /\ b[i] \in 0 .. t
    <2>1. i * m \in Nat
      BY <1>1, <1>2, Times, SMTT(60)
    <2> QED
      BY <1>1, <2>1, SMTT(60) DEF Least
  <1>8. b[0] = 0 /\ b[k] = t
    <2>1. 0 \in 0 .. k /\ k \in 0 .. k /\ 0 * m = 0
      BY <1>1, <1>2, SMTT(60)
    <2>2. b[0] = Least(t, 0) /\ b[k] = Least(t, k * m) /\ k * m \in Nat
      BY <1>7, <2>1
    <2> QED
      BY <1>1, <1>2, <2>2, SMTT(60) DEF Least
  <1> HIDE DEF b
  <1>9. ASSUME NEW i \in 1 .. k PROVE b[i] = b[i - 1] + q[i].len
    <2>1. i \in 0 .. k /\ i - 1 \in 0 .. k
      BY <1>2, SMTT(60)
    <2>2. i * m = (i - 1) * m + m
      BY <1>1, SMTT(60)
    <2>3. /\ b[i] = Least(t, i * m) /\ b[i - 1] = Least(t, (i - 1) * m)
          /\ (i - 1) * m \in Nat /\ (i - 1) * m < t
          /\ q[i].len = Least(m, t - ((i - 1) * m))
      BY <1>2, <1>5, <1>7, <2>1
    <2> DEFINE c == (i - 1) * m
    <2> HIDE DEF c
    <2>4. /\ b[i] = Least(t, c + m) /\ b[i - 1] = Least(t, c) /\ c \in Nat /\ c < t
          /\ q[i].len = Least(m, t - c)
      BY <2>2, <2>3 DEF c
    <2> QED
      BY <1>1, <2>4, SMTT(60) DEF Least
  <1>10. ASSUME NEW i \in 0 .. k, NEW j \in 0 .. k, i <= j PROVE b[i] <= b[j]
    <2>1. i \in Nat /\ j \in Nat /\ m \in Nat
      BY <1>1, <1>2, SMTT(60)
    <2>2. i * m \in Nat /\ j * m \in Nat /\ i * m <= j * m
      BY <1>10, <2>1, Times
    <2>3. b[i] = Least(t, i * m) /\ b[j] = Least(t, j * m)
      BY <1>7
    <2> QED
      BY <1>1, <2>2, <2>3, SMTT(60) DEF Least
  <1>11. b \in [0 .. k -> 0 .. t]
    <2>1. b = [i \in 0 .. k |-> b[i]]
      BY DEF b
    <2> QED
      BY <1>7, <2>1
  <1>12. Adds(q, 0, t)
    BY <1>6, <1>8, <1>9, <1>10, <1>11 DEF Adds
  <1> QED
    BY <1>5, <1>6, <1>12 DEF q, t

\* Queues one behind the other.
LEMMA Joined ==
  ASSUME NEW P, NEW q \in Seq(P), NEW r \in Seq(P)
  PROVE  /\ q \o r \in Seq(P)
         /\ \A i \in 1 .. Len(q \o r) :
              \/ i \in 1 .. Len(q) /\ (q \o r)[i] = q[i]
              \/ i - Len(q) \in 1 .. Len(r) /\ (q \o r)[i] = r[i - Len(q)]
  BY SMTT(60)

\* The packets of one call of pump.
PumpQueue(w, fwd, dead) ==
  CreditUpdate(w, fwd) \o DataPackets(fwd)
    \o IF dead THEN <<Packet("SHUTDOWN", 0, fwd)>> ELSE <<>>

\* They carry one count, what was taken, and the end if there is one.
LEMMA PumpSends ==
  ASSUME Typed, NEW w, NEW fwd \in Counters, NEW dead \in BOOLEAN, NEW g \in Nat
  PROVE  LET q == PumpQueue(w, fwd, dead)
         IN /\ q \in Seq(ToGuest)
            /\ \A i \in 1 .. Len(q) : q[i].fwd = fwd /\ (q[i].op \in {"RST", "SHUTDOWN"} => dead)
            /\ Adds(q, g, g + Taken)
  <1> DEFINE a == CreditUpdate(w, fwd)
             b == DataPackets(fwd)
             c == IF dead THEN <<Packet("SHUTDOWN", 0, fwd)>> ELSE <<>>
             q == PumpQueue(w, fwd, dead)
             t == Taken
             Fine(r) == /\ r \in Seq(ToGuest)
                        /\ \A i \in 1 .. Len(r) :
                             r[i].fwd = fwd /\ (r[i].op \in {"RST", "SHUTDOWN"} => dead)
  <1>1. ASSUME NEW r, NEW s, Fine(r), Fine(s) PROVE Fine(r \o s)
    <2>1. r \o s \in Seq(ToGuest)
      BY <1>1, Joined
    <2>2. ASSUME NEW i \in 1 .. Len(r \o s)
          PROVE  (r \o s)[i].fwd = fwd /\ ((r \o s)[i].op \in {"RST", "SHUTDOWN"} => dead)
      <3>1. \/ i \in 1 .. Len(r) /\ (r \o s)[i] = r[i]
            \/ i - Len(r) \in 1 .. Len(s) /\ (r \o s)[i] = s[i - Len(r)]
        BY <1>1, Joined
      <3> QED
        BY <1>1, <3>1
    <2> QED
      BY <2>1, <2>2
  <1>2. Fine(<<>>) /\ Adds(<<>>, g, g) /\ Adds(<<>>, g + t, g + t)
    <2>1. <<>> \in Seq(ToGuest) /\ (\A i \in 1 .. Len(<<>>) : FALSE) /\ g + t \in Nat
      BY TakenUnder, SMTT(60)
    <2> QED
      BY <2>1, AddsNil
  <1>3. ASSUME NEW op \in {"CREDIT_UPDATE", "SHUTDOWN"}, op = "SHUTDOWN" => dead, NEW x \in Nat
        PROVE  Fine(<<Packet(op, 0, fwd)>>) /\ Adds(<<Packet(op, 0, fwd)>>, x, x)
    <2> DEFINE p == Packet(op, 0, fwd)
    <2>1. p \in ToGuest /\ p.len = 0 /\ p.op = op /\ p.fwd = fwd
      <3>1. op \in {"REQUEST", "RESPONSE", "RST", "SHUTDOWN", "CREDIT_UPDATE"}
        OBVIOUS
      <3>2. p.len = 0 /\ p.op = op /\ p.fwd = fwd
        BY DEF Packet
      <3> QED
        BY <3>1, <3>2, Bare
    <2> HIDE DEF p
    <2>2. <<p>> \in Seq(ToGuest) /\ x + p.len = x /\ p.len \in Nat
      BY <2>1, SMTT(60)
    <2>3. Adds(<<p>>, x, x)
      BY <2>2, AddsOne
    <2>4. op \notin {"RST", "SHUTDOWN"} \/ dead
      BY <1>3
    <2> QED
      BY <2>1, <2>2, <2>3, <2>4, Single DEF p
  <1>4. Fine(a) /\ Adds(a, g, g)
    BY <1>2, <1>3 DEF CreditUpdate
  <1>5. Fine(b) /\ Adds(b, g, g + t)
    <2>1. /\ b \in Seq(ToGuest) /\ Adds(b, 0, t)
          /\ \A i \in 1 .. Len(b) : b[i].op = "RW" /\ b[i].fwd = fwd
      BY DataIs
    <2>2. t \in Nat /\ 0 \in Nat /\ 0 + g = g /\ t + g = g + t /\ g \in Int /\ 0 + g \in Nat
      BY TakenUnder, SMTT(60)
    <2> HIDE DEF b, t
    <2>3. Adds(b, 0 + g, t + g)
      BY <2>1, <2>2, PacketTypes, AddsShift
    <2> QED
      BY <2>1, <2>2, <2>3
  <1>6. Fine(c) /\ Adds(c, g + t, g + t)
    <2>1. g + t \in Nat
      BY TakenUnder, SMTT(60)
    <2> QED
      BY <1>2, <1>3, <2>1
  <1>7. t \in Nat /\ g + t \in Nat
    BY TakenUnder, SMTT(60)
  <1>8. q = (a \o b) \o c
    BY DEF PumpQueue
  <1> HIDE DEF a, b, c, q, t
  <1>9. Fine(a \o b) /\ Adds(a \o b, g, g + t)
    BY <1>1, <1>4, <1>5, <1>7, AddsCat
  <1>10. Fine(q) /\ Adds(q, g, g + t)
    BY <1>1, <1>6, <1>7, <1>8, <1>9, AddsCat
  <1> QED
    BY <1>10 DEF q, t

-----------------------------------------------------------------------------
(***************************************************************************)
(* The dial, and the packets the device takes.                             *)
(***************************************************************************)

\* Nothing is in an empty queue.
LEMMA Empty == \A i \in 1 .. Len(<<>>) : FALSE
  BY SMTT(60)

\* Counts that have not moved.
LEMMA FreshInv ==
  ASSUME conn' => Inbound' = <<Packet("REQUEST", 0, 0)>> \/ Inbound' = <<Packet("RESPONSE", 0, 0)>>,
         gtx' = 0, gpeer' = 0, fwd_cnt' = 0, to_host' = 0, txq' = <<>>,
         tx_cnt' = 0, peer_fwd_cnt' = 0, gfwd' = 0, grecv' = 0, gst' # "open"
  PROVE  ToHostInv' /\ ToGuestInv'
  <1>1. WrappingSub(0, 0) = 0 /\ 0 \in Nat /\ 0 \in Int /\ 0 <= 0
    BY Even, SMTT(60)
  <1>2. 0 <= BUF_ALLOC /\ 0 <= GuestBuf
    BY Sizes, SMTT(60)
  <1>3. Adds(<<>>, 0, 0) /\ Lags(<<>>, 0, 0, 0)
    BY <1>1, AddsNil, LagsNil
  <1>4. ASSUME NEW p, p.fwd = 0 PROVE Lags(<<p>>, 0, 0, 0)
    <2>1. \A i \in 1 .. Len(<<p>>) : <<p>>[i].fwd = 0
      BY <1>4, Single
    <2>2. Lags(<<p>>, 0, 0, WrappingSub(0, 0))
      BY <1>1, <2>1, LagsSame
    <2> QED
      BY <1>1, <2>2
  <1>5. conn' => Lags(Inbound', 0, 0, 0)
    BY <1>4 DEF Packet
  <1>6. ToHostInv'
    BY <1>1, <1>2, <1>3, <1>5, Empty DEF ToHostInv
  <1> QED
    BY <1>1, <1>2, <1>3, <1>6 DEF ToGuestInv

\* A REQUEST is taken before anything else happened.
LEMMA DialTaken ==
  ASSUME VsockInv, Taking("REQUEST")
  PROVE  /\ gst = "dialing" /\ ~conn /\ txq' = <<>> /\ Inbound = <<>> /\ hst = "idle" /\ hbuf = 0
         /\ Head(txq).fwd = 0 /\ ~waiting
         /\ gtx = 0 /\ gfwd = 0 /\ gpeer = 0 /\ grecv = 0
         /\ tx_cnt = 0 /\ fwd_cnt = 0 /\ to_host = 0 /\ peer_fwd_cnt = 0
  <1>1. /\ txq # <<>> /\ Head(txq).op = "REQUEST" /\ txq' = Tail(txq)
        /\ DialInv /\ EndInv /\ txq \in Seq(FromGuest)
    BY TypedIs DEF Taking, VsockInv, Typed
  <1>2. 1 \in 1 .. Len(txq) /\ Head(txq) = txq[1]
    BY <1>1, Tailed
  <1>3. gst = "dialing"
    BY <1>1, <1>2 DEF DialInv
  <1>4. txq = <<Packet("REQUEST", 0, 0)>> /\ ~conn /\ Inbound = <<>> /\ hst = "idle"
    BY <1>1, <1>3 DEF DialInv
  <1>5. Head(txq) = Packet("REQUEST", 0, 0) /\ Tail(txq) = <<>>
    BY <1>4, Single
  <1>6. Packet("REQUEST", 0, 0).fwd = 0
    BY DEF Packet
  <1>7. Head(txq).fwd = 0
    BY <1>5, <1>6
  <1> QED
    BY <1>1, <1>3, <1>4, <1>5, <1>7 DEF DialInv, EndInv

\* The guest's dial is answered.
LEMMA OnRequestKeeps ==
  ASSUME VsockInv, OnRequest
  PROVE  VsockInv'
  <1>1. /\ gst = "dialing" /\ txq' = <<>> /\ Inbound = <<>> /\ hbuf = 0
        /\ Head(txq).fwd = 0 /\ ~waiting
        /\ gtx = 0 /\ gfwd = 0 /\ gpeer = 0 /\ grecv = 0 /\ fwd_cnt = 0 /\ to_host = 0
    BY DialTaken DEF OnRequest
  <1>2. Typed /\ EndInv
    BY TypedIs DEF VsockInv
  <1> DEFINE p == Packet("RESPONSE", 0, 0)
  <1>3. /\ conn' = TRUE /\ up' = TRUE /\ host_done' = FALSE /\ to_host' = 0
        /\ fwd_cnt' = 0 /\ tx_cnt' = 0 /\ peer_fwd_cnt' = 0 /\ peer_buf_alloc' = GuestBuf
        /\ rx' = Append(rx, p) /\ hst' = "open"
        /\ inbox' = inbox /\ gst' = gst /\ grecv' = grecv /\ gfwd' = gfwd /\ gtx' = gtx
        /\ gpeer' = gpeer /\ gleft' = gleft /\ gasks' = gasks
        /\ waiting' = waiting /\ hbuf' = hbuf /\ hleft' = hleft
    BY <1>1 DEF OnRequest, Send, guestVars
  <1>4. p \in ToGuest
    BY Bare, Even
  <1>5. /\ Inbound' = <<p>> /\ rx' \in Seq(ToGuest) /\ inbox' \in ToGuest \cup {Nothing}
    <2>1. Append(<<>>, p) = <<p>>
      BY Single
    <2> HIDE DEF p
    <2> QED
      BY <1>1, <1>2, <1>3, <1>4, <2>1, InboundSend
  <1>6. Typed'
    <2>1. 0 \in Counters /\ 0 \in 0 .. BUF_ALLOC /\ <<>> \in Seq(FromGuest)
      BY Even, Sizes, SMTT(60)
    <2> QED
      BY <1>1, <1>2, <1>3, <1>5, <2>1 DEF Typed
  <1>7. ToHostInv' /\ ToGuestInv'
    BY <1>1, <1>3, <1>5, FreshInv
  <1>8. DialInv'
    BY <1>1, <1>3, <1>5, Empty DEF DialInv
  <1>9. EndInv'
    <2>1. p.op = "RESPONSE"
      BY DEF Packet
    <2> HIDE DEF p
    <2>2. \A i \in 1 .. Len(<<p>>) : <<p>>[i].op = "RESPONSE"
      BY <2>1, Single
    <2> QED
      BY <1>1, <1>2, <1>3, <1>5, <2>2, Empty DEF EndInv
  <1> QED
    BY <1>6, <1>7, <1>8, <1>9, TypedThen DEF VsockInv

\* The guest's dial is refused.
LEMMA OnRequestRefusedKeeps ==
  ASSUME VsockInv, OnRequestRefused
  PROVE  VsockInv'
  <1>1. /\ gst = "dialing" /\ ~conn /\ txq' = <<>> /\ Inbound = <<>> /\ hst = "idle" /\ hbuf = 0
        /\ ~waiting /\ gtx = 0 /\ gfwd = 0 /\ gpeer = 0 /\ grecv = 0
        /\ tx_cnt = 0 /\ fwd_cnt = 0 /\ to_host = 0 /\ peer_fwd_cnt = 0
    BY DialTaken DEF OnRequestRefused
  <1>2. Typed /\ EndInv
    BY TypedIs DEF VsockInv
  <1> DEFINE p == Packet("RST", 0, 0)
  <1>3. /\ conn' = conn /\ up' = up /\ host_done' = host_done /\ to_host' = to_host
        /\ fwd_cnt' = fwd_cnt /\ tx_cnt' = tx_cnt /\ peer_fwd_cnt' = peer_fwd_cnt
        /\ peer_buf_alloc' = peer_buf_alloc
        /\ rx' = Append(rx, p) /\ hst' = hst
        /\ inbox' = inbox /\ gst' = gst /\ grecv' = grecv /\ gfwd' = gfwd /\ gtx' = gtx
        /\ gpeer' = gpeer /\ gleft' = gleft /\ gasks' = gasks
        /\ waiting' = waiting /\ hbuf' = hbuf /\ hleft' = hleft
    BY DEF OnRequestRefused, Send, connVars, guestVars, hostVars
  <1>4. p \in ToGuest
    BY Bare, Even
  <1>5. /\ Inbound' = <<p>> /\ rx' \in Seq(ToGuest) /\ inbox' \in ToGuest \cup {Nothing}
    <2>1. Append(<<>>, p) = <<p>>
      BY Single
    <2> HIDE DEF p
    <2> QED
      BY <1>1, <1>2, <1>3, <1>4, <2>1, InboundSend
  <1>6. Typed'
    <2>1. <<>> \in Seq(FromGuest)
      BY SMTT(60)
    <2> QED
      BY <1>1, <1>2, <1>3, <1>5, <2>1 DEF Typed
  <1>7. ToHostInv' /\ ToGuestInv'
    BY <1>1, <1>3, FreshInv
  <1>8. DialInv'
    BY <1>1, <1>3, <1>5, Empty DEF DialInv
  <1>9. EndInv'
    BY <1>1, <1>2, <1>3, Empty DEF EndInv, Quiet
  <1> QED
    BY <1>6, <1>7, <1>8, <1>9, TypedThen DEF VsockInv

\* What is left of the transmit queue once a packet has been taken.
LEMMA OtherTaken ==
  ASSUME VsockInv, NEW op, op # "REQUEST", Taking(op)
  PROVE  /\ gst \notin {"idle", "dialing"} /\ ~waiting
         /\ txq # <<>> /\ Head(txq) \in FromGuest /\ Head(txq).op = op
         /\ (op = "SHUTDOWN" => gst = "closed") /\ (op # "RW" => Head(txq).len = 0)
         /\ txq' = Tail(txq) /\ txq' \in Seq(FromGuest)
         /\ \A i \in 1 .. Len(txq') : /\ txq'[i].op = "REQUEST" => gst = "dialing"
                                      /\ txq'[i].op = "SHUTDOWN" => gst = "closed"
                                      /\ txq'[i].op # "RW" => txq'[i].len = 0
  <1>1. /\ txq # <<>> /\ Head(txq).op = op /\ txq' = Tail(txq)
        /\ DialInv /\ EndInv /\ ToHostInv /\ txq \in Seq(FromGuest)
    BY TypedIs DEF Taking, VsockInv, Typed
  <1>2. /\ 1 \in 1 .. Len(txq) /\ Head(txq) = txq[1] /\ Head(txq) \in FromGuest
        /\ txq' \in Seq(FromGuest)
        /\ \A i \in 1 .. Len(txq') : i + 1 \in 1 .. Len(txq) /\ txq'[i] = txq[i + 1]
    BY <1>1, Tailed
  <1>3. gst # "dialing"
    <2> SUFFICES ASSUME gst = "dialing" PROVE FALSE
      OBVIOUS
    <2>1. txq = <<Packet("REQUEST", 0, 0)>>
      BY <1>1 DEF DialInv
    <2>2. Head(txq) = Packet("REQUEST", 0, 0)
      BY <2>1, Single
    <2>3. Packet("REQUEST", 0, 0).op = "REQUEST"
      BY DEF Packet
    <2> QED
      BY <1>1, <2>2, <2>3
  <1>4. gst # "idle" /\ ~waiting
    BY <1>1 DEF DialInv
  <1>5. (op = "SHUTDOWN" => gst = "closed") /\ (op # "RW" => Head(txq).len = 0)
    BY <1>1, <1>2 DEF EndInv, ToHostInv
  <1>6. \A i \in 1 .. Len(txq') : /\ txq'[i].op = "REQUEST" => gst = "dialing"
                                  /\ txq'[i].op = "SHUTDOWN" => gst = "closed"
                                  /\ txq'[i].op # "RW" => txq'[i].len = 0
    BY <1>1, <1>2 DEF EndInv, ToHostInv, DialInv
  <1> QED
    BY <1>1, <1>2, <1>3, <1>4, <1>5, <1>6

\* Every packet taken brings the guest's count.
LEMMA RefreshKeeps ==
  ASSUME VsockInv, txq # <<>>, txq' = Tail(txq), Refresh, conn' = conn, tx_cnt' = tx_cnt, gfwd' = gfwd
  PROVE  /\ peer_fwd_cnt' \in Counters /\ peer_buf_alloc' \in {0, GuestBuf}
         /\ conn' => /\ WrappingSub(tx_cnt', peer_fwd_cnt') <= GuestBuf
                     /\ Lags(txq', tx_cnt', WrappingSub(tx_cnt', peer_fwd_cnt'),
                             WrappingSub(tx_cnt', gfwd'))
  <1>1. Typed /\ ToGuestInv
    BY TypedIs DEF VsockInv
  <1>2. Head(txq) \in FromGuest /\ Head(txq).fwd \in Counters
    BY <1>1, Tailed, PacketTypes DEF Typed
  <1>3. CASE ~conn
    BY <1>1, <1>3 DEF Refresh, Typed
  <1>4. CASE conn
    <2> DEFINE a == WrappingSub(tx_cnt, peer_fwd_cnt)
               e == WrappingSub(tx_cnt, Head(txq).fwd)
               l == WrappingSub(tx_cnt, gfwd)
    <2>1. a <= GuestBuf /\ Lags(txq, tx_cnt, a, l)
      BY <1>1, <1>4 DEF ToGuestInv
    <2>2. a \in Int /\ e \in Int /\ l \in Int
      BY <1>1, <1>2, Lag DEF Typed
    <2>3. e <= a /\ Lags(Tail(txq), tx_cnt, e, l)
      BY <1>1, <2>1, <2>2, LagsTail DEF Typed
    <2>4. peer_fwd_cnt' = Head(txq).fwd /\ peer_buf_alloc' = GuestBuf
      BY <1>4 DEF Refresh
    <2>5. e <= GuestBuf
      <3> HIDE DEF a, e
      <3> QED
        BY <2>1, <2>2, <2>3, Sizes, SMTT(60)
    <2> QED
      BY <1>2, <2>3, <2>4, <2>5
  <1> QED
    BY <1>1, <1>3, <1>4 DEF Typed

\* A guest within its credit does not overrun to_host.
LEMMA NoOverrun ==
  ASSUME VsockInv, conn, txq # <<>>
  PROVE  /\ Head(txq).len \in Nat /\ to_host \in Nat /\ to_host + Head(txq).len <= BUF_ALLOC
         /\ Adds(Tail(txq), to_host + Head(txq).len, WrappingSub(gtx, fwd_cnt))
  <1> DEFINE d == WrappingSub(gtx, fwd_cnt)
             a == WrappingSub(gtx, gpeer)
  <1>1. Typed /\ ToHostInv
    BY TypedIs DEF VsockInv
  <1>2. to_host \in Nat /\ BUF_ALLOC \in Nat
    BY <1>1, Sizes, SMTT(60) DEF Typed
  <1>3. txq \in Seq(FromGuest) /\ d \in Nat /\ a \in Nat /\ Adds(txq, to_host, d)
    BY <1>1, Lag DEF Typed, ToHostInv
  <1>4. a <= BUF_ALLOC /\ d <= a
    BY <1>1 DEF ToHostInv, Lags
  <1>5. Head(txq).len \in Nat
    BY <1>3, Tailed, PacketTypes
  <1> HIDE DEF d, a
  <1>6. to_host + Head(txq).len <= d /\ Adds(Tail(txq), to_host + Head(txq).len, d)
    BY <1>2, <1>3, <1>5, AddsTail
  <1>7. to_host + Head(txq).len <= BUF_ALLOC
    BY <1>2, <1>3, <1>4, <1>5, <1>6, SMTT(60)
  <1> QED
    BY <1>2, <1>5, <1>6, <1>7 DEF d

\* An answer to a credit request leaves the rest as it was.
LEMMA SendKeeps ==
  ASSUME VsockInv, NEW p \in ToGuest, p.len = 0, p.op = "CREDIT_UPDATE", conn => p.fwd = fwd_cnt,
         rx' = Append(rx, p), inbox' = inbox
  PROVE  /\ rx' \in Seq(ToGuest) /\ inbox' \in ToGuest \cup {Nothing}
         /\ conn => Lags(Inbound', gtx, WrappingSub(gtx, gpeer), WrappingSub(gtx, fwd_cnt))
         /\ gst = "open" => Adds(Inbound', grecv, WrappingSub(tx_cnt, gfwd))
         /\ \A i \in 1 .. Len(Inbound') :
              Inbound'[i].op \in {"RST", "SHUTDOWN"} => ~conn /\ Quiet
  <1>1. Typed /\ ToHostInv /\ ToGuestInv /\ EndInv
    BY TypedIs DEF VsockInv
  <1>2. Inbound \in Seq(ToGuest)
    BY <1>1, InboundType
  <1>3. Inbound' = Append(Inbound, p) /\ rx' \in Seq(ToGuest) /\ inbox' \in ToGuest \cup {Nothing}
    BY <1>1, InboundSend
  <1>4. ASSUME conn
        PROVE  Lags(Inbound', gtx, WrappingSub(gtx, gpeer), WrappingSub(gtx, fwd_cnt))
    <2> DEFINE a == WrappingSub(gtx, gpeer)
               d == WrappingSub(gtx, fwd_cnt)
    <2>1. a \in Int /\ d \in Int /\ d <= d /\ gtx \in Counters
      BY <1>1, Lag, SMTT(60) DEF Typed
    <2>2. Lags(Inbound, gtx, a, d) /\ d = WrappingSub(gtx, p.fwd)
      BY <1>1, <1>4 DEF ToHostInv
    <2>3. \A r \in ToGuest : r.fwd \in Counters
      BY PacketTypes
    <2> HIDE DEF a, d
    <2>4. Lags(Append(Inbound, p), gtx, a, WrappingSub(gtx, p.fwd))
      BY <1>2, <2>1, <2>2, <2>3, LagsAppend
    <2> QED
      BY <1>3, <2>2, <2>4 DEF a, d
  <1>5. ASSUME gst = "open" PROVE Adds(Inbound', grecv, WrappingSub(tx_cnt, gfwd))
    <2> DEFINE e == WrappingSub(tx_cnt, gfwd)
    <2>1. e \in Nat /\ grecv \in Nat /\ Adds(Inbound, grecv, e)
      BY <1>1, <1>5, Lag DEF Typed, ToGuestInv
    <2>2. p.len \in Nat /\ e + p.len = e
      BY <2>1, SMTT(60)
    <2> HIDE DEF e
    <2>3. Adds(Append(Inbound, p), grecv, e + p.len)
      BY <1>2, <2>1, <2>2, AddsAppend
    <2> QED
      BY <1>3, <2>2, <2>3 DEF e
  <1>6. ASSUME NEW i \in 1 .. Len(Inbound'), Inbound'[i].op \in {"RST", "SHUTDOWN"}
        PROVE  ~conn /\ Quiet
    <2>1. Inbound'[i] = p \/ (i \in 1 .. Len(Inbound) /\ Inbound'[i] = Inbound[i])
      <3>1. \A k \in 1 .. Len(Append(Inbound, p)) :
              \/ Append(Inbound, p)[k] = p
              \/ k \in 1 .. Len(Inbound) /\ Append(Inbound, p)[k] = Inbound[k]
        BY <1>2, Appended, SMTT(60)
      <3> QED
        BY <1>3, <3>1
    <2>2. Inbound'[i] # p
      BY <1>6
    <2> QED
      BY <1>1, <1>6, <2>1, <2>2 DEF EndInv
  <1> QED
    BY <1>3, <1>4, <1>5, <1>6

\* A packet of a connection is taken: payload goes to to_host, and the device sends a
\* credit update at most.
LEMMA TakingKeeps ==
  ASSUME VsockInv, NEW op, op # "REQUEST", Taking(op), Refresh,
         conn' = conn, fwd_cnt' = fwd_cnt, tx_cnt' = tx_cnt, UNCHANGED guestVars, UNCHANGED hostVars,
         up' \in BOOLEAN, host_done' \in BOOLEAN,
         to_host' = IF conn THEN to_host + Head(txq).len ELSE to_host,
         conn /\ host_done' => host_done \/ gst = "closed",
         rx' = rx \/ rx' = Append(rx, Packet("CREDIT_UPDATE", 0, IF conn THEN fwd_cnt ELSE 0))
  PROVE  VsockInv'
  <1>1. Typed /\ ToHostInv /\ ToGuestInv /\ DialInv /\ EndInv
    BY TypedIs DEF VsockInv
  <1>2. /\ inbox' = inbox /\ gst' = gst /\ grecv' = grecv /\ gfwd' = gfwd /\ gtx' = gtx
        /\ gpeer' = gpeer /\ gleft' = gleft /\ gasks' = gasks
        /\ waiting' = waiting /\ hst' = hst /\ hbuf' = hbuf /\ hleft' = hleft
    BY DEF guestVars, hostVars
  <1>3. /\ gst \notin {"idle", "dialing"} /\ ~waiting
        /\ txq # <<>> /\ txq' = Tail(txq) /\ txq' \in Seq(FromGuest)
        /\ \A i \in 1 .. Len(txq') : /\ txq'[i].op = "REQUEST" => gst = "dialing"
                                     /\ txq'[i].op = "SHUTDOWN" => gst = "closed"
                                     /\ txq'[i].op # "RW" => txq'[i].len = 0
    BY OtherTaken
  <1>4. /\ peer_fwd_cnt' \in Counters /\ peer_buf_alloc' \in {0, GuestBuf}
        /\ conn' => /\ WrappingSub(tx_cnt', peer_fwd_cnt') <= GuestBuf
                    /\ Lags(txq', tx_cnt', WrappingSub(tx_cnt', peer_fwd_cnt'),
                            WrappingSub(tx_cnt', gfwd'))
    BY <1>2, <1>3, RefreshKeeps
  <1>5. /\ rx' \in Seq(ToGuest) /\ inbox' \in ToGuest \cup {Nothing}
        /\ conn => Lags(Inbound', gtx, WrappingSub(gtx, gpeer), WrappingSub(gtx, fwd_cnt))
        /\ gst = "open" => Adds(Inbound', grecv, WrappingSub(tx_cnt, gfwd))
        /\ \A i \in 1 .. Len(Inbound') :
             Inbound'[i].op \in {"RST", "SHUTDOWN"} => ~conn /\ Quiet
    <2>1. CASE rx' = rx
      <3>1. Inbound' = Inbound
        BY <1>2, <2>1, InboundSame
      <3> QED
        BY <1>1, <1>2, <2>1, <3>1 DEF Typed, ToHostInv, ToGuestInv, EndInv
    <2>2. CASE rx' = Append(rx, Packet("CREDIT_UPDATE", 0, IF conn THEN fwd_cnt ELSE 0))
      <3> DEFINE f == IF conn THEN fwd_cnt ELSE 0
                 p == Packet("CREDIT_UPDATE", 0, f)
      <3>1. f \in Counters /\ (conn => f = fwd_cnt)
        BY <1>1, Even DEF Typed
      <3>2. p \in ToGuest
        BY <3>1, Bare
      <3>3. p.len = 0 /\ p.op = "CREDIT_UPDATE" /\ p.fwd = f
        BY DEF Packet
      <3>4. rx' = Append(rx, p)
        BY <2>2
      <3> HIDE DEF f, p
      <3> QED
        BY <1>2, <3>1, <3>2, <3>3, <3>4, SendKeeps
    <2> QED
      BY <2>1, <2>2
  <1>6. to_host \in Nat /\ to_host' \in 0 .. BUF_ALLOC /\ (to_host > 0 => to_host' > 0)
    <2>1. to_host \in 0 .. BUF_ALLOC /\ BUF_ALLOC \in Nat
      BY <1>1, Sizes DEF Typed
    <2>2. conn => Head(txq).len \in Nat /\ to_host + Head(txq).len <= BUF_ALLOC
      BY <1>3, NoOverrun
    <2> QED
      BY <2>1, <2>2, SMTT(60)
  <1>7. conn => Adds(txq', to_host', WrappingSub(gtx, fwd_cnt))
    BY <1>3, NoOverrun
  <1>8. Typed'
    BY <1>1, <1>2, <1>3, <1>4, <1>5, <1>6 DEF Typed
  <1>9. ToHostInv'
    BY <1>1, <1>2, <1>3, <1>5, <1>7 DEF ToHostInv
  <1>10. ToGuestInv'
    BY <1>1, <1>2, <1>4, <1>5 DEF ToGuestInv
  <1>11. DialInv'
    BY <1>1, <1>2, <1>3 DEF DialInv
  <1>12. Quiet' <=> Quiet
    BY <1>2 DEF Quiet
  <1>13. EndInv'
    BY <1>1, <1>2, <1>3, <1>5, <1>6, <1>12 DEF EndInv
  <1> QED
    BY <1>8, <1>9, <1>10, <1>11, <1>13, TypedThen DEF VsockInv

\* The packets other than a dial.
LEMMA HandlersKeep ==
  ASSUME VsockInv, OnResponse \/ OnRw \/ OnCreditRequest \/ OnCreditUpdate \/ OnShutdown
  PROVE  VsockInv'
  <1>1. Typed
    BY TypedIs DEF VsockInv
  <1>2. conn \in BOOLEAN /\ up \in BOOLEAN /\ host_done \in BOOLEAN
    BY <1>1 DEF Typed
  <1>3. ASSUME NEW op, op # "REQUEST", op # "RW", Taking(op)
        PROVE  to_host = IF conn THEN to_host + Head(txq).len ELSE to_host
    <2>1. Head(txq).len = 0
      BY <1>3, OtherTaken
    <2>2. to_host + 0 = to_host
      BY <1>1, Sizes, SMTT(60) DEF Typed
    <2> QED
      BY <2>1, <2>2
  <1>4. CASE OnResponse
    <2>1. to_host = IF conn THEN to_host + Head(txq).len ELSE to_host
      BY <1>3, <1>4 DEF OnResponse
    <2> QED
      BY <1>2, <1>4, <2>1, TakingKeeps DEF OnResponse
  <1>5. CASE OnCreditUpdate
    <2>1. to_host = IF conn THEN to_host + Head(txq).len ELSE to_host
      BY <1>3, <1>5 DEF OnCreditUpdate
    <2> QED
      BY <1>2, <1>5, <2>1, TakingKeeps DEF OnCreditUpdate
  <1>6. CASE OnCreditRequest
    <2>1. to_host = IF conn THEN to_host + Head(txq).len ELSE to_host
      BY <1>3, <1>6 DEF OnCreditRequest
    <2> QED
      BY <1>2, <1>6, <2>1, TakingKeeps DEF OnCreditRequest, Send
  <1>7. CASE OnShutdown
    <2>1. to_host = IF conn THEN to_host + Head(txq).len ELSE to_host
      BY <1>3, <1>7 DEF OnShutdown
    <2>2. gst = "closed"
      BY <1>7, OtherTaken DEF OnShutdown
    <2> QED
      BY <1>2, <1>7, <2>1, <2>2, TakingKeeps DEF OnShutdown
  <1>8. CASE OnRw
    <2>1. conn => ~(to_host + Head(txq).len > BUF_ALLOC)
      <3> SUFFICES ASSUME conn PROVE ~(to_host + Head(txq).len > BUF_ALLOC)
        OBVIOUS
      <3>1. /\ Head(txq).len \in Nat /\ to_host \in Nat
            /\ to_host + Head(txq).len <= BUF_ALLOC
        BY <1>8, NoOverrun DEF OnRw, Taking
      <3> QED
        BY <3>1, Sizes, SMTT(60)
    <2>2. /\ Taking("RW") /\ Refresh /\ conn' = conn /\ fwd_cnt' = fwd_cnt /\ tx_cnt' = tx_cnt
          /\ UNCHANGED guestVars /\ UNCHANGED hostVars
          /\ up' = up /\ host_done' = host_done /\ rx' = rx
          /\ to_host' = IF conn THEN to_host + Head(txq).len ELSE to_host
      BY <1>8, <2>1 DEF OnRw
    <2> QED
      BY <1>2, <2>2, TakingKeeps
  <1> QED
    BY <1>4, <1>5, <1>6, <1>7, <1>8

-----------------------------------------------------------------------------
(***************************************************************************)
(* The device's side of the receive queue.                                 *)
(***************************************************************************)

\* A packet moves to the receive buffer, or nothing moves.
LEMMA SameKeeps ==
  ASSUME VsockInv, PollRx \/ UNCHANGED vars
  PROVE  VsockInv'
  <1>1. Typed /\ ToHostInv /\ ToGuestInv /\ DialInv /\ EndInv
    BY TypedIs DEF VsockInv
  <1>2. Inbound' = Inbound /\ rx' \in Seq(ToGuest) /\ inbox' \in ToGuest \cup {Nothing}
    <2>1. CASE PollRx
      BY <1>1, <2>1, InboundPoll
    <2>2. CASE UNCHANGED vars
      BY <1>1, <2>2, InboundSame DEF vars, guestVars, Typed
    <2> QED
      BY <2>1, <2>2
  <1>3. /\ conn' = conn /\ up' = up /\ host_done' = host_done /\ to_host' = to_host
        /\ fwd_cnt' = fwd_cnt /\ tx_cnt' = tx_cnt /\ peer_fwd_cnt' = peer_fwd_cnt
        /\ peer_buf_alloc' = peer_buf_alloc /\ txq' = txq /\ gst' = gst /\ grecv' = grecv
        /\ gfwd' = gfwd /\ gtx' = gtx /\ gpeer' = gpeer /\ gleft' = gleft /\ gasks' = gasks
        /\ waiting' = waiting /\ hst' = hst /\ hbuf' = hbuf /\ hleft' = hleft
    BY DEF PollRx, vars, connVars, guestVars, hostVars
  <1>4. Typed'
    BY <1>1, <1>2, <1>3 DEF Typed
  <1>5. ToHostInv' /\ ToGuestInv' /\ DialInv'
    BY <1>1, <1>2, <1>3 DEF ToHostInv, ToGuestInv, DialInv
  <1>6. EndInv'
    BY <1>1, <1>2, <1>3 DEF EndInv, Quiet
  <1> QED
    BY <1>4, <1>5, <1>6, TypedThen DEF VsockInv

\* A host peer is accepted.
LEMMA PumpAcceptKeeps ==
  ASSUME VsockInv, PumpAccept
  PROVE  VsockInv'
  <1>1. Typed /\ DialInv /\ EndInv
    BY TypedIs DEF VsockInv
  <1>2. /\ inbox = Nothing /\ rx = <<>> /\ waiting /\ gst = "idle" /\ txq = <<>> /\ hst # "idle"
        /\ gtx = 0 /\ gfwd = 0 /\ gpeer = 0 /\ grecv = 0
    BY <1>1 DEF PumpAccept, DialInv
  <1> DEFINE p == Packet("REQUEST", 0, 0)
  <1>3. /\ conn' = TRUE /\ up' = FALSE /\ host_done' = FALSE /\ to_host' = 0
        /\ fwd_cnt' = 0 /\ tx_cnt' = 0 /\ peer_fwd_cnt' = 0 /\ peer_buf_alloc' = 0
        /\ Deliver(<<p>>) /\ waiting' = FALSE
        /\ txq' = txq /\ gst' = gst /\ grecv' = grecv /\ gfwd' = gfwd /\ gtx' = gtx
        /\ gpeer' = gpeer /\ gleft' = gleft /\ gasks' = gasks
        /\ hst' = hst /\ hbuf' = hbuf /\ hleft' = hleft
    BY DEF PumpAccept
  <1>4. p \in ToGuest /\ p.op = "REQUEST"
    <2>1. p \in ToGuest
      BY Bare, Even
    <2> QED
      BY <2>1 DEF Packet
  <1>5. /\ Inbound' = <<p>> /\ rx' \in Seq(ToGuest) /\ inbox' \in ToGuest \cup {Nothing}
    <2> HIDE DEF p
    <2>1. <<p>> \in Seq(ToGuest)
      BY <1>4, SMTT(60)
    <2> QED
      BY <1>2, <1>3, <2>1, InboundDeliver
  <1>6. Typed'
    <2>1. 0 \in Counters /\ 0 \in 0 .. BUF_ALLOC
      BY Even, Sizes, SMTT(60)
    <2> QED
      BY <1>1, <1>2, <1>3, <1>5, <2>1 DEF Typed
  <1>7. ToHostInv' /\ ToGuestInv'
    BY <1>2, <1>3, <1>5, FreshInv
  <1>8. DialInv'
    BY <1>2, <1>3, <1>5, Empty DEF DialInv
  <1>9. EndInv'
    <2> HIDE DEF p
    <2>1. \A i \in 1 .. Len(<<p>>) : <<p>>[i].op = "REQUEST"
      BY <1>4, Single
    <2> QED
      BY <1>1, <1>2, <1>3, <1>5, <2>1, Empty DEF EndInv
  <1> QED
    BY <1>6, <1>7, <1>8, <1>9, TypedThen DEF VsockInv

\* A connection is done when its guest closed, or its peer did and there is nothing
\* more to read, or something it can no longer write.
LEMMA DoneWhen ==
  ASSUME Typed, EndInv, conn, NEW w \in Nat, w <= to_host,
         host_done \/ WriteFailed \/ StreamEnded
  PROVE  gst = "closed" \/ (hst = "closed" /\ (hbuf - Taken = 0 \/ to_host - Drained(w) > 0))
  <1>1. /\ Taken \in Nat /\ Taken <= hbuf /\ hbuf \in Nat /\ to_host \in Nat
        /\ up /\ Taken < GuestWindow => Taken = hbuf
    <2>1. hbuf \in Nat /\ to_host \in Nat
      BY Sizes, SMTT(60) DEF Typed
    <2> QED
      BY <2>1, TakenUnder
  <1>2. ASSUME hst = "closed" PROVE Drained(w) = 0 /\ to_host - Drained(w) = to_host
    <2>1. Drained(w) = 0
      BY <1>2 DEF Drained
    <2> QED
      BY <1>1, <2>1, SMTT(60)
  <1>3. (hbuf = 0 \/ Taken = hbuf) => hbuf - Taken = 0
    BY <1>1, SMTT(60)
  <1>4. CASE host_done
    BY <1>2, <1>3, <1>4 DEF EndInv
  <1>5. CASE WriteFailed
    BY <1>2, <1>5 DEF WriteFailed
  <1>6. CASE StreamEnded
    BY <1>1, <1>3, <1>6 DEF StreamEnded
  <1> QED
    BY <1>4, <1>5, <1>6

\* One call of pump on a connection.
LEMMA PumpKeeps ==
  ASSUME VsockInv, NEW w \in 0 .. BUF_ALLOC, Pump(w)
  PROVE  VsockInv'
  <1> DEFINE dr == Drained(w)
             fwd == WrappingAdd(fwd_cnt, dr)
             done == host_done \/ WriteFailed \/ StreamEnded
             dead == done /\ to_host - dr = 0
             q == PumpQueue(w, fwd, dead)
             t == Taken
             a == WrappingSub(gtx, gpeer)
             d == WrappingSub(gtx, fwd_cnt)
             b == WrappingSub(tx_cnt, peer_fwd_cnt)
             l == WrappingSub(tx_cnt, gfwd)
  <1>1. Typed /\ ToHostInv /\ ToGuestInv /\ DialInv /\ EndInv
    BY TypedIs DEF VsockInv
  <1>2. /\ inbox = Nothing /\ rx = <<>> /\ conn /\ w <= to_host
        /\ to_host' = to_host - dr /\ fwd_cnt' = fwd /\ tx_cnt' = WrappingAdd(tx_cnt, t)
        /\ hbuf' = hbuf - t /\ host_done' = done /\ conn' = ~dead
        /\ hst' = IF dead THEN "closed" ELSE hst
        /\ up' = up /\ peer_fwd_cnt' = peer_fwd_cnt /\ peer_buf_alloc' = peer_buf_alloc
        /\ txq' = txq /\ gst' = gst /\ grecv' = grecv /\ gfwd' = gfwd /\ gtx' = gtx
        /\ gpeer' = gpeer /\ gleft' = gleft /\ gasks' = gasks
        /\ waiting' = waiting /\ hleft' = hleft
    BY DEF Pump
  <1>3. Deliver(q)
    BY DEF Pump, PumpQueue
  <1>4. /\ to_host \in Nat /\ to_host <= BUF_ALLOC /\ w \in Nat /\ dr \in Nat /\ dr <= to_host
        /\ hbuf \in Nat /\ hbuf <= HostBytes /\ hleft \in Nat /\ grecv \in Nat
        /\ BUF_ALLOC \in Nat /\ GuestBuf \in Nat /\ HostBytes \in Nat /\ Wrap \in Nat
        /\ BUF_ALLOC < Wrap /\ GuestBuf < Wrap
    <2>1. to_host \in Nat /\ to_host <= BUF_ALLOC /\ hbuf \in Nat /\ hbuf <= HostBytes /\ hleft \in Nat
      BY <1>1, Sizes, SMTT(60) DEF Typed
    <2>2. w \in Nat /\ dr \in {w, 0}
      BY Sizes, SMTT(60) DEF Drained
    <2> HIDE DEF dr
    <2>3. dr \in Nat /\ dr <= to_host
      BY <1>2, <2>1, <2>2, SMTT(60)
    <2> QED
      BY <1>1, <2>1, <2>2, <2>3, Sizes DEF Typed
  <1>5. a \in Nat /\ d \in Nat /\ b \in Nat /\ l \in Nat
    BY <1>1, Lag DEF Typed
  <1>6. a <= BUF_ALLOC /\ d <= a /\ Adds(txq, to_host, d) /\ to_host <= d
    <2>1. a <= BUF_ALLOC /\ d <= a /\ Adds(txq, to_host, d)
      BY <1>1, <1>2 DEF ToHostInv, Lags
    <2> HIDE DEF d
    <2> QED
      BY <1>1, <1>4, <1>5, <2>1, AddsUp DEF Typed
  <1>7. b <= GuestBuf /\ Lags(txq, tx_cnt, b, l) /\ l <= b
    BY <1>1, <1>2 DEF ToGuestInv, Lags
  <1>8. t \in Nat /\ t <= hbuf /\ b + t <= GuestBuf
    BY <1>1, <1>7, TakenUnder
  <1>9. Inbound = <<>> /\ gst \notin {"idle", "dialing", "ended"} /\ ~waiting /\ hst # "idle"
    <2>1. Inbound = <<>>
      BY <1>2 DEF Inbound
    <2>2. \A p : <<p>> # <<>>
      BY Single
    <2> QED
      BY <1>1, <1>2, <2>1, <2>2 DEF DialInv, EndInv
  <1>10. done => gst = "closed" \/ (hst = "closed" /\ (hbuf - t = 0 \/ to_host - dr > 0))
    BY <1>1, <1>2, <1>4, DoneWhen
  <1>11. dead => gst = "closed" \/ (hst = "closed" /\ hbuf - t = 0)
    <2>1. to_host - dr = 0 => ~(to_host - dr > 0)
      <3> HIDE DEF dr
      <3> QED
        BY <1>4, SMTT(60)
    <2> QED
      BY <1>10, <2>1
  <1> HIDE DEF t, a, d, b, l
  <1>12. fwd \in Counters /\ dr < Wrap /\ dr <= d
    <2>1. dr < Wrap /\ dr <= d
      <3> HIDE DEF dr
      <3> QED
        BY <1>4, <1>5, <1>6, SMTT(60)
    <2>2. fwd_cnt \in Counters
      BY <1>1 DEF Typed
    <2> QED
      BY <1>4, <2>1, <2>2, CounterTypes
  <1>13. t < Wrap /\ b + t < Wrap /\ l + t < Wrap /\ l + t <= GuestBuf
    BY <1>4, <1>5, <1>7, <1>8, SMTT(60)
  <1>14. WrappingAdd(tx_cnt, t) \in Counters
    BY <1>1, <1>8, <1>13, CounterTypes DEF Typed
  <1>15. /\ WrappingSub(gtx, fwd) = d - dr
         /\ WrappingSub(WrappingAdd(tx_cnt, t), peer_fwd_cnt) = b + t
         /\ WrappingSub(WrappingAdd(tx_cnt, t), gfwd) = l + t
    <2>1. WrappingSub(gtx, fwd) = d - dr
      BY <1>1, <1>4, <1>12, CatchUp DEF Typed, d
    <2>2. WrappingSub(WrappingAdd(tx_cnt, t), peer_fwd_cnt) = b + t
      BY <1>1, <1>8, <1>13, MoveOn DEF Typed, b
    <2>3. WrappingSub(WrappingAdd(tx_cnt, t), gfwd) = l + t
      BY <1>1, <1>8, <1>13, MoveOn DEF Typed, l
    <2> QED
      BY <2>1, <2>2, <2>3
  <1>16. dead \in BOOLEAN
    OBVIOUS
  <1>17. /\ q \in Seq(ToGuest)
         /\ \A i \in 1 .. Len(q) : q[i].fwd = fwd /\ (q[i].op \in {"RST", "SHUTDOWN"} => dead)
         /\ Adds(q, grecv, grecv + t)
    <2> HIDE DEF fwd, dead
    <2> QED
      BY <1>1, <1>4, <1>12, <1>16, PumpSends, SMTT(60) DEF t
  <1> HIDE DEF q, fwd, dr
  <1>18. /\ Inbound' = q /\ rx' \in Seq(ToGuest) /\ inbox' \in ToGuest \cup {Nothing}
    BY <1>2, <1>3, <1>17, InboundDeliver
  <1>19. d - dr \in Int /\ d - dr <= a /\ a \in Int
    BY <1>4, <1>5, <1>6, SMTT(60)
  <1>20. Lags(q, gtx, a, d - dr)
    <2>1. WrappingSub(gtx, fwd) \in Int /\ WrappingSub(gtx, fwd) <= a
      BY <1>15, <1>19
    <2>2. Lags(q, gtx, a, WrappingSub(gtx, fwd))
      BY <1>17, <1>19, <2>1, LagsSame
    <2> QED
      BY <1>15, <2>2
  <1>21. Adds(txq, to_host - dr, d - dr)
    <2> DEFINE z == -dr
    <2>1. z \in Int /\ to_host + z \in Nat /\ to_host + z = to_host - dr /\ d + z = d - dr
      BY <1>4, <1>5, SMTT(60)
    <2> HIDE DEF z
    <2>2. \A p \in FromGuest : p.len \in Nat
      BY PacketTypes
    <2>3. Adds(txq, to_host + z, d + z)
      BY <1>1, <1>4, <1>5, <1>6, <2>1, <2>2, AddsShift DEF Typed
    <2> QED
      BY <2>1, <2>3
  <1>22. ToHostInv'
    BY <1>1, <1>2, <1>6, <1>15, <1>18, <1>20, <1>21 DEF ToHostInv, a
  <1>23. Lags(txq, WrappingAdd(tx_cnt, t), b + t, l + t)
    <2>1. \A p \in FromGuest : p.fwd \in Counters
      BY PacketTypes
    <2> QED
      BY <1>1, <1>5, <1>7, <1>8, <1>13, <2>1, LagsMove DEF Typed
  <1>24. gst = "open" => grecv = l
    BY <1>1, <1>4, <1>5, <1>9, AddsUp, InboundType DEF ToGuestInv, l
  <1>25. ToGuestInv'
    BY <1>1, <1>2, <1>8, <1>13, <1>15, <1>17, <1>18, <1>23, <1>24 DEF ToGuestInv
  <1>26. DialInv'
    BY <1>1, <1>2, <1>9 DEF DialInv
  <1>27. /\ hbuf' \in 0 .. HostBytes /\ hbuf' + hleft <= HostBytes
         /\ to_host' \in 0 .. BUF_ALLOC
    <2>1. hbuf + hleft <= HostBytes
      BY <1>1 DEF EndInv
    <2> QED
      BY <1>2, <1>4, <1>8, <2>1, SMTT(60)
  <1>28. Typed'
    BY <1>1, <1>2, <1>12, <1>14, <1>18, <1>27 DEF Typed
  <1>29. EndInv'
    BY <1>1, <1>2, <1>9, <1>10, <1>11, <1>17, <1>18, <1>27 DEF EndInv, Quiet
  <1> QED
    BY <1>22, <1>25, <1>26, <1>28, <1>29, TypedThen DEF VsockInv

-----------------------------------------------------------------------------
(***************************************************************************)
(* The guest and the host peer.                                            *)
(***************************************************************************)

\* The guest sends a packet that carries its count f.
LEMMA GuestAppends ==
  ASSUME VsockInv, NEW op \in {"RESPONSE", "SHUTDOWN", "RW", "CREDIT_UPDATE", "CREDIT_REQUEST"},
         NEW len \in 0 .. BUF_ALLOC, op # "RW" => len = 0, NEW f \in Counters,
         WrappingSub(tx_cnt, f) <= WrappingSub(tx_cnt, gfwd), GuestSends(op, len, f)
  PROVE  /\ txq' \in Seq(FromGuest)
         /\ conn => /\ Adds(txq', to_host, WrappingSub(gtx, fwd_cnt) + len)
                    /\ Lags(txq', tx_cnt, WrappingSub(tx_cnt, peer_fwd_cnt), WrappingSub(tx_cnt, f))
         /\ \A i \in 1 .. Len(txq') : /\ txq'[i].op = "REQUEST" => gst = "dialing"
                                      /\ txq'[i].op = "SHUTDOWN" => gst = "closed" \/ op = "SHUTDOWN"
                                      /\ txq'[i].op # "RW" => txq'[i].len = 0
  <1> DEFINE p == Packet(op, len, f)
             d == WrappingSub(gtx, fwd_cnt)
             b == WrappingSub(tx_cnt, peer_fwd_cnt)
             l == WrappingSub(tx_cnt, gfwd)
  <1>1. Typed /\ ToHostInv /\ ToGuestInv /\ DialInv /\ EndInv
    BY TypedIs DEF VsockInv
  <1>2. p \in FromGuest /\ p.op = op /\ p.len = len /\ p.fwd = f /\ len \in Nat
    <2>1. len \in Nat
      BY Sizes, SMTT(60)
    <2> QED
      BY <2>1 DEF Packet, FromGuest, Packets, Counters
  <1>3. txq' = Append(txq, p) /\ txq \in Seq(FromGuest)
    BY <1>1 DEF GuestSends, Typed
  <1>4. d \in Nat /\ b \in Int /\ l \in Int /\ to_host \in Nat /\ tx_cnt \in Counters
    <2>1. to_host \in Nat
      BY <1>1, Sizes, SMTT(60) DEF Typed
    <2> QED
      BY <1>1, <2>1, Lag DEF Typed
  <1>5. conn => Adds(txq, to_host, d) /\ Lags(txq, tx_cnt, b, l)
    BY <1>1 DEF ToHostInv, ToGuestInv
  <1> HIDE DEF p, d, b
  <1>6. /\ txq' \in Seq(FromGuest)
        /\ \A i \in 1 .. Len(txq') : txq'[i] = p \/ (i \in 1 .. Len(txq) /\ txq'[i] = txq[i])
    BY <1>2, <1>3, Appended, SMTT(60)
  <1>7. conn => Adds(txq', to_host, d + len)
    <2> SUFFICES ASSUME conn PROVE Adds(txq', to_host, d + len)
      OBVIOUS
    <2>1. p.len \in Nat
      BY <1>2
    <2>2. Adds(Append(txq, p), to_host, d + p.len)
      BY <1>2, <1>3, <1>4, <1>5, <2>1, AddsAppend
    <2> QED
      BY <1>2, <1>3, <2>2
  <1>8. conn => Lags(txq', tx_cnt, b, WrappingSub(tx_cnt, f))
    <2> SUFFICES ASSUME conn PROVE Lags(txq', tx_cnt, b, WrappingSub(tx_cnt, f))
      OBVIOUS
    <2>1. \A r \in FromGuest : r.fwd \in Counters
      BY PacketTypes
    <2>2. WrappingSub(tx_cnt, p.fwd) <= l
      BY <1>2
    <2> HIDE DEF l
    <2>3. Lags(Append(txq, p), tx_cnt, b, WrappingSub(tx_cnt, p.fwd))
      BY <1>2, <1>3, <1>4, <1>5, <2>1, <2>2, LagsAppend
    <2> QED
      BY <1>2, <1>3, <2>3
  <1>9. ASSUME NEW i \in 1 .. Len(txq')
        PROVE  /\ txq'[i].op = "REQUEST" => gst = "dialing"
               /\ txq'[i].op = "SHUTDOWN" => gst = "closed" \/ op = "SHUTDOWN"
               /\ txq'[i].op # "RW" => txq'[i].len = 0
    <2>1. CASE txq'[i] = p
      BY <1>2, <2>1
    <2>2. CASE i \in 1 .. Len(txq) /\ txq'[i] = txq[i]
      BY <1>1, <2>2 DEF DialInv, EndInv, ToHostInv
    <2> QED
      BY <1>6, <2>1, <2>2
  <1> QED
    BY <1>6, <1>7, <1>8, <1>9 DEF d, b

\* The guest dials.
LEMMA GuestDialKeeps ==
  ASSUME VsockInv, GuestDial
  PROVE  VsockInv'
  <1> DEFINE p == Packet("REQUEST", 0, 0)
  <1>1. Typed /\ ToHostInv /\ ToGuestInv /\ DialInv /\ EndInv
    BY TypedIs DEF VsockInv
  <1>2. /\ gst = "idle" /\ hst = "idle" /\ ~conn /\ ~waiting /\ txq = <<>> /\ Inbound = <<>> /\ gfwd = 0
    BY <1>1 DEF GuestDial, DialInv
  <1>3. /\ txq' = Append(txq, p) /\ gst' = "dialing"
        /\ conn' = conn /\ up' = up /\ host_done' = host_done /\ to_host' = to_host
        /\ fwd_cnt' = fwd_cnt /\ tx_cnt' = tx_cnt /\ peer_fwd_cnt' = peer_fwd_cnt
        /\ peer_buf_alloc' = peer_buf_alloc /\ rx' = rx /\ inbox' = inbox /\ grecv' = grecv
        /\ gfwd' = gfwd /\ gtx' = gtx /\ gpeer' = gpeer /\ gleft' = gleft /\ gasks' = gasks
        /\ waiting' = waiting /\ hst' = hst /\ hbuf' = hbuf /\ hleft' = hleft
    BY <1>2 DEF GuestDial, GuestSends, connVars, hostVars
  <1>4. p \in FromGuest /\ p.len = 0
    <2>1. p \in FromGuest
      BY Bare, Even
    <2> QED
      BY <2>1 DEF Packet
  <1>5. txq' = <<p>> /\ (\A i \in 1 .. Len(txq') : txq'[i] = p) /\ Inbound' = <<>>
    <2> HIDE DEF p
    <2>1. Append(<<>>, p) = <<p>> /\ \A i \in 1 .. Len(<<p>>) : <<p>>[i] = p
      BY Single
    <2> QED
      BY <1>2, <1>3, <2>1, InboundSame
  <1>6. Typed'
    <2> HIDE DEF p
    <2>1. <<p>> \in Seq(FromGuest)
      BY <1>4, SMTT(60)
    <2> QED
      BY <1>1, <1>3, <1>5, <2>1 DEF Typed
  <1>7. ToHostInv' /\ ToGuestInv'
    <2> HIDE DEF p
    <2> QED
      BY <1>1, <1>2, <1>3, <1>4, <1>5 DEF ToHostInv, ToGuestInv
  <1>8. DialInv'
    BY <1>1, <1>2, <1>3, <1>5 DEF DialInv
  <1>9. p.op = "REQUEST"
    BY DEF Packet
  <1>10. EndInv'
    <2> HIDE DEF p
    <2> QED
      BY <1>1, <1>2, <1>3, <1>5, <1>9, Empty DEF EndInv
  <1> QED
    BY <1>6, <1>7, <1>8, <1>10, TypedThen DEF VsockInv

\* The application reads.
LEMMA GuestReadKeeps ==
  ASSUME VsockInv, GuestRead
  PROVE  VsockInv'
  <1> DEFINE f == WrappingAdd(gfwd, grecv)
             l == WrappingSub(tx_cnt, gfwd)
  <1>1. Typed /\ ToHostInv /\ ToGuestInv /\ DialInv /\ EndInv
    BY TypedIs DEF VsockInv
  <1>2. /\ gst = "open" /\ grecv' = 0 /\ gfwd' = f /\ GuestSends("CREDIT_UPDATE", 0, f)
        /\ conn' = conn /\ up' = up /\ host_done' = host_done /\ to_host' = to_host
        /\ fwd_cnt' = fwd_cnt /\ tx_cnt' = tx_cnt /\ peer_fwd_cnt' = peer_fwd_cnt
        /\ peer_buf_alloc' = peer_buf_alloc /\ rx' = rx /\ inbox' = inbox
        /\ gst' = gst /\ gtx' = gtx /\ gpeer' = gpeer /\ gleft' = gleft /\ gasks' = gasks
        /\ waiting' = waiting /\ hst' = hst /\ hbuf' = hbuf /\ hleft' = hleft
    BY DEF GuestRead, connVars, hostVars
  <1>3. /\ l \in Nat /\ l < Wrap /\ l <= GuestBuf /\ grecv \in Nat /\ Adds(Inbound, grecv, l)
        /\ Inbound \in Seq(ToGuest) /\ gfwd \in Counters /\ tx_cnt \in Counters
    BY <1>1, <1>2, Lag, InboundType DEF Typed, ToGuestInv
  <1> HIDE DEF l
  <1>4. grecv <= l
    BY <1>3, AddsUp
  <1>5. grecv < Wrap
    BY <1>3, <1>4, Sizes, SMTT(60)
  <1>6. f \in Counters /\ WrappingSub(tx_cnt, f) = l - grecv
    BY <1>3, <1>4, <1>5, CounterTypes, CatchUp DEF l
  <1>7. l - grecv \in Nat /\ l - grecv <= l /\ l - grecv <= GuestBuf
    BY <1>3, <1>4, Sizes, SMTT(60)
  <1> HIDE DEF f
  <1>8. /\ txq' \in Seq(FromGuest)
        /\ conn => /\ Adds(txq', to_host, WrappingSub(gtx, fwd_cnt) + 0)
                   /\ Lags(txq', tx_cnt, WrappingSub(tx_cnt, peer_fwd_cnt), l - grecv)
        /\ \A i \in 1 .. Len(txq') : /\ txq'[i].op = "REQUEST" => gst = "dialing"
                                     /\ txq'[i].op = "SHUTDOWN" => gst = "closed"
                                     /\ txq'[i].op # "RW" => txq'[i].len = 0
    <2>1. 0 \in 0 .. BUF_ALLOC
      BY Sizes, SMTT(60)
    <2>2. WrappingSub(tx_cnt, f) <= WrappingSub(tx_cnt, gfwd)
      BY <1>6, <1>7 DEF l
    <2> QED
      BY <1>2, <1>6, <2>1, <2>2, GuestAppends
  <1>9. Inbound' = Inbound
    BY <1>2, InboundSame
  <1>10. Adds(Inbound, 0, l - grecv)
    <2> DEFINE z == -grecv
    <2>1. z \in Int /\ grecv + z \in Nat /\ grecv + z = 0 /\ l + z = l - grecv
      BY <1>3, SMTT(60)
    <2> HIDE DEF z
    <2>2. \A p \in ToGuest : p.len \in Nat
      BY PacketTypes
    <2>3. Adds(Inbound, grecv + z, l + z)
      BY <1>3, <2>1, <2>2, AddsShift
    <2> QED
      BY <2>1, <2>3
  <1>11. WrappingSub(gtx, fwd_cnt) + 0 = WrappingSub(gtx, fwd_cnt)
    <2>1. WrappingSub(gtx, fwd_cnt) \in Nat
      BY <1>1, Lag DEF Typed
    <2> QED
      BY <2>1, SMTT(60)
  <1>12. 0 \in Nat /\ 0 <= GuestBuf
    BY Sizes, SMTT(60)
  <1>13. Typed'
    BY <1>1, <1>2, <1>6, <1>8, <1>12 DEF Typed
  <1>14. ToHostInv'
    BY <1>1, <1>2, <1>8, <1>9, <1>11 DEF ToHostInv
  <1>15. ToGuestInv'
    BY <1>1, <1>2, <1>6, <1>7, <1>8, <1>9, <1>10, <1>12 DEF ToGuestInv
  <1>16. DialInv'
    BY <1>1, <1>2, <1>8 DEF DialInv
  <1>17. EndInv'
    BY <1>1, <1>2, <1>8, <1>9 DEF EndInv, Quiet
  <1> QED
    BY <1>13, <1>14, <1>15, <1>16, <1>17, TypedThen DEF VsockInv

\* The application sends n bytes, under the credit the guest has seen.
LEMMA GuestSendKeeps ==
  ASSUME VsockInv, NEW n \in 1 .. BUF_ALLOC, GuestSend(n)
  PROVE  VsockInv'
  <1> DEFINE a == WrappingSub(gtx, gpeer)
             d == WrappingSub(gtx, fwd_cnt)
             g == WrappingAdd(gtx, n)
  <1>1. Typed /\ ToHostInv /\ ToGuestInv /\ DialInv /\ EndInv
    BY TypedIs DEF VsockInv
  <1>2. /\ gst = "open" /\ n <= gleft /\ n <= GuestCredit /\ gtx' = g /\ gleft' = gleft - n
        /\ GuestSends("RW", n, gfwd)
        /\ conn' = conn /\ up' = up /\ host_done' = host_done /\ to_host' = to_host
        /\ fwd_cnt' = fwd_cnt /\ tx_cnt' = tx_cnt /\ peer_fwd_cnt' = peer_fwd_cnt
        /\ peer_buf_alloc' = peer_buf_alloc /\ rx' = rx /\ inbox' = inbox
        /\ gst' = gst /\ grecv' = grecv /\ gfwd' = gfwd /\ gpeer' = gpeer /\ gasks' = gasks
        /\ waiting' = waiting /\ hst' = hst /\ hbuf' = hbuf /\ hleft' = hleft
    BY DEF GuestSend, connVars, hostVars
  <1>3. /\ n \in Nat /\ n \in 0 .. BUF_ALLOC /\ n < Wrap /\ gleft - n \in 0 .. GuestBytes
    BY <1>1, <1>2, Sizes, SMTT(60) DEF Typed
  <1>4. /\ a \in Nat /\ d \in Nat /\ gtx \in Counters /\ gpeer \in Counters /\ fwd_cnt \in Counters
        /\ WrappingSub(tx_cnt, gfwd) \in Int /\ gfwd \in Counters
    BY <1>1, Lag DEF Typed
  <1>5. n <= BUF_ALLOC - a
    BY <1>2 DEF GuestCredit
  <1>6. g \in Counters
    BY <1>3, <1>4, CounterTypes
  <1>7. WrappingSub(tx_cnt, gfwd) <= WrappingSub(tx_cnt, gfwd)
    BY <1>4, SMTT(60)
  <1>8. /\ txq' \in Seq(FromGuest)
        /\ conn => /\ Adds(txq', to_host, d + n)
                   /\ Lags(txq', tx_cnt, WrappingSub(tx_cnt, peer_fwd_cnt), WrappingSub(tx_cnt, gfwd))
        /\ \A i \in 1 .. Len(txq') : /\ txq'[i].op = "REQUEST" => gst = "dialing"
                                     /\ txq'[i].op = "SHUTDOWN" => gst = "closed"
                                     /\ txq'[i].op # "RW" => txq'[i].len = 0
    BY <1>2, <1>3, <1>4, <1>7, GuestAppends
  <1>9. Inbound' = Inbound
    BY <1>2, InboundSame
  <1>10. ASSUME conn
         PROVE  /\ WrappingSub(g, gpeer) = a + n /\ WrappingSub(g, fwd_cnt) = d + n
                /\ a + n <= BUF_ALLOC /\ Lags(Inbound, g, a + n, d + n)
    <2>1. Lags(Inbound, gtx, a, d) /\ d <= a
      BY <1>1, <1>10 DEF ToHostInv, Lags
    <2>2. Inbound \in Seq(ToGuest) /\ \A p \in ToGuest : p.fwd \in Counters
      BY <1>1, InboundType, PacketTypes
    <2> HIDE DEF a, d
    <2>3. a + n <= BUF_ALLOC /\ a + n < Wrap /\ d + n < Wrap
      BY <1>3, <1>4, <1>5, <2>1, Sizes, SMTT(60)
    <2>4. WrappingSub(g, gpeer) = a + n
      BY <1>3, <1>4, <2>3, MoveOn DEF a
    <2>5. WrappingSub(g, fwd_cnt) = d + n
      BY <1>3, <1>4, <2>3, MoveOn DEF d
    <2>6. Lags(Inbound, g, a + n, d + n)
      BY <1>3, <1>4, <2>1, <2>2, <2>3, LagsMove
    <2> QED
      BY <2>3, <2>4, <2>5, <2>6
  <1> HIDE DEF a, d, g
  <1>11. Typed'
    BY <1>1, <1>2, <1>3, <1>6, <1>8 DEF Typed
  <1>12. ToHostInv'
    BY <1>1, <1>2, <1>8, <1>9, <1>10 DEF ToHostInv
  <1>13. ToGuestInv'
    BY <1>1, <1>2, <1>8, <1>9 DEF ToGuestInv
  <1>14. DialInv'
    BY <1>1, <1>2, <1>8 DEF DialInv
  <1>15. EndInv'
    BY <1>1, <1>2, <1>8, <1>9 DEF EndInv, Quiet
  <1> QED
    BY <1>11, <1>12, <1>13, <1>14, <1>15, TypedThen DEF VsockInv

\* The guest asks for credit, or closes.
LEMMA GuestNotesKeep ==
  ASSUME VsockInv, GuestAsks \/ GuestClose
  PROVE  VsockInv'
  <1>1. Typed /\ ToHostInv /\ ToGuestInv /\ DialInv /\ EndInv
    BY TypedIs DEF VsockInv
  <1>2. PICK op \in {"CREDIT_REQUEST", "SHUTDOWN"} :
           /\ GuestSends(op, 0, gfwd) /\ (op = "SHUTDOWN" => gst' = "closed")
           /\ gst' = IF op = "SHUTDOWN" THEN "closed" ELSE gst
    BY DEF GuestAsks, GuestClose
  <1>3. /\ gst = "open" /\ gst' \in {"open", "closed"} /\ gasks' \in 0 .. MaxAsks
    <2>1. gasks \in 0 .. MaxAsks /\ MaxAsks \in Nat
      BY <1>1, Sizes DEF Typed
    <2>2. gasks > 0 => gasks - 1 \in 0 .. MaxAsks
      BY <2>1, SMTT(60)
    <2> QED
      BY <2>1, <2>2 DEF GuestAsks, GuestClose
  <1>4. /\ conn' = conn /\ up' = up /\ host_done' = host_done /\ to_host' = to_host
        /\ fwd_cnt' = fwd_cnt /\ tx_cnt' = tx_cnt /\ peer_fwd_cnt' = peer_fwd_cnt
        /\ peer_buf_alloc' = peer_buf_alloc /\ rx' = rx /\ inbox' = inbox
        /\ grecv' = grecv /\ gfwd' = gfwd /\ gtx' = gtx /\ gpeer' = gpeer /\ gleft' = gleft
        /\ waiting' = waiting /\ hst' = hst /\ hbuf' = hbuf /\ hleft' = hleft
    BY DEF GuestAsks, GuestClose, connVars, hostVars
  <1>5. /\ 0 \in 0 .. BUF_ALLOC /\ gfwd \in Counters
        /\ WrappingSub(tx_cnt, gfwd) <= WrappingSub(tx_cnt, gfwd)
        /\ WrappingSub(gtx, fwd_cnt) + 0 = WrappingSub(gtx, fwd_cnt)
    <2>1. WrappingSub(tx_cnt, gfwd) \in Nat /\ WrappingSub(gtx, fwd_cnt) \in Nat /\ gfwd \in Counters
      BY <1>1, Lag DEF Typed
    <2> QED
      BY <2>1, Sizes, SMTT(60)
  <1>6. /\ txq' \in Seq(FromGuest)
        /\ conn => /\ Adds(txq', to_host, WrappingSub(gtx, fwd_cnt) + 0)
                   /\ Lags(txq', tx_cnt, WrappingSub(tx_cnt, peer_fwd_cnt), WrappingSub(tx_cnt, gfwd))
        /\ \A i \in 1 .. Len(txq') : /\ txq'[i].op = "REQUEST" => gst = "dialing"
                                     /\ txq'[i].op = "SHUTDOWN" => gst = "closed" \/ op = "SHUTDOWN"
                                     /\ txq'[i].op # "RW" => txq'[i].len = 0
    <2>1. op \in {"RESPONSE", "SHUTDOWN", "RW", "CREDIT_UPDATE", "CREDIT_REQUEST"} /\ op # "RW"
      BY <1>2
    <2> QED
      BY <1>2, <1>5, <2>1, GuestAppends
  <1>7. Inbound' = Inbound
    BY <1>4, InboundSame
  <1>8. Typed'
    BY <1>1, <1>3, <1>4, <1>6 DEF Typed
  <1>9. ToHostInv'
    BY <1>1, <1>4, <1>5, <1>6, <1>7 DEF ToHostInv
  <1>10. ToGuestInv'
    BY <1>1, <1>3, <1>4, <1>6, <1>7 DEF ToGuestInv
  <1>11. DialInv'
    BY <1>1, <1>3, <1>4, <1>6 DEF DialInv
  <1>12. EndInv'
    BY <1>1, <1>2, <1>3, <1>4, <1>6, <1>7 DEF EndInv, Quiet
  <1> QED
    BY <1>8, <1>9, <1>10, <1>11, <1>12, TypedThen DEF VsockInv

\* The host peer dials, writes a byte, or closes.
LEMMA HostKeeps ==
  ASSUME VsockInv, HostDial \/ HostWrite \/ HostClose
  PROVE  VsockInv'
  <1>1. Typed /\ ToHostInv /\ ToGuestInv /\ DialInv /\ EndInv
    BY TypedIs DEF VsockInv
  <1>2. /\ conn' = conn /\ up' = up /\ host_done' = host_done /\ to_host' = to_host
        /\ fwd_cnt' = fwd_cnt /\ tx_cnt' = tx_cnt /\ peer_fwd_cnt' = peer_fwd_cnt
        /\ peer_buf_alloc' = peer_buf_alloc /\ rx' = rx /\ txq' = txq /\ inbox' = inbox
        /\ gst' = gst /\ grecv' = grecv /\ gfwd' = gfwd /\ gtx' = gtx /\ gpeer' = gpeer
        /\ gleft' = gleft /\ gasks' = gasks
    BY DEF HostDial, HostWrite, HostClose, connVars, guestVars
  <1>3. Inbound' = Inbound
    BY <1>2, InboundSame
  <1>4. ToHostInv' /\ ToGuestInv'
    BY <1>1, <1>2, <1>3 DEF ToHostInv, ToGuestInv
  <1>5. CASE HostDial
    <2>1. /\ hst = "idle" /\ gst = "idle" /\ ~conn /\ Inbound = <<>>
          /\ hst' = "open" /\ waiting' = TRUE /\ hbuf' = hbuf /\ hleft' = hleft
      BY <1>1, <1>5 DEF HostDial, DialInv
    <2>2. Typed'
      BY <1>1, <1>2, <2>1 DEF Typed
    <2>3. DialInv'
      BY <1>1, <1>2, <1>3, <2>1 DEF DialInv
    <2>4. EndInv'
      BY <1>1, <1>2, <1>3, <2>1, Empty DEF EndInv
    <2> QED
      BY <1>4, <2>2, <2>3, <2>4, TypedThen DEF VsockInv
  <1>6. CASE HostWrite
    <2>1. /\ hst = "open" /\ hst' = hst /\ waiting' = waiting
          /\ hleft > 0 /\ hbuf' = hbuf + 1 /\ hleft' = hleft - 1
      BY <1>6 DEF HostWrite
    <2>2. /\ hbuf' \in 0 .. HostBytes /\ hleft' \in 0 .. HostBytes /\ hbuf' + hleft' <= HostBytes
      <3>1. hbuf \in 0 .. HostBytes /\ hleft \in 0 .. HostBytes /\ hbuf + hleft <= HostBytes
        BY <1>1 DEF Typed, EndInv
      <3> QED
        BY <2>1, <3>1, Sizes, SMTT(60)
    <2>3. Typed'
      BY <1>1, <1>2, <2>1, <2>2 DEF Typed
    <2>4. DialInv'
      BY <1>1, <1>2, <1>3, <2>1 DEF DialInv
    <2>5. EndInv'
      BY <1>1, <1>2, <1>3, <2>1, <2>2 DEF EndInv, Quiet
    <2> QED
      BY <1>4, <2>3, <2>4, <2>5, TypedThen DEF VsockInv
  <1>7. CASE HostClose
    <2>1. hst = "open" /\ hst' = "closed" /\ waiting' = waiting /\ hbuf' = hbuf /\ hleft' = hleft
      BY <1>7 DEF HostClose
    <2>2. Typed'
      BY <1>1, <1>2, <2>1 DEF Typed
    <2>3. DialInv'
      BY <1>1, <1>2, <1>3, <2>1 DEF DialInv
    <2>4. EndInv'
      BY <1>1, <1>2, <1>3, <2>1 DEF EndInv, Quiet
    <2> QED
      BY <1>4, <2>2, <2>3, <2>4, TypedThen DEF VsockInv
  <1> QED
    BY <1>5, <1>6, <1>7

\* The guest takes a packet out of its receive buffer.
LEMMA GuestReceiveKeeps ==
  ASSUME VsockInv, GuestReceive
  PROVE  VsockInv'
  <1> DEFINE a == WrappingSub(gtx, gpeer)
             d == WrappingSub(gtx, fwd_cnt)
             l == WrappingSub(tx_cnt, gfwd)
             b == WrappingSub(gtx, inbox.fwd)
  <1>1. Typed /\ ToHostInv /\ ToGuestInv /\ DialInv /\ EndInv
    BY TypedIs DEF VsockInv
  <1>2. /\ inbox # Nothing /\ inbox' = Nothing /\ gpeer' = inbox.fwd
        /\ grecv' = IF gst = "open" THEN grecv + inbox.len ELSE grecv
        /\ IF inbox.op = "REQUEST" THEN GuestSends("RESPONSE", 0, gfwd) ELSE txq' = txq
        /\ conn' = conn /\ up' = up /\ host_done' = host_done /\ to_host' = to_host
        /\ fwd_cnt' = fwd_cnt /\ tx_cnt' = tx_cnt /\ peer_fwd_cnt' = peer_fwd_cnt
        /\ peer_buf_alloc' = peer_buf_alloc /\ rx' = rx
        /\ gfwd' = gfwd /\ gtx' = gtx /\ gleft' = gleft /\ gasks' = gasks
        /\ waiting' = waiting /\ hst' = hst /\ hbuf' = hbuf /\ hleft' = hleft
    BY DEF GuestReceive, connVars, hostVars
  <1>3. /\ Inbound # <<>> /\ inbox = Head(Inbound) /\ Inbound' = Tail(Inbound)
        /\ inbox \in ToGuest /\ Inbound \in Seq(ToGuest)
    BY <1>1, <1>2, InboundReceive, InboundType
  <1>4. /\ inbox.len \in Nat /\ inbox.fwd \in Counters
        /\ a \in Nat /\ d \in Nat /\ l \in Nat /\ b \in Nat /\ a \in Int /\ d \in Int /\ b \in Int
        /\ grecv \in Nat /\ gfwd \in Counters
    BY <1>1, <1>3, PacketTypes, Lag DEF Typed
  <1>5. /\ Inbound' \in Seq(ToGuest) /\ 1 \in 1 .. Len(Inbound) /\ inbox = Inbound[1]
        /\ \A i \in 1 .. Len(Inbound') : i + 1 \in 1 .. Len(Inbound) /\ Inbound'[i] = Inbound[i + 1]
    BY <1>3, Tailed
  <1>6. inbox.op \in {"SHUTDOWN", "RST"} => ~conn /\ Quiet
    BY <1>1, <1>5 DEF EndInv
  <1>7. /\ gst = "idle" => conn /\ inbox.op = "REQUEST" /\ Inbound' = <<>>
        /\ gst = "dialing" => /\ txq = <<>> /\ inbox.op \in {"RESPONSE", "RST"} /\ Inbound' = <<>>
                              /\ ~conn => inbox.op = "RST"
    <2> DEFINE rq == Packet("REQUEST", 0, 0)
               rs == Packet("RESPONSE", 0, 0)
               rt == Packet("RST", 0, 0)
    <2>1. rq.op = "REQUEST" /\ rs.op = "RESPONSE" /\ rt.op = "RST"
      BY DEF Packet
    <2> HIDE DEF rq, rs, rt
    <2>2. /\ gst = "idle" => Inbound = IF conn THEN <<rq>> ELSE <<>>
          /\ gst = "dialing" => \/ Inbound = <<>>
                                \/ txq = <<>> /\ conn /\ Inbound = <<rs>>
                                \/ txq = <<>> /\ ~conn /\ Inbound = <<rt>>
      BY <1>1 DEF DialInv, rq, rs, rt
    <2>3. \A p : Inbound = <<p>> => inbox = p /\ Inbound' = <<>>
      BY <1>3, Single
    <2> QED
      BY <1>3, <2>1, <2>2, <2>3
  <1>8. /\ gst = "idle" => gst' = "open"
        /\ gst = "dialing" => gst' \in {"open", "ended"}
        /\ gst = "open" => gst' \in {"open", "ended"}
        /\ gst = "closed" => gst' = "closed"
        /\ gst = "ended" => gst' = "ended"
        /\ gst' = "ended" => gst = "ended" \/ inbox.op \in {"SHUTDOWN", "RST"}
    <2>1. gst' = CASE inbox.op = "RESPONSE" /\ gst = "dialing" -> "open"
                   [] inbox.op = "REQUEST" /\ gst = "idle" -> "open"
                   [] inbox.op \in {"SHUTDOWN", "RST"} /\ gst # "closed" -> "ended"
                   [] OTHER -> gst
      BY DEF GuestReceive
    <2>2. CASE gst = "idle"
      <3>1. inbox.op = "REQUEST"
        BY <1>7, <2>2
      <3> QED
        BY <2>1, <2>2, <3>1, SMTT(60)
    <2>3. CASE gst = "dialing"
      <3>1. inbox.op \in {"RESPONSE", "RST"}
        BY <1>7, <2>3
      <3> QED
        BY <2>1, <2>3, <3>1, SMTT(60)
    <2>4. CASE gst \in {"open", "closed", "ended"}
      BY <2>1, <2>4, SMTT(60)
    <2> QED
      BY <1>1, <2>2, <2>3, <2>4 DEF Typed
  <1>9. gst \in {"idle", "dialing", "open", "closed", "ended"}
    BY <1>1 DEF Typed
  <1>10. /\ gst' \in {"open", "closed", "ended"} /\ (gst' = "closed" <=> gst = "closed")
         /\ gst' = "ended" => ~conn /\ Quiet
         /\ Quiet => Quiet'
    <2>1. gst' \in {"open", "closed", "ended"} /\ (gst' = "closed" <=> gst = "closed")
      BY <1>8, <1>9
    <2>2. gst' = "ended" => ~conn /\ Quiet
      BY <1>1, <1>6, <1>8 DEF EndInv
    <2> QED
      BY <1>2, <2>1, <2>2 DEF Quiet
  <1>11. /\ txq' \in Seq(FromGuest)
         /\ conn => /\ Adds(txq', to_host, d)
                    /\ Lags(txq', tx_cnt, WrappingSub(tx_cnt, peer_fwd_cnt), l)
         /\ \A i \in 1 .. Len(txq') : /\ txq'[i].op # "REQUEST"
                                      /\ txq'[i].op = "SHUTDOWN" => gst = "closed"
                                      /\ txq'[i].op # "RW" => txq'[i].len = 0
    <2>1. CASE inbox.op = "REQUEST"
      <3>1. gst # "dialing"
        BY <1>7, <2>1
      <3>2. 0 \in 0 .. BUF_ALLOC /\ l <= l /\ d + 0 = d
        BY <1>4, Sizes, SMTT(60)
      <3>3. GuestSends("RESPONSE", 0, gfwd)
        BY <1>2, <2>1
      <3>4. /\ txq' \in Seq(FromGuest)
            /\ conn => /\ Adds(txq', to_host, WrappingSub(gtx, fwd_cnt) + 0)
                       /\ Lags(txq', tx_cnt, WrappingSub(tx_cnt, peer_fwd_cnt), WrappingSub(tx_cnt, gfwd))
            /\ \A i \in 1 .. Len(txq') : /\ txq'[i].op = "REQUEST" => gst = "dialing"
                                         /\ txq'[i].op = "SHUTDOWN" => gst = "closed"
                                         /\ txq'[i].op # "RW" => txq'[i].len = 0
        BY <1>4, <3>2, <3>3, GuestAppends
      <3> QED
        BY <3>1, <3>2, <3>4
    <2>2. CASE inbox.op # "REQUEST"
      <3>1. txq' = txq
        BY <1>2, <2>2
      <3>2. \A i \in 1 .. Len(txq) : txq[i].op # "REQUEST"
        BY <1>1, <1>7, Empty DEF DialInv
      <3> QED
        BY <1>1, <3>1, <3>2 DEF Typed, ToHostInv, ToGuestInv, EndInv
    <2> QED
      BY <2>1, <2>2
  <1>12. conn => b <= BUF_ALLOC /\ Lags(Inbound', gtx, b, d)
    <2> SUFFICES ASSUME conn
                 PROVE  b <= BUF_ALLOC /\ Lags(Inbound', gtx, b, d)
      OBVIOUS
    <2>1. a <= BUF_ALLOC /\ Lags(Inbound, gtx, a, d)
      BY <1>1 DEF ToHostInv
    <2> HIDE DEF a, d
    <2>2. b <= a /\ Lags(Inbound', gtx, b, d)
      BY <1>3, <1>4, <2>1, LagsTail
    <2> QED
      BY <1>4, <2>1, <2>2, Sizes, SMTT(60)
  <1>13. /\ grecv' \in Nat /\ grecv' <= GuestBuf
         /\ gst' = "open" => l <= GuestBuf /\ Adds(Inbound', grecv', l)
    <2>1. CASE gst = "open"
      <3>1. l <= GuestBuf /\ Adds(Inbound, grecv, l) /\ grecv' = grecv + inbox.len
        BY <1>1, <1>2, <2>1 DEF ToGuestInv
      <3> HIDE DEF l
      <3>2. grecv + inbox.len <= l /\ Adds(Inbound', grecv + inbox.len, l)
        BY <1>3, <1>4, <3>1, AddsTail
      <3>3. grecv + inbox.len \in Nat /\ grecv + inbox.len <= GuestBuf
        BY <1>4, <3>1, <3>2, Sizes, SMTT(60)
      <3> QED
        BY <3>1, <3>2, <3>3
    <2>2. CASE gst # "open"
      <3>1. grecv' = grecv /\ grecv <= GuestBuf
        BY <1>1, <1>2, <2>2 DEF ToGuestInv
      <3>2. ASSUME gst' = "open"
            PROVE  l = 0 /\ grecv = 0 /\ Inbound' = <<>>
        <4>1. gst \in {"idle", "dialing"}
          BY <1>8, <1>9, <2>2, <3>2
        <4>2. tx_cnt = 0 /\ gfwd = 0 /\ grecv = 0
          BY <1>1, <4>1 DEF DialInv
        <4> QED
          BY <1>7, <4>1, <4>2, Even
      <3>3. 0 \in Nat /\ 0 <= GuestBuf
        BY Sizes, SMTT(60)
      <3>4. Adds(<<>>, 0, 0)
        BY <3>3, AddsNil
      <3> HIDE DEF l
      <3> QED
        BY <1>4, <3>1, <3>2, <3>3, <3>4
    <2> QED
      BY <2>1, <2>2
  <1> HIDE DEF a
  <1>14. Typed'
    BY <1>1, <1>2, <1>4, <1>10, <1>11, <1>13 DEF Typed
  <1>15. ToHostInv'
    BY <1>1, <1>2, <1>11, <1>12 DEF ToHostInv
  <1>16. ToGuestInv'
    BY <1>1, <1>2, <1>11, <1>13 DEF ToGuestInv
  <1>17. DialInv'
    <2>1. ~waiting
      BY <1>1, <1>7 DEF DialInv
    <2> QED
      BY <1>1, <1>2, <1>10, <1>11, <2>1 DEF DialInv
  <1>18. EndInv'
    <2>1. \A i \in 1 .. Len(Inbound') :
             Inbound'[i].op \in {"RST", "SHUTDOWN"} => ~conn /\ Quiet
      BY <1>1, <1>5 DEF EndInv
    <2>2. \A i \in 1 .. Len(Inbound') :
             Inbound'[i].op \in {"RST", "SHUTDOWN"} => ~conn' /\ Quiet'
      BY <1>2, <1>10, <2>1
    <2>3. conn' /\ host_done' => gst' = "closed" \/ (hst' = "closed" /\ (hbuf' = 0 \/ to_host' > 0))
      BY <1>1, <1>2, <1>10 DEF EndInv
    <2>4. \A i \in 1 .. Len(txq') : txq'[i].op = "SHUTDOWN" => gst' = "closed"
      BY <1>10, <1>11
    <2>5. gst' = "ended" => ~conn' /\ Quiet'
      BY <1>2, <1>10
    <2>6. (hst' = "idle" => hbuf' = 0) /\ hbuf' + hleft' <= HostBytes
      BY <1>1, <1>2 DEF EndInv
    <2> QED
      BY <2>2, <2>3, <2>4, <2>5, <2>6 DEF EndInv
  <1> QED
    BY <1>14, <1>15, <1>16, <1>17, <1>18, TypedThen DEF VsockInv

-----------------------------------------------------------------------------
(***************************************************************************)
(* Theorems.                                                               *)
(***************************************************************************)

\* The invariant holds at first.
LEMMA InitKeeps == Init => VsockInv
  <1> SUFFICES ASSUME Init
               PROVE  VsockInv
    OBVIOUS
  <1>1. /\ 0 \in Nat /\ 0 \in 0 .. BUF_ALLOC /\ 0 <= GuestBuf /\ 0 \in 0 .. HostBytes
        /\ GuestBytes \in 0 .. GuestBytes /\ HostBytes \in 0 .. HostBytes
        /\ MaxAsks \in 0 .. MaxAsks /\ 0 + HostBytes <= HostBytes /\ 0 \in Counters
    BY Sizes, SMTT(60) DEF Counters
  <1>2. <<>> \in Seq(ToGuest) /\ <<>> \in Seq(FromGuest)
    BY SMTT(60)
  <1>3. Typed
    BY <1>1, <1>2 DEF Typed, Init
  <1>4. Inbound = <<>>
    BY DEF Inbound, Init
  <1>5. ToHostInv
    BY Empty DEF ToHostInv, Init
  <1>6. ToGuestInv
    BY <1>1 DEF ToGuestInv, Init
  <1>7. DialInv
    BY <1>4, Empty DEF DialInv, Init
  <1>8. EndInv
    BY <1>1, <1>4, Empty DEF EndInv, Init
  <1> QED
    BY <1>3, <1>5, <1>6, <1>7, <1>8, TypedIs DEF VsockInv

\* ... and every step keeps it.
LEMMA NextKeeps == VsockInv /\ [Next]_vars => VsockInv'
  <1> SUFFICES ASSUME VsockInv, [Next]_vars
               PROVE  VsockInv'
    OBVIOUS
  <1>1. CASE HandleTx
    BY <1>1, OnRequestKeeps, OnRequestRefusedKeeps, HandlersKeep DEF HandleTx
  <1>2. CASE PollRx \/ UNCHANGED vars
    BY <1>2, SameKeeps
  <1>3. CASE PumpAccept
    BY <1>3, PumpAcceptKeeps
  <1>4. ASSUME NEW w \in 0 .. BUF_ALLOC, Pump(w)
        PROVE  VsockInv'
    BY <1>4, PumpKeeps
  <1>5. CASE GuestDial \/ GuestReceive \/ GuestRead \/ GuestAsks \/ GuestClose
    BY <1>5, GuestDialKeeps, GuestReceiveKeeps, GuestReadKeeps, GuestNotesKeep
  <1>6. ASSUME NEW n \in 1 .. BUF_ALLOC, GuestSend(n)
        PROVE  VsockInv'
    BY <1>6, GuestSendKeeps
  <1>7. CASE Host
    BY <1>7, HostKeeps DEF Host
  <1> QED
    BY <1>1, <1>2, <1>3, <1>4, <1>5, <1>6, <1>7 DEF Next, PumpRx, Guest

\* The counters of the two ends agree, up to what is under way between them: the
\* invariant of on_guest_packet, poll_rx and pump.
THEOREM CountersAgree == Spec => []VsockInv
  BY InitKeeps, NextKeeps, PTL DEF Spec

\* Flow control holds for all windows below the wrap of the counters: guest_window
\* never lets pump send the guest more than it has room for, and on_rw never resets
\* a guest that keeps within its credit.
THEOREM CreditIsRespected == Spec => []CreditRespected
  <1>1. VsockInv => CreditRespected
    <2> SUFFICES ASSUME VsockInv
                 PROVE  CreditRespected
      OBVIOUS
    <2>1. TypeOK /\ Typed /\ grecv <= GuestBuf /\ EndInv
      BY TypedIs DEF VsockInv, ToGuestInv
    <2>2. ASSUME conn, NEW i \in 1 .. Len(rx)
          PROVE  rx[i].op # "RST"
      <3>1. CASE inbox = Nothing
        BY <2>1, <2>2, <3>1 DEF EndInv, Inbound
      <3>2. CASE inbox # Nothing
        <4>1. rx \in Seq(ToGuest)
          BY <2>1 DEF Typed
        <4>2. i + 1 \in 1 .. Len(<<inbox>> \o rx) /\ (<<inbox>> \o rx)[i + 1] = rx[i]
          BY <4>1, SMTT(60)
        <4>3. Inbound = <<inbox>> \o rx
          BY <3>2 DEF Inbound
        <4> QED
          BY <2>1, <2>2, <4>2, <4>3 DEF EndInv
      <3> QED
        BY <3>1, <3>2
    <2> QED
      BY <2>1, <2>2 DEF CreditRespected
  <1> QED
    BY <1>1, CountersAgree, PTL

\* pump tells the guest that the stream ended only after all that the host peer
\* wrote, whatever the window and however the bytes are cut into packets.
THEOREM HostBytesAreDelivered == Spec => []HostBytesDelivered
  <1>1. VsockInv => HostBytesDelivered
    BY DEF VsockInv, EndInv, Quiet, HostBytesDelivered
  <1> QED
    BY <1>1, CountersAgree, PTL
=============================================================================
