--------------------------- MODULE SnapshotDirProofs ---------------------------
(***************************************************************************)
(* Proofs about module SnapshotDir, for any number of restores, attempts   *)
(* and vcpus, any machine and any host.                                    *)
(***************************************************************************)
EXTENDS SnapshotDir, SequenceTheorems, TLAPS

\* Leaves are for Zenon; those for the SMT solver say so.
USE ZenonT(60)

Order == WriteOrder(machine)
LastFile == CpuFile(machine.vcpus - 1)
Whole(f) == dir[f].st = "whole"

FileStates == [st : {"absent", "cut", "whole"}, by : Nat]

\* What the fields of a restore can be: everything it has read is of the one
\* machine the template has.
ForkStates ==
  [pc : {"new", "meta", "cpus", "gic", "dev", "map", "devices", "run", "running", "refused"},
   host : Hosts \cup {None}, meta : {None, machine}, next : 0..machine.vcpus,
   cpus : Seq(Nat), gic : FileStates \cup {None},
   dev : [by : Nat, virtio : {<<>>, Devices(machine)}] \cup {None},
   built : {<<>>, Rebuilt(machine)}, ready : BOOLEAN]

Types ==
  /\ machine \in Machines /\ attempts \in 0..MaxAttempts /\ clash \in BOOLEAN
  /\ dir \in [Files -> FileStates]
  /\ \A f \in Files : dir[f].by <= attempts
  /\ attempts = 0 => \A f \in Files : dir[f].st = "absent"
  /\ fork \in [Restores -> ForkStates]

\* An attempt that is running is at position p of the order of write: what comes
\* before is whole and its own.  The first attempt finds nothing.
WriterAt(p) ==
  /\ writer \in [by : Nat, left : Seq(Files), open : BOOLEAN]
  /\ writer.by = attempts /\ attempts > 0 /\ writer.left = SubSeq(Order, p, Len(Order))
  /\ \A i \in 1..(p - 1) : dir[Order[i]] = [st |-> "whole", by |-> attempts]
  /\ writer.open => dir[Order[p]].st = "cut"
  /\ attempts = 1 => \A i \in p..Len(Order) : ~Whole(Order[i])

WriterInv == writer # None => \E p \in 1..Len(Order) : WriterAt(p)

\* Unless there was a clash, the last file of the order is whole in a complete
\* directory only, and never while an attempt runs.
LastInv ==
  ~clash => /\ Whole(LastFile) => Complete
            /\ writer # None => ~Whole(LastFile)

Past(r, pcs) == fork[r].pc \in pcs
AfterMeta == {"cpus", "gic", "dev", "map", "devices", "run", "running"}
AfterCpus == AfterMeta \ {"cpus"}
AfterGic == AfterCpus \ {"gic"}
AfterDev == AfterGic \ {"dev"}
AfterDevices == {"run", "running"}

\* What a restore has, with or without a clash.
HasInv(r) ==
  /\ Len(fork[r].cpus) = fork[r].next
  /\ fork[r].pc # "new" => fork[r].host \in Hosts
  /\ Past(r, AfterMeta) => fork[r].meta = machine
  /\ At(r, "meta") => fork[r].next = 0
  /\ At(r, "cpus") => fork[r].next < machine.vcpus
  /\ Past(r, AfterCpus) => fork[r].next = machine.vcpus
  /\ Past(r, AfterGic) => fork[r].gic \in FileStates
  /\ Past(r, AfterDev) => fork[r].dev \in [by : Nat, virtio : {<<>>, Devices(machine)}]
  /\ Past(r, AfterDevices) => /\ fork[r].built = Rebuilt(machine)
                              /\ Len(Rebuilt(machine)) = Len(fork[r].dev.virtio)
  /\ At(r, "running") => GicFits(fork[r])

\* What it has without one: no attempt but the first runs beside it, and from
\* the last vcpu on the directory is complete.
CleanInv(r) ==
  /\ Reading(r) /\ writer # None => attempts = 1
  /\ Past(r, AfterMeta) => \A i \in 1..fork[r].next : /\ Whole(CpuFile(i - 1))
                                                      /\ fork[r].cpus[i] = dir[CpuFile(i - 1)].by
  /\ Past(r, AfterCpus) \/ fork[r].ready => Complete
  /\ Past(r, AfterGic) => fork[r].gic = dir[<<"gic", 0>>]
  /\ Past(r, AfterDev) => fork[r].dev = [by |-> dir[<<"dev", 0>>].by, virtio |-> Devices(machine)]

\* What refuses a restore that found a complete directory.
Cause(r) ==
  \/ machine.net /\ ~fork[r].host.net
  \/ machine.vsock /\ ~fork[r].host.vsock
  \/ machine.data > 0
  \/ machine.gic # fork[r].host.gic

ForkInv(r) ==
  /\ HasInv(r)
  /\ ~clash => CleanInv(r)
  /\ ~clash /\ fork[r].ready /\ At(r, "refused") => Cause(r)

\* The inductive invariant: of the directory and the writer, and of each restore.
DirInv == Types /\ WriterInv /\ LastInv /\ \A r \in Restores : ForkInv(r)

-----------------------------------------------------------------------------
(***************************************************************************)
(* The order of write and the lists of devices.                            *)
(***************************************************************************)

\* WriteOrder has the four files of the machine, then one for each vcpu.
LEMMA OrderShape ==
  ASSUME NEW m \in Machines
  PROVE  /\ WriteOrder(m) \in Seq(Files)
         /\ Len(WriteOrder(m)) = m.vcpus + 4
         /\ WriteOrder(m)[1] = <<"dev", 0>> /\ WriteOrder(m)[2] = <<"mem", 0>>
         /\ WriteOrder(m)[3] = <<"gic", 0>> /\ WriteOrder(m)[4] = <<"meta", 0>>
         /\ \A i \in 5..(m.vcpus + 4) : WriteOrder(m)[i] = CpuFile(i - 5)
         /\ m.vcpus \in Nat \ {0}
  <1> DEFINE four == <<<<"dev", 0>>, <<"mem", 0>>, <<"gic", 0>>, <<"meta", 0>>>>
             cpus == CpuFiles(m.vcpus)
  <1>1. m.vcpus \in 1..MaxVcpus
    BY DEF Machines
  <1>2. m.vcpus \in Nat \ {0} /\ m.vcpus <= MaxVcpus
    BY <1>1, SnapshotAssumption, SMTT(60)
  <1>3. four \in Seq(Files) /\ Len(four) = 4
    BY SMTT(60) DEF Files
  <1>4. cpus \in Seq(Files) /\ Len(cpus) = m.vcpus /\ \A i \in 1..m.vcpus : cpus[i] = CpuFile(i - 1)
    <2>1. \A i \in 1..m.vcpus : CpuFile(i - 1) \in Files
      BY <1>2, SnapshotAssumption, SMTT(60) DEF Files
    <2> QED
      BY <2>1, <1>2, SMTT(60) DEF CpuFiles
  <1>5. WriteOrder(m) = four \o cpus
    BY DEF WriteOrder
  <1> HIDE DEF four, cpus
  <1>6. /\ four \o cpus \in Seq(Files)
        /\ Len(four \o cpus) = Len(four) + Len(cpus)
        /\ \A i \in 1..(Len(four) + Len(cpus)) :
             (four \o cpus)[i] = IF i <= Len(four) THEN four[i] ELSE cpus[i - Len(four)]
    BY <1>3, <1>4, ConcatProperties
  <1>7. WriteOrder(m) \in Seq(Files) /\ Len(WriteOrder(m)) = m.vcpus + 4
    BY <1>2, <1>3, <1>4, <1>5, <1>6, SMTT(60)
  <1>8. \A i \in 1..(m.vcpus + 4) :
          WriteOrder(m)[i] = IF i <= 4 THEN four[i] ELSE cpus[i - 4]
    BY <1>2, <1>3, <1>4, <1>5, <1>6, SMTT(60)
  <1>9. \A i \in 5..(m.vcpus + 4) : WriteOrder(m)[i] = CpuFile(i - 5)
    <2> SUFFICES ASSUME NEW i \in 5..(m.vcpus + 4) PROVE WriteOrder(m)[i] = CpuFile(i - 5)
      OBVIOUS
    <2>1. i - 4 \in 1..m.vcpus /\ (i - 4) - 1 = i - 5
      BY <1>2, SMTT(60)
    <2> QED
      BY <2>1, <1>2, <1>4, <1>8, SMTT(60)
  <1>10. four[1] = <<"dev", 0>> /\ four[2] = <<"mem", 0>> /\ four[3] = <<"gic", 0>> /\ four[4] = <<"meta", 0>>
    BY DEF four
  <1>11. \A i \in {1, 2, 3, 4} : WriteOrder(m)[i] = four[i]
    BY <1>2, <1>8, SMTT(60)
  <1> QED
    BY <1>2, <1>7, <1>9, <1>10, <1>11

\* No file comes twice.
LEMMA OrderInjective ==
  ASSUME NEW m \in Machines,
         NEW i \in 1..(m.vcpus + 4), NEW j \in 1..(m.vcpus + 4),
         WriteOrder(m)[i] = WriteOrder(m)[j]
  PROVE  i = j
  <1>1. i \in {1, 2, 3, 4} \/ i \in 5..(m.vcpus + 4)
    BY OrderShape, SMTT(60)
  <1>2. j \in {1, 2, 3, 4} \/ j \in 5..(m.vcpus + 4)
    BY OrderShape, SMTT(60)
  <1>3. i \in 5..(m.vcpus + 4) => WriteOrder(m)[i] = <<"cpu", i - 5>>
    BY OrderShape DEF CpuFile
  <1>4. j \in 5..(m.vcpus + 4) => WriteOrder(m)[j] = <<"cpu", j - 5>>
    BY OrderShape DEF CpuFile
  <1> QED
    BY <1>1, <1>2, <1>3, <1>4, OrderShape, SMTT(60)

\* The files of vcpus are in the order, the last one at its end.
LEMMA CpuInOrder ==
  ASSUME NEW m \in Machines, NEW i \in 1..m.vcpus
  PROVE  i + 4 \in 1..Len(WriteOrder(m)) /\ WriteOrder(m)[i + 4] = CpuFile(i - 1)
  BY OrderShape, SMTT(60)

\* What is left of the order: its first file, and what remains without it.
LEMMA Suffix ==
  ASSUME NEW S, NEW s \in Seq(S), NEW p \in 1..Len(s)
  PROVE  LET t == SubSeq(s, p, Len(s))
         IN  /\ t \in Seq(S) /\ Len(t) = Len(s) - p + 1 /\ Head(t) = s[p]
             /\ p < Len(s) => Tail(t) = SubSeq(s, p + 1, Len(s))
  <1> DEFINE t == SubSeq(s, p, Len(s))
             u == SubSeq(s, p + 1, Len(s))
  <1>0. Len(s) \in Nat /\ p \in Nat /\ p >= 1 /\ p <= Len(s)
    BY SMTT(60)
  <1>1. t \in Seq(S) /\ Len(t) = Len(s) - p + 1 /\ \A i \in 1..(Len(s) - p + 1) : t[i] = s[p + i - 1]
    BY <1>0, SubSeqProperties, SMTT(60)
  <1>2. Head(t) = s[p]
    BY <1>0, <1>1, SMTT(60)
  <1>3. ASSUME p < Len(s) PROVE Tail(t) = u
    <2>1. u \in Seq(S) /\ Len(u) = Len(s) - p /\ \A i \in 1..(Len(s) - p) : u[i] = s[p + 1 + i - 1]
      BY <1>0, <1>3, SubSeqProperties, SMTT(60)
    <2>2. Tail(t) \in Seq(S) /\ Len(Tail(t)) = Len(s) - p /\ \A i \in 1..(Len(s) - p) : Tail(t)[i] = t[i + 1]
      <3>1. t # <<>>
        BY <1>0, <1>1, SMTT(60)
      <3> HIDE DEF t
      <3> QED
        BY <1>0, <1>1, <1>3, <3>1, HeadTailProperties, SMTT(60)
    <2> HIDE DEF t, u
    <2>3. \A i \in 1..(Len(s) - p) : Tail(t)[i] = u[i]
      <3> SUFFICES ASSUME NEW i \in 1..(Len(s) - p) PROVE Tail(t)[i] = u[i]
        OBVIOUS
      <3>1. i + 1 \in 1..(Len(s) - p + 1) /\ p + (i + 1) - 1 = p + 1 + i - 1
        BY <1>0, SMTT(60)
      <3> QED
        BY <1>1, <2>1, <2>2, <3>1
    <2> QED
      BY <2>1, <2>2, <2>3, SeqEqual
  <1> QED
    BY <1>1, <1>2, <1>3

\* A list of at most one device.
LEMMA OptList ==
  ASSUME NEW S, NEW c \in BOOLEAN, NEW d \in S
  PROVE  /\ <<d>> \in Seq(S) /\ Len(<<d>>) = 1
         /\ Opt(c, d) \in Seq(S) /\ Len(Opt(c, d)) = (IF c THEN 1 ELSE 0)
         /\ ~c => Opt(c, d) = <<>>
  <1>1. <<d>> \in Seq(S) /\ Len(<<d>>) = 1 /\ <<>> \in Seq(S) /\ Len(<<>>) = 0
    BY SMTT(60)
  <1> QED
    BY <1>1, SMTT(60) DEF Opt

\* Devices and Rebuilt differ by the data disk: same length, same devices.
LEMMA DeviceLists ==
  ASSUME NEW m \in Machines
  PROVE  /\ Len(Devices(m)) \in Nat /\ Len(Rebuilt(m)) \in Nat \ {0}
         /\ m.data = 0 => Devices(m) = Rebuilt(m)
         /\ Len(Devices(m)) = Len(Rebuilt(m)) => m.data = 0
  <1>1. m.data \in {0, 1}
    BY SMTT(60) DEF Machines
  <1> DEFINE Kinds == {"blk", "rng", "net", "vsock", "balloon"}
             disk == Opt(m.disk, "blk")
             data == Opt(m.data = 1, "blk")
             rng == <<"rng">>
             net == Opt(m.net, "net")
             vsock == Opt(m.vsock, "vsock")
             balloon == <<"balloon">>
  <1>2. /\ disk \in Seq(Kinds) /\ data \in Seq(Kinds) /\ rng \in Seq(Kinds)
        /\ net \in Seq(Kinds) /\ vsock \in Seq(Kinds) /\ balloon \in Seq(Kinds)
        /\ Len(balloon) = 1 /\ Len(data) = m.data
        /\ m.data = 0 => data = <<>>
    <2>1. Kinds = {"blk", "rng", "net", "vsock", "balloon"}
      OBVIOUS
    <2> HIDE DEF Kinds
    <2>2. "blk" \in Kinds /\ "rng" \in Kinds /\ "net" \in Kinds /\ "vsock" \in Kinds /\ "balloon" \in Kinds
      BY <2>1
    <2>3. m.disk \in BOOLEAN /\ m.net \in BOOLEAN /\ m.vsock \in BOOLEAN /\ (m.data = 1) \in BOOLEAN
      BY DEF Machines
    <2>4. disk \in Seq(Kinds) /\ net \in Seq(Kinds) /\ vsock \in Seq(Kinds)
      BY <2>2, <2>3, OptList
    <2>5. rng \in Seq(Kinds) /\ balloon \in Seq(Kinds) /\ Len(balloon) = 1
      BY <2>2, OptList
    <2>6. data \in Seq(Kinds) /\ Len(data) = m.data /\ (m.data = 0 => data = <<>>)
      <3>1. CASE m.data = 1
        <4>1. data = <<"blk">>
          BY <3>1 DEF Opt
        <4> HIDE DEF data
        <4> QED
          BY <3>1, <4>1, <2>2, OptList, SMTT(60)
      <3>2. CASE m.data = 0
        <4>1. data = <<>>
          BY <3>2, SMTT(60) DEF Opt
        <4> HIDE DEF data
        <4> QED
          BY <3>2, <4>1, SMTT(60)
      <3> QED
        BY <1>1, <3>1, <3>2
    <2> QED
      BY <2>4, <2>5, <2>6
  <1>3. Devices(m) = disk \o data \o rng \o net \o vsock \o balloon
    BY DEF Devices
  <1>4. Rebuilt(m) = disk \o rng \o net \o vsock \o balloon
    BY DEF Rebuilt
  <1> HIDE DEF Kinds, disk, data, rng, net, vsock, balloon
  <1>5. m.data = 0 => disk \o data = disk
    BY <1>2, ConcatEmptySeq
  <1>6. disk \o data \in Seq(Kinds) /\ Len(disk \o data) = Len(disk) + Len(data)
    BY <1>2, ConcatProperties
  <1>7. ASSUME NEW s \in Seq(Kinds), NEW t \in Seq(Kinds)
        PROVE  s \o t \in Seq(Kinds) /\ Len(s \o t) = Len(s) + Len(t)
    BY ConcatProperties
  <1>8. Len(Devices(m)) = Len(disk) + Len(data) + Len(rng) + Len(net) + Len(vsock) + Len(balloon)
    <2>1. disk \o data \o rng \in Seq(Kinds) /\ Len(disk \o data \o rng) = Len(disk \o data) + Len(rng)
      BY <1>2, <1>6, <1>7
    <2>2. /\ disk \o data \o rng \o net \in Seq(Kinds)
          /\ Len(disk \o data \o rng \o net) = Len(disk \o data \o rng) + Len(net)
      BY <1>2, <1>7, <2>1
    <2>3. /\ disk \o data \o rng \o net \o vsock \in Seq(Kinds)
          /\ Len(disk \o data \o rng \o net \o vsock) = Len(disk \o data \o rng \o net) + Len(vsock)
      BY <1>2, <1>7, <2>2
    <2>4. Len(Devices(m)) = Len(disk \o data \o rng \o net \o vsock) + Len(balloon)
      BY <1>2, <1>3, <1>7, <2>3
    <2> QED
      BY <1>6, <2>1, <2>2, <2>3, <2>4
  <1>9. Len(Rebuilt(m)) = Len(disk) + Len(rng) + Len(net) + Len(vsock) + Len(balloon)
    <2>1. disk \o rng \in Seq(Kinds) /\ Len(disk \o rng) = Len(disk) + Len(rng)
      BY <1>2, <1>7
    <2>2. disk \o rng \o net \in Seq(Kinds) /\ Len(disk \o rng \o net) = Len(disk \o rng) + Len(net)
      BY <1>2, <1>7, <2>1
    <2>3. /\ disk \o rng \o net \o vsock \in Seq(Kinds)
          /\ Len(disk \o rng \o net \o vsock) = Len(disk \o rng \o net) + Len(vsock)
      BY <1>2, <1>7, <2>2
    <2>4. Len(Rebuilt(m)) = Len(disk \o rng \o net \o vsock) + Len(balloon)
      BY <1>2, <1>4, <1>7, <2>3
    <2> QED
      BY <2>1, <2>2, <2>3, <2>4
  <1>10. /\ Len(disk) \in Nat /\ Len(data) \in Nat /\ Len(rng) \in Nat /\ Len(net) \in Nat
         /\ Len(vsock) \in Nat /\ Len(balloon) \in Nat
    BY <1>2, SMTT(60)
  <1>11. m.data = 0 => Devices(m) = Rebuilt(m)
    BY <1>3, <1>4, <1>5
  <1> QED
    BY <1>1, <1>2, <1>8, <1>9, <1>10, <1>11, SMTT(60)

-----------------------------------------------------------------------------
(***************************************************************************)
(* A complete directory.                                                   *)
(***************************************************************************)

\* Complete, by position in the order.
LEMMA CompleteByPosition ==
  ASSUME machine \in Machines
  PROVE  Complete <=> \A i \in 1..Len(Order) : Whole(Order[i]) /\ dir[Order[i]].by = Mem.by
  <1>1. DOMAIN Order = 1..Len(Order)
    BY OrderShape, SMTT(60) DEF Order
  <1> QED
    BY <1>1 DEF Complete, Order, Whole, Mem

\* Complete, file by file.
LEMMA CompleteFiles ==
  ASSUME machine \in Machines, Complete
  PROVE  /\ Whole(<<"dev", 0>>) /\ Whole(<<"mem", 0>>) /\ Whole(<<"gic", 0>>) /\ Whole(<<"meta", 0>>)
         /\ dir[<<"dev", 0>>].by = Mem.by /\ dir[<<"gic", 0>>].by = Mem.by
         /\ \A i \in 1..machine.vcpus : Whole(CpuFile(i - 1)) /\ dir[CpuFile(i - 1)].by = Mem.by
         /\ Whole(LastFile)
  <1>1. \A i \in 1..Len(Order) : Whole(Order[i]) /\ dir[Order[i]].by = Mem.by
    BY CompleteByPosition
  <1>2. 1 \in 1..Len(Order) /\ 2 \in 1..Len(Order) /\ 3 \in 1..Len(Order) /\ 4 \in 1..Len(Order)
    BY OrderShape, SMTT(60) DEF Order
  <1>3. /\ Order[1] = <<"dev", 0>> /\ Order[2] = <<"mem", 0>>
        /\ Order[3] = <<"gic", 0>> /\ Order[4] = <<"meta", 0>>
    BY OrderShape DEF Order
  <1>4. \A i \in 1..machine.vcpus : Whole(CpuFile(i - 1)) /\ dir[CpuFile(i - 1)].by = Mem.by
    BY <1>1, CpuInOrder DEF Order
  <1>5. machine.vcpus \in 1..machine.vcpus
    BY OrderShape, SMTT(60)
  <1>6. /\ Whole(<<"dev", 0>>) /\ Whole(<<"mem", 0>>) /\ Whole(<<"gic", 0>>) /\ Whole(<<"meta", 0>>)
        /\ dir[<<"dev", 0>>].by = Mem.by /\ dir[<<"gic", 0>>].by = Mem.by
    BY <1>1, <1>2, <1>3
  <1>7. Whole(LastFile)
    BY <1>4, <1>5 DEF LastFile
  <1> QED
    BY <1>4, <1>6, <1>7

\* The files a restore reads are files of the directory.
LEMMA KnownFiles ==
  ASSUME machine \in Machines
  PROVE  /\ {<<"dev", 0>>, <<"mem", 0>>, <<"gic", 0>>, <<"meta", 0>>} \subseteq Files
         /\ \A i \in 1..Len(Order) : Order[i] \in Files
         /\ \A i \in 1..machine.vcpus : CpuFile(i - 1) \in Files
         /\ LastFile \in Files
  <1>1. \A i \in 1..Len(Order) : Order[i] \in Files
    BY OrderShape, SMTT(60) DEF Order
  <1>2. \A i \in 1..machine.vcpus : CpuFile(i - 1) \in Files
    BY <1>1, CpuInOrder DEF Order
  <1>3. machine.vcpus \in 1..machine.vcpus
    BY OrderShape, SMTT(60)
  <1> QED
    BY <1>1, <1>2, <1>3 DEF LastFile, Files

-----------------------------------------------------------------------------
(***************************************************************************)
(* Steps of a restore.                                                     *)
(***************************************************************************)

\* Other restores do not see it.
LEMMA OneForkMoves ==
  ASSUME DirInv, NEW r \in Restores, NEW b \in ForkStates, Goes(r, b), ForkInv(r)'
  PROVE  DirInv'
  <1>1. UNCHANGED <<machine, dir, writer, attempts, clash>>
    BY DEF Goes
  <1>2. fork \in [Restores -> ForkStates] /\ fork' = [fork EXCEPT ![r] = b]
    BY DEF Goes, DirInv, Types
  <1>3. Types'
    <2>1. ForkStates' = ForkStates
      BY <1>1 DEF ForkStates
    <2>2. fork' \in [Restores -> ForkStates]
      BY <1>2
    <2> QED
      BY <1>1, <2>1, <2>2 DEF Types, DirInv
  <1>4. ASSUME NEW q \in Restores, q # r PROVE ForkInv(q)'
    <2>1. fork'[q] = fork[q]
      BY <1>2, <1>4
    <2>2. ForkInv(q)
      BY DEF DirInv
    <2>3. Complete' = Complete
      BY <1>1 DEF Complete
    <2> QED
      BY <1>1, <2>1, <2>2, <2>3, SMTT(60)
         DEF ForkInv, HasInv, CleanInv, Cause, Past, At, Reading, GicFits, Whole
  <1>5. WriterInv' /\ LastInv'
    <2>1. \A p \in 1..Len(Order) : WriterAt(p)' <=> WriterAt(p)
      BY <1>1 DEF WriterAt, Order, Whole
    <2>2. Order' = Order /\ Complete' = Complete /\ Whole(LastFile)' = Whole(LastFile)
      BY <1>1 DEF Order, Complete, Whole, LastFile
    <2> QED
      BY <1>1, <2>1, <2>2 DEF DirInv, WriterInv, LastInv
  <1> QED
    BY <1>3, <1>4, <1>5 DEF DirInv

\* What a step of a restore leaves alone, and what it finds.
LEMMA GoesFacts ==
  ASSUME DirInv, NEW r \in Restores, NEW b, Goes(r, b)
  PROVE  /\ UNCHANGED <<machine, dir, writer, attempts, clash>> /\ Complete' = Complete
         /\ fork'[r] = b /\ fork[r] \in ForkStates /\ ForkInv(r)
         /\ machine \in Machines /\ dir \in [Files -> FileStates]
  BY DEF Goes, DirInv, Types, Complete

\* A restore is refused: without a clash and of a complete directory, for cause.
LEMMA RefusedStep ==
  ASSUME DirInv, NEW r \in Restores, Goes(r, Refused(r)),
         fork[r].pc # "new", ~clash /\ fork[r].ready => Cause(r)
  PROVE  DirInv'
  <1>1. Refused(r) \in ForkStates
    BY GoesFacts, SMTT(60) DEF Refused, ForkStates
  <1>2. /\ fork'[r].pc = "refused" /\ fork'[r].ready = fork[r].ready /\ fork'[r].host = fork[r].host
        /\ fork'[r].cpus = fork[r].cpus /\ fork'[r].next = fork[r].next
    BY GoesFacts, SMTT(60) DEF Refused, ForkStates
  <1>3. HasInv(r)'
    BY <1>2, GoesFacts
       DEF ForkInv, HasInv, Past, At, AfterMeta, AfterCpus, AfterGic, AfterDev, AfterDevices
  <1>4. ~clash' => CleanInv(r)'
    BY <1>2, GoesFacts, SMTT(60)
       DEF ForkInv, CleanInv, Past, Reading, AfterMeta, AfterCpus, AfterGic, AfterDev
  <1>5. Cause(r)' <=> Cause(r)
    BY <1>2, GoesFacts DEF Cause
  <1>6. ForkInv(r)'
    BY <1>2, <1>3, <1>4, <1>5, GoesFacts DEF ForkInv
  <1> QED
    BY <1>1, <1>6, OneForkMoves

\* meta.json.
LEMMA ReadMetaStep ==
  ASSUME DirInv, NEW r \in Restores, ReadMeta(r)
  PROVE  DirInv'
  <1>1. CASE ~Parses(<<"meta", 0>>)
    <2>1. Goes(r, Refused(r)) /\ fork[r].pc # "new"
      BY <1>1 DEF ReadMeta, At
    <2>2. clash \/ ~fork[r].ready
      BY <1>1, <2>1, GoesFacts, CompleteFiles DEF ForkInv, CleanInv, Parses, Whole
    <2> QED
      BY <2>1, <2>2, RefusedStep
  <1>2. CASE Parses(<<"meta", 0>>)
    <2> DEFINE b == [fork[r] EXCEPT !.pc = "cpus", !.meta = machine]
    <2>1. Goes(r, b) /\ fork[r].pc = "meta"
      BY <1>2 DEF ReadMeta, At
    <2> HIDE DEF b
    <2>2. fork'[r] = b /\ fork[r] \in ForkStates /\ ForkInv(r)
      BY <2>1, GoesFacts
    <2>3. b \in ForkStates
      BY <2>2 DEF b, ForkStates
    <2>4. /\ fork'[r].pc = "cpus" /\ fork'[r].meta = machine /\ fork'[r].host = fork[r].host
          /\ fork'[r].next = fork[r].next /\ fork'[r].cpus = fork[r].cpus /\ fork'[r].ready = fork[r].ready
      BY <2>2 DEF b, ForkStates
    <2>5. fork[r].next = 0
      BY <2>1, <2>2 DEF ForkInv, HasInv, At
    <2>6. HasInv(r)'
      BY <2>1, <2>4, <2>5, GoesFacts, OrderShape, SMTT(60)
         DEF ForkInv, HasInv, Past, At, AfterMeta, AfterCpus, AfterGic, AfterDev, AfterDevices
    <2>7. ~clash' => CleanInv(r)'
      BY <2>1, <2>4, <2>5, GoesFacts, SMTT(60)
         DEF ForkInv, CleanInv, Past, Reading, AfterMeta, AfterCpus, AfterGic, AfterDev
    <2>8. ForkInv(r)'
      BY <2>4, <2>6, <2>7 DEF ForkInv, At
    <2> QED
      BY <2>1, <2>3, <2>8, OneForkMoves
  <1> QED
    BY <1>1, <1>2

\* The file of the next vcpu.  The last one is the last of the order.
LEMMA ReadCpuStep ==
  ASSUME DirInv, NEW r \in Restores, ReadCpu(r)
  PROVE  DirInv'
  <1> DEFINE f == CpuFile(fork[r].next)
  <1>0. /\ fork[r].pc = "cpus" /\ fork[r] \in ForkStates /\ ForkInv(r) /\ machine \in Machines
        /\ dir \in [Files -> FileStates] /\ LastInv
    BY DEF ReadCpu, At, DirInv, Types
  <1>1. /\ fork[r].next \in Nat /\ fork[r].next + 1 \in 1..machine.vcpus
        /\ (fork[r].next + 1) - 1 = fork[r].next /\ fork[r].meta = machine
    BY <1>0, OrderShape, SMTT(60) DEF ForkStates, ForkInv, HasInv, Past, At, AfterMeta
  <1>2. CASE ~Parses(f)
    <2>1. Goes(r, Refused(r)) /\ fork[r].pc # "new"
      BY <1>0, <1>2 DEF ReadCpu, At
    <2>2. clash \/ ~fork[r].ready
      BY <1>0, <1>1, <1>2, CompleteFiles DEF ForkInv, CleanInv, Parses, Whole
    <2> QED
      BY <2>1, <2>2, RefusedStep
  <1>3. CASE Parses(f)
    <2> DEFINE n == fork[r].next + 1
               b == [fork[r] EXCEPT !.next = n, !.cpus = Append(fork[r].cpus, dir[f].by),
                                    !.pc = IF n < machine.vcpus THEN "cpus" ELSE "gic"]
    <2>1. Goes(r, b)
      BY <1>0, <1>1, <1>3 DEF ReadCpu, At
    <2>2. f \in Files /\ dir[f].by \in Nat
      BY <1>0, <1>1, KnownFiles DEF FileStates
    <2>3. Append(fork[r].cpus, dir[f].by) \in Seq(Nat) /\ fork[r].cpus \in Seq(Nat)
      BY <1>0, <2>2, SMTT(60) DEF ForkStates
    <2>4. n \in 0..machine.vcpus
      BY <1>0, <1>1, OrderShape, SMTT(60)
    <2> HIDE DEF b
    <2>5. fork'[r] = b
      BY <2>1, GoesFacts
    <2>6. b \in ForkStates
      BY <1>0, <2>3, <2>4 DEF b, ForkStates
    <2>7. /\ fork'[r].pc = (IF n < machine.vcpus THEN "cpus" ELSE "gic") /\ fork'[r].meta = machine
          /\ fork'[r].host = fork[r].host /\ fork'[r].ready = fork[r].ready
          /\ fork'[r].next = n /\ fork'[r].cpus = Append(fork[r].cpus, dir[f].by)
      BY <1>0, <1>1, <2>5 DEF b, ForkStates
    <2>8. Len(fork'[r].cpus) = n /\ fork'[r].cpus[n] = dir[f].by
          /\ \A i \in 1..fork[r].next : fork'[r].cpus[i] = fork[r].cpus[i]
      <3>1. Len(fork[r].cpus) = fork[r].next
        BY <1>0 DEF ForkInv, HasInv
      <3> HIDE DEF f
      <3> QED
        BY <1>1, <2>2, <2>3, <2>7, <3>1, AppendProperties, SMTT(60)
    <2>9. HasInv(r)'
      <3>1. machine' = machine /\ machine.vcpus \in Nat
        BY <1>0, <2>1, GoesFacts, OrderShape
      <3>2. n < machine.vcpus \/ n = machine.vcpus
        BY <2>4, <3>1, SMTT(60)
      <3> HIDE DEF n, f
      <3> QED
        BY <1>0, <2>7, <2>8, <3>1, <3>2
           DEF ForkInv, HasInv, Past, At, AfterMeta, AfterCpus, AfterGic, AfterDev, AfterDevices
    <2>10. ASSUME ~clash' PROVE CleanInv(r)'
      <3>1. \A i \in 1..n : Whole(CpuFile(i - 1)) /\ fork'[r].cpus[i] = dir[CpuFile(i - 1)].by
        <4> SUFFICES ASSUME NEW i \in 1..n
                     PROVE Whole(CpuFile(i - 1)) /\ fork'[r].cpus[i] = dir[CpuFile(i - 1)].by
          OBVIOUS
        <4>1. CASE i = n
          BY <4>1, <1>1, <1>3, <2>8 DEF Parses, Whole
        <4>2. CASE i # n
          <5>1. i \in 1..fork[r].next
            BY <1>1, <4>2, SMTT(60)
          <5> QED
            BY <5>1, <1>0, <2>1, <2>8, <2>10, GoesFacts DEF ForkInv, CleanInv, Past, AfterMeta
        <4> QED
          BY <4>1, <4>2
      <3>2. ~(n < machine.vcpus) => Complete
        <4> SUFFICES ASSUME ~(n < machine.vcpus) PROVE Complete
          OBVIOUS
        <4>1. f = LastFile
          BY <1>0, <1>1, OrderShape, SMTT(60) DEF LastFile
        <4> QED
          BY <4>1, <1>0, <1>3, <2>1, <2>10, GoesFacts DEF LastInv, Parses, Whole
      <3>3. CleanInv(r) /\ UNCHANGED <<machine, dir, writer, attempts, clash>> /\ Complete' = Complete
        BY <1>0, <2>1, <2>10, GoesFacts DEF ForkInv
      <3>4. fork'[r].pc \in {"cpus", "gic"} /\ (fork'[r].pc = "gic" => Complete)
        BY <2>7, <3>2
      <3>5. Reading(r) /\ ~Past(r, AfterGic)' /\ ~Past(r, AfterDev)'
        BY <1>0, <3>4 DEF Reading, Past, AfterMeta, AfterCpus, AfterGic, AfterDev
      <3>6. writer' # None => attempts' = 1
        BY <3>3, <3>5 DEF CleanInv
      <3>7. Past(r, AfterCpus)' \/ fork'[r].ready => Complete'
        BY <2>7, <3>3, <3>4 DEF CleanInv, Past, AfterMeta, AfterCpus
      <3>8. \A i \in 1..fork'[r].next : Whole(CpuFile(i - 1))' /\ fork'[r].cpus[i] = dir'[CpuFile(i - 1)].by
        BY <2>7, <3>1, <3>3 DEF Whole
      <3> HIDE DEF f, n
      <3> QED
        BY <3>5, <3>6, <3>7, <3>8 DEF CleanInv
    <2>11. ForkInv(r)'
      BY <2>7, <2>9, <2>10 DEF ForkInv, At
    <2> QED
      BY <2>1, <2>6, <2>11, OneForkMoves
  <1> QED
    BY <1>2, <1>3

\* gic.bin.
LEMMA ReadGicStep ==
  ASSUME DirInv, NEW r \in Restores, ReadGic(r)
  PROVE  DirInv'
  <1>0. /\ fork[r].pc = "gic" /\ fork[r] \in ForkStates /\ ForkInv(r) /\ machine \in Machines
        /\ dir \in [Files -> FileStates]
    BY DEF ReadGic, At, DirInv, Types
  <1>1. CASE dir[<<"gic", 0>>].st = "absent"
    <2>1. Goes(r, Refused(r)) /\ fork[r].pc # "new"
      BY <1>0, <1>1 DEF ReadGic, At
    <2>2. clash \/ ~fork[r].ready
      BY <1>0, <1>1, CompleteFiles DEF ForkInv, CleanInv, Whole
    <2> QED
      BY <2>1, <2>2, RefusedStep
  <1>2. CASE dir[<<"gic", 0>>].st # "absent"
    <2> DEFINE b == [fork[r] EXCEPT !.pc = "dev", !.gic = dir[<<"gic", 0>>]]
    <2>1. Goes(r, b)
      BY <1>2 DEF ReadGic
    <2> HIDE DEF b
    <2>2. fork'[r] = b /\ UNCHANGED <<machine, dir, writer, attempts, clash>> /\ Complete' = Complete
      BY <2>1, GoesFacts
    <2>3. dir[<<"gic", 0>>] \in FileStates
      BY <1>0, KnownFiles
    <2>4. b \in ForkStates
      BY <1>0, <2>3 DEF b, ForkStates
    <2>5. /\ fork'[r].pc = "dev" /\ fork'[r].meta = fork[r].meta /\ fork'[r].host = fork[r].host
          /\ fork'[r].next = fork[r].next /\ fork'[r].cpus = fork[r].cpus /\ fork'[r].ready = fork[r].ready
          /\ fork'[r].gic = dir[<<"gic", 0>>]
      BY <1>0, <2>2 DEF b, ForkStates
    <2>6. HasInv(r)'
      BY <1>0, <2>2, <2>3, <2>5
         DEF ForkInv, HasInv, Past, At, AfterMeta, AfterCpus, AfterGic, AfterDev, AfterDevices
    <2>7. ~clash' => CleanInv(r)'
      BY <1>0, <2>2, <2>5
         DEF ForkInv, CleanInv, Past, Reading, Whole, AfterMeta, AfterCpus, AfterGic, AfterDev
    <2>8. ForkInv(r)'
      BY <2>5, <2>6, <2>7 DEF ForkInv, At
    <2> QED
      BY <2>1, <2>4, <2>8, OneForkMoves
  <1> QED
    BY <1>1, <1>2

\* dev.json.
LEMMA ReadDevStep ==
  ASSUME DirInv, NEW r \in Restores, ReadDev(r)
  PROVE  DirInv'
  <1> DEFINE d == dir[<<"dev", 0>>]
             read == [by |-> IF d.st = "absent" THEN 0 ELSE d.by,
                      virtio |-> IF d.st = "absent" THEN <<>> ELSE Devices(machine)]
  <1>0. /\ fork[r].pc = "dev" /\ fork[r] \in ForkStates /\ ForkInv(r) /\ machine \in Machines
        /\ dir \in [Files -> FileStates]
    BY DEF ReadDev, At, DirInv, Types
  <1>1. CASE d.st = "cut"
    <2>1. Goes(r, Refused(r)) /\ fork[r].pc # "new"
      BY <1>0, <1>1 DEF ReadDev, At
    <2>2. clash \/ ~fork[r].ready
      BY <1>0, <1>1, CompleteFiles DEF ForkInv, CleanInv, Whole
    <2> QED
      BY <2>1, <2>2, RefusedStep
  <1>2. CASE d.st # "cut"
    <2> DEFINE b == [fork[r] EXCEPT !.pc = "map", !.dev = read]
    <2>1. Goes(r, b)
      <3>1. CASE d.st = "absent"
        <4>1. read = [by |-> 0, virtio |-> <<>>]
          BY <3>1
        <4> QED
          BY <3>1, <4>1 DEF ReadDev
      <3>2. CASE d.st # "absent"
        <4>1. read = [by |-> d.by, virtio |-> Devices(machine)]
          BY <3>2
        <4> QED
          BY <1>2, <3>2, <4>1 DEF ReadDev
      <3> QED
        BY <3>1, <3>2
    <2> HIDE DEF b
    <2>2. fork'[r] = b /\ UNCHANGED <<machine, dir, writer, attempts, clash>> /\ Complete' = Complete
      BY <2>1, GoesFacts
    <2>3. d \in FileStates
      BY <1>0, KnownFiles
    <2>4. read \in [by : Nat, virtio : {<<>>, Devices(machine)}]
      BY <2>3 DEF FileStates
    <2>5. Whole(<<"dev", 0>>) => read = [by |-> d.by, virtio |-> Devices(machine)]
      BY DEF Whole
    <2> HIDE DEF read
    <2>6. b \in ForkStates
      BY <1>0, <2>4 DEF b, ForkStates
    <2>7. /\ fork'[r].pc = "map" /\ fork'[r].meta = fork[r].meta /\ fork'[r].host = fork[r].host
          /\ fork'[r].next = fork[r].next /\ fork'[r].cpus = fork[r].cpus /\ fork'[r].ready = fork[r].ready
          /\ fork'[r].gic = fork[r].gic /\ fork'[r].dev = read
      BY <1>0, <2>2 DEF b, ForkStates
    <2>8. HasInv(r)'
      BY <1>0, <2>2, <2>4, <2>7
         DEF ForkInv, HasInv, Past, At, AfterMeta, AfterCpus, AfterGic, AfterDev, AfterDevices
    <2>9. ASSUME ~clash' PROVE CleanInv(r)'
      <3>1. Complete
        BY <1>0, <2>2, <2>9 DEF ForkInv, CleanInv, Past, AfterMeta, AfterCpus
      <3>2. read = [by |-> d.by, virtio |-> Devices(machine)]
        BY <1>0, <2>5, <3>1, CompleteFiles
      <3> QED
        BY <1>0, <2>2, <2>7, <2>9, <3>1, <3>2
           DEF ForkInv, CleanInv, Past, Reading, Whole, AfterMeta, AfterCpus, AfterGic, AfterDev
    <2>10. ForkInv(r)'
      BY <2>7, <2>8, <2>9 DEF ForkInv, At
    <2> QED
      BY <2>1, <2>6, <2>10, OneForkMoves
  <1> QED
    BY <1>1, <1>2

\* mem.bin.
LEMMA MapMemStep ==
  ASSUME DirInv, NEW r \in Restores, MapMem(r)
  PROVE  DirInv'
  <1>0. /\ fork[r].pc = "map" /\ fork[r] \in ForkStates /\ ForkInv(r) /\ machine \in Machines
    BY DEF MapMem, At, DirInv, Types
  <1>1. CASE Mem.st = "absent"
    <2>1. Goes(r, Refused(r)) /\ fork[r].pc # "new"
      BY <1>0, <1>1 DEF MapMem, At
    <2>2. clash \/ ~fork[r].ready
      BY <1>0, <1>1, CompleteFiles DEF ForkInv, CleanInv, Whole, Mem
    <2> QED
      BY <2>1, <2>2, RefusedStep
  <1>2. CASE Mem.st # "absent"
    <2> DEFINE b == [fork[r] EXCEPT !.pc = "devices"]
    <2>1. Goes(r, b)
      BY <1>2 DEF MapMem
    <2> HIDE DEF b
    <2>2. fork'[r] = b /\ UNCHANGED <<machine, dir, writer, attempts, clash>> /\ Complete' = Complete
      BY <2>1, GoesFacts
    <2>3. b \in ForkStates
      BY <1>0 DEF b, ForkStates
    <2>4. /\ fork'[r].pc = "devices" /\ fork'[r].meta = fork[r].meta /\ fork'[r].host = fork[r].host
          /\ fork'[r].next = fork[r].next /\ fork'[r].cpus = fork[r].cpus /\ fork'[r].ready = fork[r].ready
          /\ fork'[r].gic = fork[r].gic /\ fork'[r].dev = fork[r].dev
      BY <1>0, <2>2 DEF b, ForkStates
    <2>5. HasInv(r)'
      BY <1>0, <2>2, <2>4
         DEF ForkInv, HasInv, Past, At, AfterMeta, AfterCpus, AfterGic, AfterDev, AfterDevices
    <2>6. ~clash' => CleanInv(r)'
      BY <1>0, <2>2, <2>4
         DEF ForkInv, CleanInv, Past, Reading, Whole, AfterMeta, AfterCpus, AfterGic, AfterDev
    <2>7. ForkInv(r)'
      BY <2>4, <2>5, <2>6 DEF ForkInv, At
    <2> QED
      BY <2>1, <2>3, <2>7, OneForkMoves
  <1> QED
    BY <1>1, <1>2

\* The devices: without a clash the count differs for a data disk only.
LEMMA RebuildStep ==
  ASSUME DirInv, NEW r \in Restores, Rebuild(r)
  PROVE  DirInv'
  <1> DEFINE Lacks == \/ machine.net /\ ~fork[r].host.net
                      \/ machine.vsock /\ ~fork[r].host.vsock
                      \/ Len(Rebuilt(machine)) # Len(fork[r].dev.virtio)
  <1>0. /\ fork[r].pc = "devices" /\ fork[r] \in ForkStates /\ ForkInv(r) /\ machine \in Machines
        /\ fork[r].meta = machine
    BY DEF Rebuild, At, DirInv, Types, ForkInv, HasInv, Past, AfterMeta
  <1>1. CASE Lacks
    <2>1. Goes(r, Refused(r)) /\ fork[r].pc # "new"
      BY <1>0, <1>1 DEF Rebuild, At
    <2>2. ASSUME ~clash, Len(Rebuilt(machine)) # Len(fork[r].dev.virtio) PROVE machine.data > 0
      <3>1. fork[r].dev.virtio = Devices(machine)
        BY <1>0, <2>2, SMTT(60) DEF ForkInv, CleanInv, Past, AfterMeta, AfterCpus, AfterGic, AfterDev
      <3>2. machine.data # 0 /\ machine.data \in {0, 1}
        BY <1>0, <2>2, <3>1, DeviceLists, SMTT(60) DEF Machines
      <3> QED
        BY <3>2, SMTT(60)
    <2>3. ~clash => Cause(r)
      BY <1>1, <2>2 DEF Cause
    <2> QED
      BY <2>1, <2>3, RefusedStep
  <1>2. CASE ~Lacks
    <2> DEFINE b == [fork[r] EXCEPT !.pc = "run", !.built = Rebuilt(machine)]
    <2>1. Goes(r, b)
      BY <1>0, <1>2 DEF Rebuild
    <2> HIDE DEF b
    <2>2. fork'[r] = b /\ UNCHANGED <<machine, dir, writer, attempts, clash>> /\ Complete' = Complete
      BY <2>1, GoesFacts
    <2>3. b \in ForkStates
      BY <1>0 DEF b, ForkStates
    <2>4. /\ fork'[r].pc = "run" /\ fork'[r].meta = fork[r].meta /\ fork'[r].host = fork[r].host
          /\ fork'[r].next = fork[r].next /\ fork'[r].cpus = fork[r].cpus /\ fork'[r].ready = fork[r].ready
          /\ fork'[r].gic = fork[r].gic /\ fork'[r].dev = fork[r].dev /\ fork'[r].built = Rebuilt(machine)
      BY <1>0, <2>2 DEF b, ForkStates
    <2>5. HasInv(r)'
      BY <1>0, <1>2, <2>2, <2>4
         DEF ForkInv, HasInv, Past, At, AfterMeta, AfterCpus, AfterGic, AfterDev, AfterDevices
    <2>6. ~clash' => CleanInv(r)'
      BY <1>0, <2>2, <2>4
         DEF ForkInv, CleanInv, Past, Reading, Whole, AfterMeta, AfterCpus, AfterGic, AfterDev
    <2>7. ForkInv(r)'
      BY <2>4, <2>5, <2>6 DEF ForkInv, At
    <2> QED
      BY <2>1, <2>3, <2>7, OneForkMoves
  <1> QED
    BY <1>1, <1>2

\* The interrupt controller.
LEMMA ResumeStep ==
  ASSUME DirInv, NEW r \in Restores, Resume(r)
  PROVE  DirInv'
  <1>0. /\ fork[r].pc = "run" /\ fork[r] \in ForkStates /\ ForkInv(r) /\ machine \in Machines
        /\ fork[r].meta = machine
    BY DEF Resume, At, DirInv, Types, ForkInv, HasInv, Past, AfterMeta
  <1>1. CASE ~GicFits(fork[r])
    <2>1. Goes(r, Refused(r)) /\ fork[r].pc # "new"
      BY <1>0, <1>1 DEF Resume, At
    <2>2. Cause(r)
      BY <1>0, <1>1 DEF GicFits, Cause
    <2> QED
      BY <2>1, <2>2, RefusedStep
  <1>2. CASE GicFits(fork[r])
    <2> DEFINE b == [fork[r] EXCEPT !.pc = "running"]
    <2>1. Goes(r, b)
      BY <1>2 DEF Resume
    <2> HIDE DEF b
    <2>2. fork'[r] = b /\ UNCHANGED <<machine, dir, writer, attempts, clash>> /\ Complete' = Complete
      BY <2>1, GoesFacts
    <2>3. b \in ForkStates
      BY <1>0, SMTT(60) DEF b, ForkStates
    <2>4. /\ fork'[r].pc = "running" /\ fork'[r].meta = fork[r].meta /\ fork'[r].host = fork[r].host
          /\ fork'[r].next = fork[r].next /\ fork'[r].cpus = fork[r].cpus /\ fork'[r].ready = fork[r].ready
          /\ fork'[r].gic = fork[r].gic /\ fork'[r].dev = fork[r].dev /\ fork'[r].built = fork[r].built
      BY <1>0, <2>2 DEF b, ForkStates
    <2>5. HasInv(r)'
      BY <1>0, <1>2, <2>2, <2>4
         DEF ForkInv, HasInv, Past, At, AfterMeta, AfterCpus, AfterGic, AfterDev, AfterDevices, GicFits
    <2>6. ~clash' => CleanInv(r)'
      BY <1>0, <2>2, <2>4
         DEF ForkInv, CleanInv, Past, Reading, Whole, AfterMeta, AfterCpus, AfterGic, AfterDev
    <2>7. ForkInv(r)'
      BY <2>4, <2>5, <2>6 DEF ForkInv, At
    <2> QED
      BY <2>1, <2>3, <2>7, OneForkMoves
  <1> QED
    BY <1>1, <1>2

-----------------------------------------------------------------------------
(***************************************************************************)
(* Steps that meet the others: a restore begins, an attempt begins.        *)
(***************************************************************************)

\* A step that can only turn clash on, of which the restores see nothing else.
LEMMA ForksKept ==
  ASSUME DirInv, NEW r \in Restores, UNCHANGED <<machine, dir>>, fork'[r] = fork[r],
         clash \in BOOLEAN, clash' \in BOOLEAN, clash' = FALSE => clash = FALSE,
         ~clash' /\ Reading(r) /\ writer' # None => attempts' = 1
  PROVE  ForkInv(r)'
  <1>1. Complete' = Complete
    BY DEF Complete
  <1>2. ForkInv(r) /\ (~clash' => ~clash)
    BY DEF DirInv
  <1>3. HasInv(r)'
    BY <1>2, SMTT(60) DEF ForkInv, HasInv, Past, At, GicFits
  <1>4. ~clash' => CleanInv(r)'
    BY <1>1, <1>2 DEF ForkInv, CleanInv, Past, Reading, Whole
  <1> QED
    BY <1>2, <1>3, <1>4 DEF ForkInv, At, Cause

\* A restore begins beside no attempt but the first, or clashes.
LEMMA BeginStep ==
  ASSUME DirInv, NEW r \in Restores, NEW host \in Hosts, Begin(r, host)
  PROVE  DirInv'
  <1> DEFINE ok == Complete /\ writer = None
             b == [NoFork EXCEPT !.pc = "meta", !.host = host, !.ready = ok]
  <1>0. Types /\ WriterInv /\ LastInv /\ ForkInv(r) /\ At(r, "new")
    BY DEF DirInv, Begin
  <1>1. /\ UNCHANGED <<machine, dir, writer, attempts>> /\ fork' = [fork EXCEPT ![r] = b]
        /\ clash' = (clash \/ Again) /\ Complete' = Complete
    BY DEF Begin, Complete
  <1>2. clash \in BOOLEAN /\ clash' \in BOOLEAN /\ (~clash' => ~clash /\ ~Again)
    BY <1>0, <1>1 DEF Types, Again
  <1>3. ok \in BOOLEAN /\ (ok => Complete)
    BY DEF Complete
  <1> HIDE DEF ok, b
  <1>4. 0 \in 0..machine.vcpus /\ <<>> \in Seq(Nat) /\ Len(<<>>) = 0
    BY <1>0, OrderShape, SMTT(60) DEF Types
  <1>5. NoFork \in ForkStates /\ NoFork.next = 0 /\ NoFork.cpus = <<>>
    BY <1>4 DEF ForkStates, NoFork
  <1>6. b \in ForkStates
    BY <1>3, <1>5 DEF b, ForkStates
  <1>7. b.pc = "meta" /\ b.host = host /\ b.next = 0 /\ b.cpus = <<>> /\ b.ready = ok
    BY <1>3, <1>5 DEF b, ForkStates
  <1>8. fork'[r] = b /\ \A q \in Restores \ {r} : fork'[q] = fork[q]
    BY <1>0, <1>1 DEF Types
  <1>9. Types'
    <2>1. ForkStates' = ForkStates
      BY <1>1 DEF ForkStates
    <2>2. fork' \in [Restores -> ForkStates]
      BY <1>0, <1>1, <1>6 DEF Types
    <2> QED
      BY <1>0, <1>1, <1>2, <2>1, <2>2 DEF Types
  <1>10. WriterInv'
    <2>1. UNCHANGED <<machine, dir, writer, attempts>> /\ Order' = Order
      BY <1>1 DEF Order
    <2>2. ASSUME NEW p, WriterAt(p) PROVE WriterAt(p)'
      BY <2>1, <2>2 DEF WriterAt, Whole
    <2> QED
      BY <1>0, <2>1, <2>2 DEF WriterInv
  <1>11. LastInv'
    BY <1>0, <1>1, <1>2 DEF LastInv, LastFile, Whole
  <1>12. ~clash' /\ writer # None => attempts = 1
    <2>1. ASSUME writer # None PROVE writer.by = attempts /\ attempts \in Nat \ {0}
      <3>1. PICK p \in 1..Len(Order) : WriterAt(p)
        BY <1>0, <2>1 DEF WriterInv
      <3> QED
        BY <1>0, <3>1, SnapshotAssumption, SMTT(60) DEF WriterAt, Types
    <2> QED
      BY <1>2, <2>1, SMTT(60) DEF Again
  <1>13. ForkInv(r)'
    <2>1. HasInv(r)'
      BY <1>7, <1>4, <1>8
         DEF HasInv, Past, At, AfterMeta, AfterCpus, AfterGic, AfterDev, AfterDevices
    <2>2. ~clash' => CleanInv(r)'
      <3>1. fork'[r].pc = "meta" /\ (fork'[r].ready => Complete')
        BY <1>1, <1>7, <1>3, <1>8
      <3> QED
        BY <1>1, <1>12, <3>1
           DEF CleanInv, Past, Reading, AfterMeta, AfterCpus, AfterGic, AfterDev
    <2> QED
      BY <1>7, <1>8, <2>1, <2>2 DEF ForkInv, At
  <1>14. ASSUME NEW q \in Restores, q # r PROVE ForkInv(q)'
    BY <1>1, <1>2, <1>8, <1>12, <1>14, ForksKept
  <1> QED
    BY <1>9, <1>10, <1>11, <1>13, <1>14 DEF DirInv

\* An attempt begins: without a clash the directory is not complete, and only
\* the first one finds a restore that reads.
LEMMA TakeStep ==
  ASSUME DirInv, Take
  PROVE  DirInv'
  <1>0. Types /\ WriterInv /\ LastInv
    BY DEF DirInv
  <1>1. /\ UNCHANGED <<machine, dir, fork>> /\ attempts' = attempts + 1 /\ attempts < MaxAttempts
        /\ writer' = [by |-> attempts + 1, left |-> Order, open |-> FALSE] /\ writer = None
        /\ clash' = (clash \/ Complete \/ (attempts > 0 /\ \E r \in Restores : Reading(r)))
        /\ Complete' = Complete
    BY DEF Take, Order, Complete
  <1>2. /\ clash \in BOOLEAN /\ clash' \in BOOLEAN
        /\ ~clash' => ~clash /\ ~Complete /\ (attempts > 0 => \A r \in Restores : ~Reading(r))
    BY <1>0, <1>1 DEF Types, Complete, Reading
  <1>3. attempts \in Nat /\ attempts' \in 0..MaxAttempts
    BY <1>0, <1>1, SnapshotAssumption, SMTT(60) DEF Types
  <1>4. Types'
    <2>1. \A f \in Files : dir'[f].by <= attempts'
      BY <1>0, <1>1, <1>3, SMTT(60) DEF Types, FileStates
    <2> QED
      BY <1>0, <1>1, <1>2, <1>3, <2>1, SMTT(60) DEF Types, ForkStates
  <1>5. WriterAt(1)'
    <2>1. Order' = Order /\ Order \in Seq(Files)
      BY <1>0, <1>1, OrderShape DEF Order, Types
    <2>2. Order = SubSeq(Order, 1, Len(Order))
      BY <2>1, SubSeqFull
    <2>3. ASSUME attempts' = 1, NEW i \in 1..Len(Order) PROVE ~Whole(Order[i])
      BY <1>0, <1>1, <1>3, <2>3, KnownFiles, SMTT(60) DEF Types, Whole
    <2>4. /\ writer' \in [by : Nat, left : Seq(Files), open : BOOLEAN]
          /\ writer'.by = attempts' /\ writer'.left = Order /\ ~writer'.open
      BY <1>1, <1>3, <2>1, SMTT(60)
    <2>5. attempts' = 1 => \A i \in 1..Len(Order') : ~Whole(Order[i])'
      BY <1>1, <2>1, <2>3 DEF Whole
    <2>6. writer'.left = SubSeq(Order', 1, Len(Order')) /\ attempts' > 0
      BY <1>1, <1>3, <2>1, <2>2, <2>4, SMTT(60)
    <2> QED
      BY <2>4, <2>5, <2>6, SMTT(60) DEF WriterAt
  <1>6. WriterInv'
    <2>1. 1 \in 1..Len(Order')
      BY <1>0, <1>1, OrderShape, SMTT(60) DEF Order, Types
    <2> QED
      BY <1>5, <2>1 DEF WriterInv
  <1>7. LastInv'
    BY <1>0, <1>1, <1>2 DEF LastInv, LastFile, Whole
  <1>8. ASSUME NEW r \in Restores PROVE ForkInv(r)'
    <2>1. ~clash' /\ Reading(r) => attempts' = 1
      BY <1>1, <1>2, <1>3, SMTT(60)
    <2>2. fork'[r] = fork[r] /\ (clash' = FALSE => clash = FALSE)
      BY <1>1, <1>2
    <2> QED
      BY <1>1, <1>2, <2>1, <2>2, ForksKept
  <1> QED
    BY <1>4, <1>6, <1>7, <1>8 DEF DirInv

\* An attempt is killed.
LEMMA KilledStep ==
  ASSUME DirInv, Killed
  PROVE  DirInv'
  <1>0. Types /\ WriterInv /\ LastInv /\ clash \in BOOLEAN
    BY DEF DirInv, Types
  <1>1. UNCHANGED <<machine, dir, attempts, fork, clash>> /\ writer' = None /\ Complete' = Complete
    BY DEF Killed, Complete
  <1>2. Types' /\ WriterInv' /\ LastInv'
    BY <1>0, <1>1 DEF Types, ForkStates, WriterInv, LastInv, LastFile, Whole
  <1>3. ASSUME NEW r \in Restores PROVE ForkInv(r)'
    BY <1>0, <1>1, ForksKept
  <1> QED
    BY <1>2, <1>3 DEF DirInv

-----------------------------------------------------------------------------
(***************************************************************************)
(* The writer at work.                                                     *)
(***************************************************************************)

\* One file is cut, or made whole, and the writer is at its next position.
LEMMA WriteFileStep ==
  ASSUME DirInv, WriteFile
  PROVE  DirInv'
  <1>0. Types /\ WriterInv /\ LastInv /\ writer # None
    BY DEF DirInv, WriteFile
  <1>1. PICK p \in 1..Len(Order) : WriterAt(p)
    BY <1>0 DEF WriterInv
  <1> DEFINE n == Len(Order)
             x == [st |-> IF writer.open THEN "whole" ELSE "cut", by |-> attempts]
  <1>2. /\ Order \in Seq(Files) /\ n \in Nat /\ n = machine.vcpus + 4 /\ machine.vcpus \in Nat \ {0}
        /\ machine \in Machines /\ Order[p] \in Files /\ attempts \in Nat
    BY <1>0, OrderShape, KnownFiles, SnapshotAssumption, SMTT(60) DEF Order, Types
  <1>3. Order[n] = LastFile /\ LastFile \in Files
    <2>1. n \in 5..(machine.vcpus + 4) /\ n - 5 = machine.vcpus - 1
      BY <1>2, SMTT(60)
    <2> QED
      BY <1>2, <2>1, OrderShape, KnownFiles DEF Order, LastFile
  <1>4. Head(writer.left) = Order[p] /\ Len(writer.left) = n - p + 1
        /\ (p < n => Tail(writer.left) = SubSeq(Order, p + 1, n))
    <2>1. writer.left = SubSeq(Order, p, n)
      BY <1>1 DEF WriterAt
    <2>2. /\ Head(SubSeq(Order, p, n)) = Order[p] /\ Len(SubSeq(Order, p, n)) = n - p + 1
          /\ p < n => Tail(SubSeq(Order, p, n)) = SubSeq(Order, p + 1, n)
      BY <1>2, Suffix
    <2> HIDE DEF n
    <2> QED
      BY <2>1, <2>2
  <1>5. writer.by = attempts /\ writer.open \in BOOLEAN /\ (Len(writer.left) = 1 <=> p = n)
    BY <1>1, <1>2, <1>4, SMTT(60) DEF WriterAt
  <1>6. /\ UNCHANGED <<machine, attempts, fork, clash>> /\ dir' = [dir EXCEPT ![Order[p]] = x]
        /\ ~writer.open => writer' = [writer EXCEPT !.open = TRUE]
        /\ writer.open /\ p = n => writer' = None
        /\ writer.open /\ p # n => writer' = [writer EXCEPT !.open = FALSE, !.left = Tail(writer.left)]
    <2>1. UNCHANGED <<machine, attempts, fork, clash>> /\ dir' = [dir EXCEPT ![Order[p]] = x]
      BY <1>4, <1>5 DEF WriteFile
    <2>2. CASE ~writer.open
      BY <2>1, <2>2 DEF WriteFile
    <2>3. CASE writer.open /\ p = n
      BY <2>1, <2>3, <1>5 DEF WriteFile
    <2>4. CASE writer.open /\ p # n
      BY <2>1, <2>4, <1>5 DEF WriteFile
    <2> QED
      BY <1>5, <2>2, <2>3, <2>4
  <1>7. /\ x \in FileStates /\ x.by = attempts /\ (writer.open => x.st = "whole") /\ (~writer.open => x.st = "cut")
    BY <1>2 DEF FileStates
  <1> HIDE DEF x
  <1>8. /\ dir \in [Files -> FileStates] /\ dir'[Order[p]] = x
        /\ \A f \in Files : f # Order[p] => dir'[f] = dir[f]
    BY <1>0, <1>2, <1>6 DEF Types
  <1>9. \A i \in 1..n : i # p => Order[i] # Order[p] /\ Order[i] \in Files /\ dir'[Order[i]] = dir[Order[i]]
    <2> SUFFICES ASSUME NEW i \in 1..n, i # p
                 PROVE Order[i] # Order[p] /\ Order[i] \in Files /\ dir'[Order[i]] = dir[Order[i]]
      OBVIOUS
    <2>1. Order[i] # Order[p]
      BY <1>2, OrderInjective DEF Order
    <2> QED
      BY <1>2, <1>8, <2>1, KnownFiles
  <1>10. \A i \in 1..(p - 1) : dir'[Order[i]] = [st |-> "whole", by |-> attempts]
    <2>1. \A i \in 1..(p - 1) : dir[Order[i]] = [st |-> "whole", by |-> attempts]
      BY <1>1 DEF WriterAt
    <2>2. \A i \in 1..(p - 1) : i \in 1..n /\ i # p
      BY <1>2, SMTT(60)
    <2> QED
      BY <1>9, <2>1, <2>2
  <1>11. attempts = 1 => \A i \in (p + 1)..n : dir'[Order[i]].st # "whole"
    <2>1. attempts = 1 => \A i \in p..n : dir[Order[i]].st # "whole"
      BY <1>1 DEF WriterAt, Whole
    <2>2. \A i \in (p + 1)..n : i \in p..n /\ i \in 1..n /\ i # p
      BY <1>2, SMTT(60)
    <2> QED
      BY <1>9, <2>1, <2>2
  <1>12. Order' = Order
    BY <1>6 DEF Order
  <1>13. Types'
    <2>1. dir' \in [Files -> FileStates]
      BY <1>2, <1>6, <1>7, <1>8
    <2>2. \A f \in Files : dir'[f].by <= attempts
      BY <1>0, <1>2, <1>7, <1>8, SMTT(60) DEF Types
    <2>3. attempts > 0
      BY <1>1 DEF WriterAt
    <2> QED
      BY <1>0, <1>2, <1>6, <2>1, <2>2, <2>3, SMTT(60) DEF Types, ForkStates
  \* The file was not whole before: nothing a restore has read from the first
  \* attempt is written again.
  <1>14. attempts = 1 => ~Whole(Order[p])
    <2>1. p \in p..n
      BY <1>2, SMTT(60)
    <2>2. attempts = 1 => \A i \in p..n : ~Whole(Order[i])
      BY <1>1 DEF WriterAt
    <2> QED
      BY <2>1, <2>2
  \* The file is cut.
  <1>15. ASSUME ~writer.open PROVE WriterInv' /\ LastInv'
    <2>1. WriterAt(p)'
      <3>1. /\ writer' \in [by : Nat, left : Seq(Files), open : BOOLEAN]
            /\ writer'.by = writer.by /\ writer'.left = writer.left /\ writer'.open
        BY <1>1, <1>6, <1>15 DEF WriterAt
      <3>2. dir'[Order[p]].st = "cut"
        BY <1>7, <1>8, <1>15
      <3>3. attempts = 1 => \A i \in p..n : dir'[Order[i]].st # "whole"
        <4>1. \A i \in p..n : i = p \/ i \in (p + 1)..n
          BY <1>2, SMTT(60)
        <4> QED
          BY <1>11, <3>2, <4>1
      <3> QED
        BY <1>1, <1>6, <1>12, <1>10, <3>1, <3>2, <3>3 DEF WriterAt, Whole
    <2>2. WriterInv'
      BY <1>12, <2>1 DEF WriterInv
    <2>3. ~clash => ~Whole(LastFile)'
      <3>1. CASE p = n
        BY <1>3, <1>6, <1>7, <1>8, <1>15, <3>1 DEF Whole, LastFile
      <3>2. CASE p # n
        <4>1. dir'[LastFile] = dir[LastFile] /\ LastFile' = LastFile
          BY <1>2, <1>3, <1>6, <1>9, <3>2, SMTT(60) DEF LastFile
        <4> QED
          BY <1>0, <4>1 DEF LastInv, Whole
      <3> QED
        BY <3>1, <3>2
    <2> QED
      BY <1>6, <2>2, <2>3 DEF LastInv
  \* It is whole, and others are to come.
  <1>16. ASSUME writer.open, p # n PROVE WriterInv' /\ LastInv'
    <2>0. p + 1 \in 1..n /\ p < n
      BY <1>2, <1>16, SMTT(60)
    <2>1. WriterAt(p + 1)'
      <3>1. /\ SubSeq(Order, p + 1, n) \in Seq(Files)
        BY <1>2, <2>0, Suffix
      <3>2. /\ writer' \in [by : Nat, left : Seq(Files), open : BOOLEAN]
            /\ writer'.by = writer.by /\ writer'.left = SubSeq(Order, p + 1, n) /\ ~writer'.open
        <4>1. writer \in [by : Nat, left : Seq(Files), open : BOOLEAN]
          BY <1>1 DEF WriterAt
        <4>2. writer' = [writer EXCEPT !.open = FALSE, !.left = SubSeq(Order, p + 1, n)]
          BY <1>4, <1>6, <1>16, <2>0
        <4> QED
          BY <3>1, <4>1, <4>2
      <3>3. dir'[Order[p]] = [st |-> "whole", by |-> attempts]
        BY <1>8, <1>16 DEF x
      <3>4. \A i \in 1..p : dir'[Order[i]] = [st |-> "whole", by |-> attempts]
        <4>1. \A i \in 1..p : i = p \/ i \in 1..(p - 1)
          BY <1>2, SMTT(60)
        <4> QED
          BY <1>10, <3>3, <4>1
      <3>5. (p + 1) - 1 = p
        BY <1>2, SMTT(60)
      <3> QED
        BY <1>1, <1>6, <1>12, <1>11, <3>2, <3>4, <3>5, SMTT(60) DEF WriterAt, Whole
    <2>2. WriterInv'
      BY <1>12, <2>0, <2>1 DEF WriterInv
    <2>3. dir'[LastFile] = dir[LastFile] /\ LastFile' = LastFile
      BY <1>2, <1>3, <1>6, <1>9, <1>16, SMTT(60) DEF LastFile
    <2>4. ~clash => ~Whole(LastFile)'
      BY <1>0, <2>3 DEF LastInv, Whole
    <2> QED
      BY <1>6, <2>2, <2>4 DEF LastInv
  \* It was the last one: the directory is complete.
  <1>17. ASSUME writer.open, p = n PROVE WriterInv' /\ LastInv'
    <2>1. dir'[Order[p]] = [st |-> "whole", by |-> attempts]
      BY <1>8, <1>17 DEF x
    <2>2. \A i \in 1..n : dir'[Order[i]] = [st |-> "whole", by |-> attempts]
      <3>1. \A i \in 1..n : i = p \/ i \in 1..(p - 1)
        BY <1>2, <1>17, SMTT(60)
      <3> QED
        BY <1>10, <2>1, <3>1
    <2>3. 2 \in 1..n /\ Order[2] = <<"mem", 0>>
      BY <1>2, OrderShape, SMTT(60) DEF Order
    <2>4. dir'[<<"mem", 0>>] = [st |-> "whole", by |-> attempts]
      BY <2>2, <2>3
    <2>5. DOMAIN Order = 1..n
      BY <1>2, SMTT(60)
    <2>6. Complete'
      BY <1>12, <2>2, <2>4, <2>5, SMTT(60) DEF Complete, Order
    <2> QED
      BY <1>6, <1>17, <2>6 DEF WriterInv, LastInv
  <1>18. WriterInv' /\ LastInv'
    BY <1>15, <1>16, <1>17
  \* Without a clash no restore is past the vcpus, and none found a complete
  \* directory; one that reads does so beside the first attempt.
  <1>19. ASSUME NEW r \in Restores PROVE ForkInv(r)'
    <2>0. ForkInv(r)
      BY DEF DirInv
    <2>1. HasInv(r)'
      BY <1>6, <2>0, SMTT(60) DEF ForkInv, HasInv, Past, At, GicFits
    <2>2. ASSUME ~clash PROVE CleanInv(r) /\ ~Complete
      BY <1>0, <1>2, <2>0, <2>2, CompleteFiles DEF ForkInv, LastInv
    <2>3. ASSUME ~clash PROVE CleanInv(r)'
      <3>1. ~fork[r].ready /\ ~Past(r, AfterCpus) /\ ~Past(r, AfterGic) /\ ~Past(r, AfterDev)
        BY <2>2, <2>3 DEF CleanInv, Past, AfterGic, AfterDev
      <3>2. ASSUME At(r, "cpus"), NEW i \in 1..fork[r].next
            PROVE  dir'[CpuFile(i - 1)] = dir[CpuFile(i - 1)]
        <4>1. Whole(CpuFile(i - 1))
          BY <2>2, <2>3, <3>2 DEF CleanInv, At, Past, AfterMeta
        <4>2. attempts = 1
          BY <1>0, <2>2, <2>3, <3>2 DEF CleanInv, At, Reading
        <4>3. CpuFile(i - 1) # Order[p]
          BY <1>14, <4>1, <4>2
        <4>4. fork[r].next \in 0..machine.vcpus
          BY <1>0 DEF Types, ForkStates
        <4>5. CpuFile(i - 1) \in Files
          BY <1>2, <4>4, KnownFiles, SMTT(60)
        <4> QED
          BY <1>8, <4>3, <4>5
      <3>3. Past(r, AfterMeta) => At(r, "cpus")
        BY <3>1 DEF Past, At, AfterCpus
      <3>4. Reading(r) => attempts = 1
        BY <1>0, <2>2, <2>3 DEF CleanInv
      <3> QED
        BY <1>6, <2>2, <2>3, <3>1, <3>2, <3>3, <3>4 DEF CleanInv, Past, Reading, At, Whole
    <2>4. ~clash /\ fork[r].ready /\ At(r, "refused") => Cause(r)
      BY <2>0 DEF ForkInv
    <2> QED
      BY <1>6, <2>1, <2>3, <2>4 DEF ForkInv, At, Cause
  <1> QED
    BY <1>13, <1>18, <1>19 DEF DirInv

-----------------------------------------------------------------------------
(***************************************************************************)
(* Theorems.                                                               *)
(***************************************************************************)

\* Init establishes the invariant.
LEMMA InitDirInv == Init => DirInv
  <1> SUFFICES ASSUME Init PROVE DirInv
    OBVIOUS
  <1>1. machine \in Machines /\ machine.vcpus \in Nat \ {0}
    BY OrderShape DEF Init
  <1>2. NoFork \in ForkStates
    <2>1. 0 \in 0..machine.vcpus /\ <<>> \in Seq(Nat)
      BY <1>1, SMTT(60)
    <2> QED
      BY <2>1 DEF ForkStates, NoFork
  <1>3. Absent \in FileStates /\ Absent.by = 0 /\ Absent.st = "absent"
    BY DEF Absent, FileStates
  <1>4. Types
    <2>1. attempts \in 0..MaxAttempts
      BY SnapshotAssumption, SMTT(60) DEF Init
    <2>2. clash \in BOOLEAN
      BY DEF Init
    <2>3. /\ dir \in [Files -> FileStates]
          /\ \A f \in Files : dir[f].by <= attempts /\ dir[f].st = "absent"
      BY <1>3, SMTT(60) DEF Init
    <2>4. fork \in [Restores -> ForkStates]
      BY <1>2 DEF Init
    <2> QED
      BY <1>1, <2>1, <2>2, <2>3, <2>4 DEF Types
  <1>5. ~Whole(LastFile)
    BY <1>1, <1>3, KnownFiles DEF Whole, Init
  <1>6. ASSUME NEW r \in Restores PROVE ForkInv(r)
    <2>1. /\ fork[r].pc = "new" /\ fork[r].next = 0 /\ fork[r].cpus = <<>> /\ ~fork[r].ready
      BY DEF Init, NoFork
    <2>2. Len(<<>>) = 0
      OBVIOUS
    <2> QED
      BY <2>1, <2>2 DEF ForkInv, HasInv, CleanInv, Past, At, Reading, AfterMeta, AfterCpus, AfterGic,
                        AfterDev, AfterDevices
  <1> QED
    BY <1>4, <1>5, <1>6 DEF DirInv, WriterInv, LastInv, Init

\* Every step keeps it.
LEMMA NextDirInv == DirInv /\ [Next]_vars => DirInv'
  <1> SUFFICES ASSUME DirInv, [Next]_vars PROVE DirInv'
    OBVIOUS
  <1>1. CASE UNCHANGED vars
    <2>1. UNCHANGED <<machine, dir, writer, attempts, fork, clash>>
      BY <1>1 DEF vars
    <2>2. Types'
      BY <2>1 DEF DirInv, Types, ForkStates
    <2>3. WriterInv'
      BY <2>1 DEF DirInv, WriterInv, WriterAt, Order, Whole
    <2>4. LastInv'
      BY <2>1 DEF DirInv, LastInv, LastFile, Complete, Whole
    <2>5. ASSUME NEW r \in Restores PROVE ForkInv(r)'
      <3>1. ForkInv(r)
        BY DEF DirInv
      <3>2. ~clash /\ Reading(r) /\ writer # None => attempts = 1
        BY <3>1 DEF ForkInv, CleanInv
      <3>3. clash \in BOOLEAN
        BY DEF DirInv, Types
      <3> QED
        BY <2>1, <3>2, <3>3, ForksKept
    <2> QED
      BY <2>2, <2>3, <2>4, <2>5 DEF DirInv
  <1>2. CASE Next
    BY <1>2, TakeStep, WriteFileStep, KilledStep, BeginStep, ReadMetaStep, ReadCpuStep, ReadGicStep,
       ReadDevStep, MapMemStep, RebuildStep, ResumeStep DEF Next
  <1> QED
    BY <1>1, <1>2

\* Whatever attempts are made and killed, and whenever restores begin, a running
\* fork has the vcpus, the interrupt controller, the devices and the memory of
\* one attempt, all of them whole, as long as no attempt has gone over a complete
\* directory or, but for the first, met a restore (write, read and
\* from_snapshot_cow).
THEOREM RestoresAreWhole == Spec => []RestoredWhole
  <1>1. DirInv => RestoredWhole
    <2> SUFFICES ASSUME DirInv PROVE RestoredWhole
      OBVIOUS
    <2>0. Types /\ machine \in Machines
      BY DEF DirInv, Types
    <2>1. TypeOK
      <3>1. \A f \in Files : dir[f].st \in {"absent", "cut", "whole"} /\ dir[f].by \in 0..attempts
        BY <2>0, SnapshotAssumption, SMTT(60) DEF Types, FileStates
      <3>2. \A r \in Restores : fork[r].next \in 0..machine.vcpus /\ Len(fork[r].cpus) = fork[r].next
        BY <2>0 DEF DirInv, Types, ForkInv, HasInv, ForkStates
      <3> QED
        BY <2>0, <3>1, <3>2 DEF TypeOK, Types
    <2>2. ASSUME ~clash, NEW r \in Restores, Running(r)
          PROVE  /\ Mem.st = "whole" /\ fork[r].gic = [st |-> "whole", by |-> Mem.by]
                 /\ fork[r].dev.by = Mem.by
                 /\ Len(fork[r].cpus) = machine.vcpus
                 /\ \A i \in DOMAIN fork[r].cpus : fork[r].cpus[i] = Mem.by
      <3>1. fork[r].pc = "running" /\ HasInv(r) /\ CleanInv(r) /\ fork[r].cpus \in Seq(Nat)
        BY <2>0, <2>2 DEF Running, DirInv, ForkInv, Types, ForkStates
      <3>2. /\ Complete /\ fork[r].gic = dir[<<"gic", 0>>] /\ fork[r].dev.by = dir[<<"dev", 0>>].by
            /\ fork[r].next = machine.vcpus /\ Len(fork[r].cpus) = machine.vcpus
            /\ \A i \in 1..machine.vcpus : fork[r].cpus[i] = dir[CpuFile(i - 1)].by
        <4>1. Past(r, AfterMeta) /\ Past(r, AfterCpus) /\ Past(r, AfterGic) /\ Past(r, AfterDev)
          BY <3>1 DEF Past, AfterMeta, AfterCpus, AfterGic, AfterDev
        <4>2. fork[r].next = machine.vcpus /\ Len(fork[r].cpus) = machine.vcpus
          BY <3>1, <4>1 DEF HasInv
        <4>3. fork[r].dev = [by |-> dir[<<"dev", 0>>].by, virtio |-> Devices(machine)]
          BY <3>1, <4>1 DEF CleanInv
        <4>4. /\ Complete /\ fork[r].gic = dir[<<"gic", 0>>]
              /\ \A i \in 1..machine.vcpus : fork[r].cpus[i] = dir[CpuFile(i - 1)].by
          BY <3>1, <4>1, <4>2 DEF CleanInv
        <4> QED
          BY <4>2, <4>3, <4>4, SMTT(60)
      <3>3. Mem.st = "whole" /\ dir[<<"gic", 0>>].st = "whole" /\ dir[<<"gic", 0>>].by = Mem.by
            /\ dir[<<"dev", 0>>].by = Mem.by
            /\ \A i \in 1..machine.vcpus : dir[CpuFile(i - 1)].by = Mem.by
        BY <2>0, <3>2, CompleteFiles DEF Whole, Mem
      <3>4. dir[<<"gic", 0>>] = [st |-> "whole", by |-> Mem.by]
        BY <2>0, <3>3, KnownFiles DEF Types, FileStates
      <3>5. DOMAIN fork[r].cpus = 1..machine.vcpus
        BY <3>1, <3>2, SMTT(60)
      <3> QED
        BY <3>2, <3>3, <3>4, <3>5
    <2> QED
      BY <2>1, <2>2 DEF RestoredWhole
  <1> QED
    BY <1>1, InitDirInv, NextDirInv, PTL DEF Spec

\* With or without a clash, and for machines with data disks too, the devices of
\* a running fork are those the template had, in their order, and its host has
\* the template's kind of interrupt controller (restore_from; run).
THEOREM DevicesAreTheirOwn == Spec => []DevicesLineUp
  <1>1. DirInv => DevicesLineUp
    <2> SUFFICES ASSUME DirInv, NEW r \in Restores, Running(r)
                 PROVE  fork[r].built = Devices(machine) /\ fork[r].host.gic = machine.gic
      BY DEF DevicesLineUp
    <2>1. fork[r].pc = "running" /\ HasInv(r) /\ machine \in Machines
      BY DEF Running, DirInv, ForkInv, Types
    <2>2. /\ fork[r].built = Rebuilt(machine) /\ Len(Rebuilt(machine)) = Len(fork[r].dev.virtio)
          /\ fork[r].dev.virtio \in {<<>>, Devices(machine)} /\ fork[r].host.gic = machine.gic
      BY <2>1 DEF HasInv, Past, At, AfterMeta, AfterCpus, AfterGic, AfterDev, AfterDevices, GicFits
    <2>3. Len(<<>>) = 0
      OBVIOUS
    <2>4. Len(Rebuilt(machine)) = Len(Devices(machine))
      BY <2>1, <2>2, <2>3, DeviceLists
    <2> QED
      BY <2>1, <2>2, <2>4, DeviceLists
  <1> QED
    BY <1>1, InitDirInv, NextDirInv, PTL DEF Spec

\* A restore that began on a complete directory is refused for its host or a data
\* disk alone, never for what it reads (read; restore_from; run).
THEOREM RefusalsHaveCause == Spec => []RefusedForCause
  <1>1. DirInv => RefusedForCause
    BY DEF DirInv, ForkInv, At, Cause, RefusedForCause
  <1> QED
    BY <1>1, InitDirInv, NextDirInv, PTL DEF Spec
=============================================================================
