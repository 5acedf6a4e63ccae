------------------------------- MODULE GicBlob -------------------------------
(***************************************************************************)
(* The snapshot of the software GIC: capture writes the controller as a    *)
(* flat blob in which each cpu's bank ends with a running-priority stack   *)
(* of variable length, and restore_v2 reads it back with a cursor.  Only   *)
(* the shared entries of SPIs are in the model's blob; the code's entries  *)
(* below PRIVATE are unused.                                               *)
(***************************************************************************)
EXTENDS SwGic, SequencesExt

BLOB_MAGIC == 162
BLOB_V2 == 2
MAX_CPUS == 8

Byte(x) == IF x THEN 1 ELSE 0
Mask(t) == FoldSet(LAMBDA c, m : m + 2^c, 0, t)
Unmask(m) == {c \in Cpus : (m \div 2^c) % 2 = 1}

\* The controller as a record: what a restored one is compared with.
Controller ==
  [dist_enabled |-> dist_enabled, cpu_enabled |-> cpu_enabled, pmr |-> pmr,
   running |-> running, enabled |-> enabled, pending |-> pending,
   active |-> active, level |-> level, edge |-> edge, priority |-> priority,
   sgi_src |-> sgi_src, targets |-> targets]

-----------------------------------------------------------------------------
\* The entries of the ids first..last of a bank or of the shared block.
Row(f, bank, first, last) == [n \in 1..(last - first + 1) |-> f[<<bank, first + n - 1>>]]
Flags(f, bank, first, last) ==
  LET row == Row(f, bank, first, last) IN [n \in DOMAIN row |-> Byte(row[n])]

Block(bank, first, last) ==
  FlattenSeq(<<Flags(enabled, bank, first, last), Flags(pending, bank, first, last),
               Flags(active, bank, first, last), Flags(level, bank, first, last),
               Flags(edge, bank, first, last), Row(priority, bank, first, last)>>)

\* The stack is cut at 255 entries, the idle priority.
Stack(c) == SubSeq(running[c], 1, Min({Len(running[c]), IDLE_PRIO}))

\* Mutant: the stack is written without its length.
BankBlobNoLength(c) ==
  <<Byte(cpu_enabled[c]), pmr[c]>> \o Block(c, 0, PRIVATE - 1)
    \o [n \in 1..SGIS |-> sgi_src[c][n - 1]] \o Stack(c)

BankBlob(c) ==
  <<Byte(cpu_enabled[c]), pmr[c]>> \o Block(c, 0, PRIVATE - 1)
    \o [n \in 1..SGIS |-> sgi_src[c][n - 1]] \o <<Len(Stack(c))>> \o Stack(c)

Capture ==
  <<BLOB_MAGIC, BLOB_V2, CPUS, Byte(dist_enabled)>>
    \o FlattenSeq([n \in 1..CPUS |-> BankBlob(n - 1)])
    \o Block(Shared, PRIVATE, NUM_INTID - 1)
    \o [n \in 1..(NUM_INTID - PRIVATE) |-> Mask(targets[PRIVATE + n - 1])]

-----------------------------------------------------------------------------
\* restore_v2 on a VM of CPUS cpus.  A byte past the end reads as 0; banks that
\* the blob does not hold are as at reset.
Restore(b) ==
  LET ByteAt(p) == IF p \in DOMAIN b THEN b[p] ELSE 0
      ncpu == Max({1, Min({ByteAt(3), MAX_CPUS})})
      stack == 2 + 6 * PRIVATE + SGIS     \* where a bank has its stack's length
      start[k \in 0..ncpu] ==             \* where bank k starts
        IF k = 0 THEN 5
        ELSE start[k - 1] + stack + 1 + ByteAt(start[k - 1] + stack)
      Entry(k, row) ==                    \* an entry of the row-th array
        IF k[1] = Shared
        THEN ByteAt(start[ncpu] + row * (NUM_INTID - PRIVATE) + k[2] - PRIVATE)
        ELSE ByteAt(start[k[1]] + 2 + row * PRIVATE + k[2])
      InBlob(k) == k[1] = Shared \/ k[1] < ncpu
      Column(row) == [k \in Keys |-> InBlob(k) /\ Entry(k, row) # 0]
  IN  [dist_enabled |-> ByteAt(4) # 0,
       cpu_enabled |-> [c \in Cpus |-> c < ncpu /\ ByteAt(start[c]) # 0],
       pmr |-> [c \in Cpus |-> IF c < ncpu THEN ByteAt(start[c] + 1) ELSE 0],
       running |-> [c \in Cpus |->
                      IF c < ncpu
                      THEN [n \in 1..ByteAt(start[c] + stack) |-> ByteAt(start[c] + stack + n)]
                      ELSE <<>>],
       enabled |-> Column(0), pending |-> Column(1), active |-> Column(2),
       level |-> Column(3),
       edge |-> [k \in Keys |-> IF InBlob(k) THEN Entry(k, 4) # 0 ELSE k[2] < SGIS],
       priority |-> [k \in Keys |-> IF InBlob(k) THEN Entry(k, 5) ELSE 0],
       sgi_src |-> [c \in Cpus |-> [s \in 0..(SGIS - 1) |->
                      IF c < ncpu THEN ByteAt(start[c] + 2 + 6 * PRIVATE + s) ELSE 0]],
       targets |-> [i \in Spis |->
                      Unmask(ByteAt(start[ncpu] + 6 * (NUM_INTID - PRIVATE) + i - PRIVATE))]]

-----------------------------------------------------------------------------
\* Whatever the guest was doing, with handlers nested as deep as they go, the
\* restored controller is the captured one: the cut of the stack loses nothing
\* and every bank is found behind the stacks of the banks before it.
RoundTrip == Restore(Capture) = Controller
=============================================================================
