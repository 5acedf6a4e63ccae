---------------------------- MODULE WorkerProofs ----------------------------
(***************************************************************************)
(* Proofs about module Worker, for any number of vcpus, either backend and *)
(* any control traffic.                                                    *)
(***************************************************************************)
EXTENDS Worker, SequenceTheorems, TLAPS

\* Leaves are for Zenon; those for the SMT solver say so.
USE ZenonT(60)

\* The strengthening of SnapshotConsistent: a captured secondary is kept by a
\* barrier that is never taken down, and the primary is past its last run.
SnapInv ==
  /\ vpc \in [Vcpus -> {"create", "top", "gate", "enter", "guest", "quiesce",
                        "end", "join", "done"}]
  /\ captured \subseteq Secondaries
  /\ \A s \in captured : want /\ vpc[s] \in {"top", "done"}
  /\ want => vpc[Primary] \in {"quiesce", "end", "join", "done"}
  /\ snap = "written" => /\ captured = Secondaries
                         /\ vpc[Primary] \in {"end", "join", "done"}

\* Steps of the primary vcpu's thread.
LEMMA PrimarySnapInv ==
  ASSUME SnapInv, PrimaryStep \/ PrimaryStops \/ SnapBegin
  PROVE  SnapInv'
  <1> USE WorkerAssumption DEF SnapInv, Goto, Vcpus, flagVars, snapVars
  <1>1. CASE PrimaryTop
    BY <1>1 DEF PrimaryTop
  <1>2. CASE PrimaryGate
    BY <1>2 DEF PrimaryGate
  <1>3. CASE EnterGuest(Primary)
    BY <1>3 DEF EnterGuest
  <1>4. CASE ForcedExit(Primary)
    BY <1>4 DEF ForcedExit
  <1>5. CASE SnapWrite
    BY <1>5 DEF SnapWrite
  <1>6. CASE SnapTimeout
    BY <1>6 DEF SnapTimeout
  <1>7. CASE PrimaryEnd
    BY <1>7 DEF PrimaryEnd
  <1>8. CASE Join
    BY <1>8 DEF Join
  <1>9. CASE PrimaryStops
    BY <1>9 DEF PrimaryStops
  <1>10. CASE SnapBegin
    BY <1>10 DEF SnapBegin
  <1> QED
    BY <1>1, <1>2, <1>3, <1>4, <1>5, <1>6, <1>7, <1>8, <1>9, <1>10
       DEF PrimaryStep

\* Steps of a secondary vcpu's thread.
LEMMA SecondarySnapInv ==
  ASSUME SnapInv, NEW s \in Secondaries,
         \/ SecondaryStep(s)
         \/ SecondaryStops(s) \/ CreateFailed(s) \/ CaptureFailed(s)
  PROVE  SnapInv'
  <1> USE WorkerAssumption DEF SnapInv, Goto, Vcpus, flagVars, snapVars
  <1>1. CASE Created(s)
    BY <1>1 DEF Created
  <1>2. CASE SecondaryTop(s)
    BY <1>2 DEF SecondaryTop
  <1>3. CASE Capture(s)
    BY <1>3 DEF Capture
  <1>4. CASE SecondaryGate(s)
    BY <1>4 DEF SecondaryGate
  <1>5. CASE EnterGuest(s)
    BY <1>5 DEF EnterGuest
  <1>6. CASE ForcedExit(s)
    BY <1>6 DEF ForcedExit
  <1>7. CASE SecondaryStops(s)
    BY <1>7 DEF SecondaryStops
  <1>8. CASE CreateFailed(s)
    BY <1>8 DEF CreateFailed
  <1>9. CASE CaptureFailed(s)
    BY <1>9 DEF CaptureFailed
  <1> QED
    BY <1>1, <1>2, <1>3, <1>4, <1>5, <1>6, <1>7, <1>8, <1>9 DEF SecondaryStep

\* Every step of the worker.
LEMMA NextSnapInv == SnapInv /\ [Next]_vars => SnapInv'
  <1> SUFFICES ASSUME SnapInv, [Next]_vars PROVE SnapInv'
    OBVIOUS
  <1>1. ASSUME UNCHANGED <<vpc, snapVars>> PROVE SnapInv'
    BY <1>1 DEF SnapInv, snapVars
  <1>2. Amberd \/ Reader \/ Kicker => UNCHANGED <<vpc, snapVars>>
    BY DEF Amberd, ControlOp, Release, Hangup, Reader, GateOpens, ReaderLeaves,
           ReaderEof, ReadOpcode, ReadPayload, PayloadEof, Kicker
  <1>3. ASSUME NEW c \in Vcpus, GuestExit(c) PROVE SnapInv'
    BY <1>3, WorkerAssumption DEF GuestExit, SnapInv, Goto, Vcpus, snapVars
  <1>4. UNCHANGED vars => UNCHANGED <<vpc, snapVars>>
    BY DEF vars, snapVars
  <1> QED
    BY <1>1, <1>2, <1>3, <1>4, PrimarySnapInv, SecondarySnapInv DEF Next, Guest

\* Whatever frames arrive, however the threads interleave and on either
\* backend, a written snapshot holds the registers of every secondary, and none
\* of them ran guest code after its registers were taken.
THEOREM SnapshotsAreConsistent == Spec => []SnapshotConsistent
  <1>1. Init => SnapInv
    BY WorkerAssumption DEF Init, SnapInv, Vcpus
  <1>2. SnapInv => SnapshotConsistent
    BY DEF SnapInv, SnapshotConsistent
  <1> QED
    BY <1>1, <1>2, NextSnapInv, PTL DEF Spec

-----------------------------------------------------------------------------
(***************************************************************************)
(* Types.                                                                  *)
(***************************************************************************)

Bytes == {DATA, BALLOON, PAUSE, RESUME}

\* What is left of a channel when a byte is read.
LEMMA OneByteLess ==
  ASSUME NEW c \in Seq(Bytes), c # <<>>
  PROVE  /\ Len(c) \in Nat \ {0} /\ Head(c) = c[1] /\ c[1] \in Bytes
         /\ Tail(c) \in Seq(Bytes) /\ Len(Tail(c)) = Len(c) - 1
         /\ \A i \in 1..(Len(c) - 1) : Tail(c)[i] = c[i + 1]
  <1> HIDE DEF Bytes
  <1>1. Len(c) \in Nat \ {0} /\ Head(c) = c[1] /\ c[1] \in Bytes
    BY EmptySeq, SMTT(60)
  <1> QED
    BY <1>1, HeadTailProperties

\* The bytes of a frame: its opcode, then the payload of a balloon target.
LEMMA FrameBytes ==
  ASSUME NEW k \in FrameKinds
  PROVE  /\ Frame(k) \in Seq(Bytes)
         /\ Len(Frame(k)) = IF k = "balloon" THEN 1 + PayloadLen ELSE 1
         /\ Frame(k)[1] = IF k = "balloon" THEN BALLOON
                          ELSE IF k = "pause" THEN PAUSE ELSE RESUME
         /\ \A i \in 2..Len(Frame(k)) : Frame(k)[i] = DATA
  <1> DEFINE d == [i \in 1..PayloadLen |-> DATA]
  <1>1. d \in Seq(Bytes) /\ Len(d) = PayloadLen /\ PayloadLen \in Nat
    BY WorkerAssumption, SMTT(60) DEF Bytes
  <1>2. \A b \in Bytes : <<b>> \in Seq(Bytes) /\ Len(<<b>>) = 1 /\ <<b>>[1] = b
    BY SMTT(60)
  <1>3. \A i \in 1..PayloadLen : d[i] = DATA
    OBVIOUS
  <1>4. CASE k = "balloon"
    <2>1. Frame(k) = <<BALLOON>> \o d /\ BALLOON \in Bytes
      BY <1>4 DEF Frame, Bytes
    <2> HIDE DEF d, Bytes
    <2>2. /\ <<BALLOON>> \o d \in Seq(Bytes) /\ Len(<<BALLOON>> \o d) = 1 + PayloadLen
          /\ \A i \in 1..(1 + PayloadLen) :
               (<<BALLOON>> \o d)[i] = IF i <= 1 THEN <<BALLOON>>[i] ELSE d[i - 1]
      BY <1>1, <1>2, <2>1, ConcatProperties, SMTT(60)
    <2>3. (<<BALLOON>> \o d)[1] = BALLOON
      BY <1>1, <1>2, <2>1, <2>2, SMTT(60)
    <2>4. ASSUME NEW i \in 2..(1 + PayloadLen) PROVE (<<BALLOON>> \o d)[i] = DATA
      <3>1. i \in 1..(1 + PayloadLen) /\ ~(i <= 1) /\ i - 1 \in 1..PayloadLen
        BY <1>1, SMTT(60)
      <3> QED
        BY <1>3, <2>2, <3>1
    <2> QED
      BY <1>4, <2>1, <2>2, <2>3, <2>4
  <1>5. CASE k # "balloon"
    BY <1>2, <1>5, SMTT(60) DEF Frame, Bytes, FrameKinds
  <1> QED
    BY <1>4, <1>5

\* A frame at the end of a channel.
LEMMA FrameAppended ==
  ASSUME NEW c \in Seq(Bytes), NEW k \in FrameKinds
  PROVE  /\ c \o Frame(k) \in Seq(Bytes)
         /\ Len(c \o Frame(k)) = Len(c) + Len(Frame(k))
         /\ \A i \in 1..Len(c) : (c \o Frame(k))[i] = c[i]
         /\ \A i \in (Len(c) + 1)..(Len(c) + Len(Frame(k))) :
              (c \o Frame(k))[i] = Frame(k)[i - Len(c)]
  <1>1. Frame(k) \in Seq(Bytes)
    BY FrameBytes
  <1> HIDE DEF Bytes
  <1>2. Len(c) \in Nat /\ Len(Frame(k)) \in Nat
    BY <1>1, SMTT(60)
  <1> QED
    BY <1>1, <1>2, ConcatProperties, SMTT(60)

\* Everything but the channel and the counters.
Places == {"create", "top", "gate", "enter", "guest", "quiesce", "end", "join", "done"}

FlagTypes ==
  /\ running \in BOOLEAN /\ gate \in BOOLEAN /\ yield \in BOOLEAN /\ stop \in BOOLEAN
  /\ want \in BOOLEAN
  /\ phase \in {"gated", "run", "exited"}
  /\ kicked \subseteq Vcpus
  /\ vpc \in [Vcpus -> Places]
  /\ captured \subseteq Secondaries
  /\ snap \in {"none", "written", "failed"}

ChanTypes ==
  /\ chan \in Seq(Bytes)
  /\ open \in BOOLEAN /\ listed \in BOOLEAN /\ released \in BOOLEAN
  /\ sent \in 0..MaxFrames
  /\ reader \in {"poll", "payload", "done"}
  /\ got \in 0..(PayloadLen - 1)
  /\ target \in {"none", "sent", "garbled"}

\* The types, in two parts.
LEMMA TypeParts == /\ TypeOK <=> FlagTypes /\ ChanTypes
                   /\ FlagTypes' /\ ChanTypes' => TypeOK'
  BY SMTT(60) DEF TypeOK, FlagTypes, ChanTypes, Places, Bytes

\* The steps of the vcpus' threads and of the guest.
VcpuStep ==
  \/ PrimaryStep \/ PrimaryStops \/ SnapBegin \/ Kicker
  \/ \E c \in Vcpus : GuestExit(c)
  \/ \E s \in Secondaries :
       SecondaryStep(s) \/ SecondaryStops(s) \/ CreateFailed(s) \/ CaptureFailed(s)

\* A step is one of three kinds.
LEMMA StepParts == Next => VcpuStep \/ Amberd \/ Reader
  BY DEF Next, Guest, VcpuStep

\* They leave amberd's end and the control reader alone.
LEMMA VcpuStepKeeps == VcpuStep => UNCHANGED <<chanVars, readerVars>>
  BY DEF VcpuStep, PrimaryStep, PrimaryTop, PrimaryGate, EnterGuest, ForcedExit, SnapWrite,
         SnapTimeout, PrimaryEnd, Join, PrimaryStops, SnapBegin, Kicker, GuestExit,
         SecondaryStep, Created, SecondaryTop, Capture, SecondaryGate, SecondaryStops,
         CreateFailed, CaptureFailed

\* Amberd's steps and the reader's leave the threads and the snapshot alone.
LEMMA OthersKeepVcpus == Amberd \/ Reader => UNCHANGED <<vpc, snapVars, stop>>
  BY DEF Amberd, ControlOp, Release, Hangup, Reader, GateOpens, ReaderLeaves,
         ReaderEof, ReadOpcode, ReadPayload, PayloadEof, flagVars

\* The vcpus' threads keep their types.
LEMMA VcpuTypes ==
  ASSUME FlagTypes, VcpuStep
  PROVE  FlagTypes'
  <1> USE DEF FlagTypes, Goto, Places, flagVars, snapVars
  <1>0. Primary \in Vcpus /\ Secondaries \subseteq Vcpus
    BY DEF Vcpus
  <1>1. CASE PrimaryTop \/ PrimaryGate \/ PrimaryStops \/ SnapBegin
    <2>1. CASE PrimaryTop
      BY <1>0, <2>1 DEF PrimaryTop, SetYield
    <2>2. CASE PrimaryGate
      BY <1>0, <2>2 DEF PrimaryGate
    <2>3. CASE PrimaryStops
      BY <1>0, <2>3 DEF PrimaryStops
    <2>4. CASE SnapBegin
      BY <1>0, <2>4 DEF SnapBegin, SetYield
    <2> QED
      BY <1>1, <2>1, <2>2, <2>3, <2>4
  <1>2. ASSUME NEW c \in Vcpus, EnterGuest(c) \/ ForcedExit(c) \/ GuestExit(c)
        PROVE  FlagTypes'
    BY <1>2, SMTT(60) DEF EnterGuest, ForcedExit, GuestExit
  <1>3. CASE SnapWrite \/ SnapTimeout
    BY <1>0, <1>3 DEF SnapWrite, SnapTimeout
  <1>4. CASE PrimaryEnd \/ Join \/ Kicker
    BY <1>0, <1>4 DEF PrimaryEnd, Join, Kicker, RequestStop, Kick
  <1>5. ASSUME NEW s \in Secondaries, Created(s) \/ SecondaryTop(s) \/ Capture(s) \/ SecondaryGate(s)
        PROVE  FlagTypes'
    BY <1>0, <1>5, SMTT(60) DEF Created, SecondaryTop, Capture, SecondaryGate
  <1>6. ASSUME NEW s \in Secondaries, SecondaryStops(s) \/ CreateFailed(s) \/ CaptureFailed(s)
        PROVE  FlagTypes'
    BY <1>0, <1>6 DEF SecondaryStops, CreateFailed, CaptureFailed, RequestStop, Kick
  <1> QED
    BY <1>0, <1>1, <1>2, <1>3, <1>4, <1>5, <1>6 DEF VcpuStep, PrimaryStep, SecondaryStep

\* What amberd writes keeps the types.
LEMMA AmberdTypes ==
  ASSUME TypeOK, Amberd
  PROVE  TypeOK'
  <1>0. FlagTypes /\ ChanTypes
    BY TypeParts
  <1>1. FlagTypes'
    BY <1>0, SMTT(60) DEF FlagTypes, Amberd, ControlOp, Release, Hangup, flagVars, snapVars
  <1>2. ASSUME NEW k \in Frames, ControlOp(k) PROVE ChanTypes'
    <2>1. k \in FrameKinds /\ MaxFrames \in Nat
      BY WorkerAssumption
    <2>2. chan' \in Seq(Bytes)
      BY <1>0, <1>2, <2>1, FrameAppended DEF ControlOp, ChanTypes
    <2>3. sent' \in 0..MaxFrames
      BY <1>0, <1>2, <2>1, SMTT(60) DEF ControlOp, ChanTypes
    <2>4. listed' \in BOOLEAN
      BY <1>0, <1>2 DEF ControlOp, ChanTypes
    <2> QED
      BY <1>0, <1>2, <2>2, <2>3, <2>4 DEF ControlOp, ChanTypes, readerVars
  <1>3. ASSUME Release PROVE ChanTypes'
    <2>1. GO \in Bytes
      BY DEF GO, BALLOON, Bytes
    <2>2. Append(chan, GO) \in Seq(Bytes)
      BY <1>0, <2>1, AppendProperties DEF ChanTypes
    <2> QED
      BY <1>0, <1>3, <2>2 DEF Release, ChanTypes, readerVars
  <1>4. ASSUME Hangup PROVE ChanTypes'
    BY <1>0, <1>4 DEF Hangup, ChanTypes, readerVars
  <1> QED
    BY <1>1, <1>2, <1>3, <1>4, TypeParts DEF Amberd

\* What the control reader reads keeps the types.
LEMMA ReaderTypes ==
  ASSUME TypeOK, Reader
  PROVE  TypeOK'
  <1>0. FlagTypes /\ ChanTypes
    BY TypeParts
  <1>1. UNCHANGED <<vpc, want, captured, snap, stop, open, sent, listed, released>>
    BY DEF Reader, GateOpens, ReaderLeaves, ReaderEof, ReadOpcode, ReadPayload, PayloadEof,
           flagVars, snapVars, chanVars
  <1>2. chan' = chan \/ (chan # <<>> /\ chan' = Tail(chan))
    BY DEF Reader, GateOpens, ReaderLeaves, ReaderEof, ReadOpcode, ReadPayload, PayloadEof,
           chanVars
  <1>3. chan' \in Seq(Bytes)
    BY <1>0, <1>2, OneByteLess DEF ChanTypes
  <1>4. /\ running' \in BOOLEAN /\ gate' \in BOOLEAN /\ yield' \in BOOLEAN
        /\ phase' \in {"gated", "run", "exited"} /\ kicked' \subseteq Vcpus
    <2> USE <1>0 DEF FlagTypes
    <2>1. CASE GateOpens \/ ReaderLeaves \/ ReadPayload \/ PayloadEof
      BY <2>1 DEF GateOpens, ReaderLeaves, ReadPayload, PayloadEof, flagVars
    <2>2. CASE ReaderEof
      BY <2>2 DEF ReaderEof, SetYield, Kick
    <2>3. ASSUME NEW b \in {BALLOON, PAUSE, RESUME, UNKNOWN}, ReadOpcode(b)
          PROVE  /\ running' = running /\ gate' \in BOOLEAN /\ yield' \in BOOLEAN
                 /\ phase' = phase /\ kicked' \subseteq Vcpus
      BY <2>3 DEF ReadOpcode, SetYield, Kick
    <2> QED
      BY <2>1, <2>2, <2>3 DEF Reader
  <1>5. /\ reader' \in {"poll", "payload", "done"} /\ got' \in 0..(PayloadLen - 1)
        /\ target' \in {"none", "sent", "garbled"}
    <2> USE <1>0, WorkerAssumption DEF ChanTypes
    <2>1. CASE GateOpens \/ ReaderLeaves \/ ReaderEof \/ PayloadEof
      BY <2>1 DEF GateOpens, ReaderLeaves, ReaderEof, PayloadEof, readerVars
    <2>2. CASE ReadPayload
      BY <2>2, SMTT(60) DEF ReadPayload
    <2>3. ASSUME NEW b \in {BALLOON, PAUSE, RESUME, UNKNOWN}, ReadOpcode(b)
          PROVE  /\ reader' \in {"poll", "payload"} /\ UNCHANGED <<got, target>>
      BY <2>3 DEF ReadOpcode
    <2> QED
      BY <2>1, <2>2, <2>3 DEF Reader
  <1>6. FlagTypes'
    BY <1>0, <1>1, <1>4 DEF FlagTypes
  <1>7. ChanTypes'
    BY <1>0, <1>1, <1>3, <1>5 DEF ChanTypes
  <1> QED
    BY <1>6, <1>7, TypeParts

\* Every step keeps the types.
LEMMA NextTypes == TypeOK /\ [Next]_vars => TypeOK'
  <1> SUFFICES ASSUME TypeOK, [Next]_vars PROVE TypeOK'
    OBVIOUS
  <1>1. CASE VcpuStep
    <2>1. ChanTypes'
      BY <1>1, VcpuStepKeeps, TypeParts DEF ChanTypes, chanVars, readerVars
    <2> QED
      BY <1>1, <2>1, VcpuTypes, TypeParts
  <1>2. CASE UNCHANGED vars
    BY <1>2 DEF TypeOK, vars, chanVars, flagVars, readerVars, snapVars
  <1> QED
    BY <1>1, <1>2, StepParts, AmberdTypes, ReaderTypes

\* The worker starts well typed.
LEMMA InitTypes == Init => TypeOK
  <1> SUFFICES ASSUME Init PROVE TypeOK
    OBVIOUS
  <1>1. FlagTypes
    BY DEF Init, FlagTypes, Places
  <1>2. <<>> \in Seq(Bytes)
    BY EmptySeq
  <1>3. 0 \in 0..MaxFrames /\ 0 \in 0..(PayloadLen - 1) /\ HasControl \in BOOLEAN
    BY WorkerAssumption, SMTT(60)
  <1>4. ChanTypes
    BY <1>2, <1>3 DEF Init, ChanTypes
  <1> QED
    BY <1>1, <1>4, TypeParts

-----------------------------------------------------------------------------
(***************************************************************************)
(* Frames.                                                                 *)
(***************************************************************************)

\* Channel c starts with r bytes of a payload; what follows are whole frames.
\* The data bytes are those r and the PayloadLen bytes after every BALLOON.
Aligned(c, r) ==
  /\ r <= Len(c)
  /\ \A i \in 1..Len(c) :
       /\ c[i] = DATA <=> \/ i <= r
                          \/ \E j \in 1..(i - 1) : c[j] = BALLOON /\ i - j <= PayloadLen
       /\ c[i] = BALLOON => i + PayloadLen <= Len(c)

\* What the reader still expects of the payload it is in.
Rest == IF reader = "payload" THEN PayloadLen - got ELSE 0

\* The strengthening of FramesIntact, for a worker that was not pooled.
FrameInv ==
  /\ TypeOK
  /\ phase # "gated" /\ target # "garbled"
  /\ reader = "poll" => got = 0
  /\ reader # "done" => Aligned(chan, Rest)

\* A frame written behind whole frames.
LEMMA AlignedFrame ==
  ASSUME NEW c \in Seq(Bytes), NEW r \in Nat, Aligned(c, r), NEW k \in FrameKinds
  PROVE  Aligned(c \o Frame(k), r)
  <1> DEFINE d == c \o Frame(k)
             l == Len(c)
             m == Len(Frame(k))
  <1>1. /\ l \in Nat /\ Len(d) = l + m
        /\ \A i \in 1..l : d[i] = c[i]
        /\ \A i \in (l + 1)..(l + m) : d[i] = Frame(k)[i - l]
    <2>1. l \in Nat
      BY SMTT(60)
    <2> QED
      BY <2>1, FrameAppended
  <1>2. /\ PayloadLen \in Nat \ {0} /\ m = IF k = "balloon" THEN 1 + PayloadLen ELSE 1
        /\ Frame(k)[1] = IF k = "balloon" THEN BALLOON
                         ELSE IF k = "pause" THEN PAUSE ELSE RESUME
        /\ \A i \in 2..m : Frame(k)[i] = DATA
    BY FrameBytes, WorkerAssumption
  <1> HIDE DEF d, m
  <1>3. /\ l + 1 \in (l + 1)..(l + m) /\ d[l + 1] = Frame(k)[1]
        /\ d[l + 1] # DATA /\ (d[l + 1] = BALLOON <=> k = "balloon")
    <2>1. l + 1 \in (l + 1)..(l + m) /\ (l + 1) - l = 1
      BY <1>1, <1>2, SMTT(60)
    <2>2. d[l + 1] = Frame(k)[1]
      BY <1>1, <2>1
    <2> QED
      BY <1>2, <2>1, <2>2, SMTT(60) DEF DATA, BALLOON, PAUSE, RESUME
  <1>4. ASSUME NEW i \in (l + 2)..(l + m) PROVE d[i] = DATA
    <2>1. i \in (l + 1)..(l + m) /\ i - l \in 2..m
      BY <1>1, <1>2, SMTT(60)
    <2> QED
      BY <1>1, <1>2, <2>1
  <1>5. ASSUME NEW i \in 1..l
        PROVE  /\ d[i] = DATA <=> \/ i <= r
                                  \/ \E j \in 1..(i - 1) : d[j] = BALLOON /\ i - j <= PayloadLen
               /\ d[i] = BALLOON => i + PayloadLen <= l + m
    <2>1. \A j \in 1..(i - 1) : j \in 1..l
      BY <1>1, SMTT(60)
    <2>2. i + PayloadLen <= l => i + PayloadLen <= l + m
      BY <1>1, <1>2, SMTT(60)
    <2>3. /\ c[i] = DATA <=> \/ i <= r
                             \/ \E j \in 1..(i - 1) : c[j] = BALLOON /\ i - j <= PayloadLen
          /\ c[i] = BALLOON => i + PayloadLen <= l
      BY <1>5 DEF Aligned
    <2>4. \A j \in 1..(i - 1) : d[j] = c[j]
      BY <1>1, <2>1
    <2>5. d[i] = c[i]
      BY <1>1, <1>5
    <2> HIDE DEF d
    <2> QED
      BY <2>2, <2>3, <2>4, <2>5
  <1>6. ASSUME NEW j \in 1..l, d[j] = BALLOON PROVE j + PayloadLen <= l
    BY <1>1, <1>6 DEF Aligned
  <1>7. r <= l
    BY DEF Aligned
  <1>8. /\ ~(l + 1 <= r)
        /\ ~\E j \in 1..l : d[j] = BALLOON /\ (l + 1) - j <= PayloadLen
        /\ d[l + 1] = BALLOON => l + 1 + PayloadLen <= l + m
    BY <1>1, <1>2, <1>3, <1>6, <1>7, SMTT(60)
  <1>9. ASSUME NEW i \in (l + 2)..(l + m)
        PROVE  \E j \in 1..(i - 1) : d[j] = BALLOON /\ i - j <= PayloadLen
    <2>1. k = "balloon" /\ l + 1 \in 1..(i - 1) /\ i - (l + 1) <= PayloadLen
      BY <1>1, <1>2, SMTT(60)
    <2> QED
      BY <1>3, <2>1
  <1>10. DATA # BALLOON
    BY SMTT(60) DEF DATA, BALLOON
  <1>11. ASSUME NEW i \in 1..(l + m)
         PROVE  /\ d[i] = DATA <=> \/ i <= r
                                   \/ \E j \in 1..(i - 1) : d[j] = BALLOON /\ i - j <= PayloadLen
                /\ d[i] = BALLOON => i + PayloadLen <= l + m
    <2>1. i \in 1..l \/ i = l + 1 \/ i \in (l + 2)..(l + m)
      BY <1>1, <1>2, SMTT(60)
    <2>2. CASE i = l + 1
      <3>1. (l + 1) - 1 = l
        BY <1>1, SMTT(60)
      <3> QED
        BY <1>3, <1>8, <2>2, <3>1
    <2>3. CASE i \in (l + 2)..(l + m)
      BY <1>4, <1>9, <1>10, <2>3
    <2> QED
      BY <1>5, <2>1, <2>2, <2>3
  <1>12. r <= l + m
    BY <1>1, <1>2, <1>7, SMTT(60)
  <1> QED
    BY <1>1, <1>11, <1>12 DEF Aligned, d

\* A byte read: at an opcode it is not of a payload, and a balloon's payload is
\* next; inside a payload it is of that payload.
LEMMA AlignedTail ==
  ASSUME NEW c \in Seq(Bytes), c # <<>>, NEW r \in Nat, Aligned(c, r)
  PROVE  /\ c[1] = DATA <=> r > 0
         /\ r > 0 => Aligned(Tail(c), r - 1)
         /\ r = 0 => Aligned(Tail(c), IF c[1] = BALLOON THEN PayloadLen ELSE 0)
  <1> DEFINE d == Tail(c)
             l == Len(c)
             q == IF r > 0 THEN r - 1 ELSE IF c[1] = BALLOON THEN PayloadLen ELSE 0
  <1>1. /\ l \in Nat \ {0} /\ Len(d) = l - 1
        /\ \A i \in 1..(l - 1) : d[i] = c[i + 1]
    BY OneByteLess
  <1>2. 1 \in 1..l /\ 1..(1 - 1) = {}
    BY <1>1, SMTT(60)
  <1>3. c[1] = DATA <=> r > 0
    <2>1. 1 <= r <=> r > 0
      BY SMTT(60)
    <2> QED
      BY <1>2, <2>1 DEF Aligned
  <1>4. DATA # BALLOON /\ PayloadLen \in Nat
    BY WorkerAssumption, SMTT(60) DEF DATA, BALLOON
  <1>5. q \in Nat /\ q <= l - 1
    BY <1>1, <1>2, <1>4, SMTT(60) DEF Aligned
  <1> HIDE DEF d
  <1>6. ASSUME NEW i \in 1..(l - 1)
        PROVE  /\ d[i] = DATA <=> \/ i <= q
                                  \/ \E j \in 1..(i - 1) : d[j] = BALLOON /\ i - j <= PayloadLen
               /\ d[i] = BALLOON => i + PayloadLen <= l - 1
    <2>1. /\ i + 1 \in 1..l /\ d[i] = c[i + 1] /\ (i + 1) - 1 = i
          /\ i + 1 + PayloadLen <= l <=> i + PayloadLen <= l - 1
      BY <1>1, <1>4, SMTT(60)
    <2>2. /\ c[i + 1] = DATA <=> \/ i + 1 <= r
                                 \/ \E j \in 1..i : c[j] = BALLOON /\ (i + 1) - j <= PayloadLen
          /\ c[i + 1] = BALLOON => i + 1 + PayloadLen <= l
      BY <2>1 DEF Aligned
    <2>3. (\E j \in 1..i : c[j] = BALLOON /\ (i + 1) - j <= PayloadLen) <=>
            \/ c[1] = BALLOON /\ i <= PayloadLen
            \/ \E j \in 1..(i - 1) : d[j] = BALLOON /\ i - j <= PayloadLen
      <3>1. ASSUME NEW j \in 1..i, c[j] = BALLOON, (i + 1) - j <= PayloadLen, j # 1
            PROVE  \E n \in 1..(i - 1) : d[n] = BALLOON /\ i - n <= PayloadLen
        <4>1. /\ j - 1 \in 1..(i - 1) /\ j - 1 \in 1..(l - 1) /\ (j - 1) + 1 = j
              /\ i - (j - 1) <= PayloadLen
          BY <1>1, <1>4, <3>1, SMTT(60)
        <4> QED
          BY <1>1, <3>1, <4>1
      <3>2. ASSUME NEW j \in 1..(i - 1), d[j] = BALLOON, i - j <= PayloadLen
            PROVE  \E n \in 1..i : c[n] = BALLOON /\ (i + 1) - n <= PayloadLen
        <4>1. j + 1 \in 1..i /\ j \in 1..(l - 1) /\ (i + 1) - (j + 1) <= PayloadLen
          BY <1>1, <1>4, <3>2, SMTT(60)
        <4> QED
          BY <1>1, <3>2, <4>1
      <3>3. 1 \in 1..i /\ (i + 1) - 1 = i
        BY <1>1, SMTT(60)
      <3> QED
        BY <3>1, <3>2, <3>3
    <2>4. i <= q <=> (i + 1 <= r \/ (c[1] = BALLOON /\ i <= PayloadLen))
      BY <1>1, <1>3, <1>4, SMTT(60)
    <2> HIDE DEF q
    <2> QED
      BY <2>1, <2>2, <2>3, <2>4
  <1>7. Aligned(d, q)
    <2> HIDE DEF q
    <2> QED
      BY <1>1, <1>5, <1>6 DEF Aligned
  <1> QED
    BY <1>3, <1>7, SMTT(60) DEF d

\* Every step of a worker that was not pooled.
LEMMA NextFrameInv ==
  ASSUME ~Pooled, FrameInv, [Next]_vars
  PROVE  FrameInv'
  <1>0. TypeOK /\ TypeOK' /\ ChanTypes
    BY NextTypes, TypeParts DEF FrameInv
  <1>1. /\ chan \in Seq(Bytes) /\ PayloadLen \in Nat \ {0} /\ got \in 0..(PayloadLen - 1)
        /\ Rest \in Nat /\ (reader = "payload" <=> Rest > 0)
    BY <1>0, WorkerAssumption, SMTT(60) DEF ChanTypes, Rest
  <1>2. ASSUME UNCHANGED <<chan, readerVars>>, phase' # "gated" PROVE FrameInv'
    <2>1. Rest' = Rest
      BY <1>2 DEF Rest, readerVars
    <2> QED
      BY <1>0, <1>2, <2>1 DEF FrameInv, readerVars
  <1>3. CASE UNCHANGED vars
    BY <1>2, <1>3 DEF vars, chanVars, FrameInv
  <1>4. CASE VcpuStep
    <2>1. phase' \in {phase, "exited"}
      BY <1>4
         DEF VcpuStep, PrimaryStep, PrimaryTop, PrimaryGate, EnterGuest, ForcedExit, SnapWrite,
             SnapTimeout, PrimaryEnd, Join, PrimaryStops, SnapBegin, Kicker, GuestExit,
             SecondaryStep, Created, SecondaryTop, Capture, SecondaryGate, SecondaryStops,
             CreateFailed, CaptureFailed
    <2> QED
      BY <1>2, <1>4, <2>1, VcpuStepKeeps DEF chanVars, FrameInv
  <1>5. ASSUME NEW k \in Frames, ControlOp(k) PROVE FrameInv'
    <2>1. k \in FrameKinds /\ chan' = chan \o Frame(k) /\ UNCHANGED <<phase, readerVars>>
      BY <1>5, WorkerAssumption DEF ControlOp
    <2>2. Rest' = Rest
      BY <2>1 DEF Rest, readerVars
    <2>3. reader # "done" => Aligned(chan', Rest)
      BY <1>1, <2>1, AlignedFrame DEF FrameInv
    <2> QED
      BY <1>0, <2>1, <2>2, <2>3 DEF FrameInv, readerVars
  <1>6. CASE Hangup
    BY <1>2, <1>6 DEF Hangup, FrameInv
  <1>7. ~Release /\ ~GateOpens
    BY DEF Release, GateOpens, FrameInv
  <1>8. CASE ReaderLeaves \/ ReaderEof \/ PayloadEof
    BY <1>0, <1>8 DEF ReaderLeaves, ReaderEof, PayloadEof, FrameInv
  <1>9. ASSUME NEW b \in {BALLOON, PAUSE, RESUME, UNKNOWN}, ReadOpcode(b) PROVE FrameInv'
    <2>1. /\ reader = "poll" /\ chan # <<>> /\ Head(chan) \in {b, DATA} /\ chan' = Tail(chan)
          /\ reader' = IF b = BALLOON THEN "payload" ELSE "poll"
          /\ UNCHANGED <<phase, got, target>>
      BY <1>9 DEF ReadOpcode
    <2>2. Rest = 0 /\ Aligned(chan, 0)
      BY <2>1 DEF FrameInv, Rest
    <2>3. Head(chan) = chan[1]
      BY <1>1, <2>1, OneByteLess
    <2>4. chan[1] # DATA /\ Aligned(Tail(chan), IF chan[1] = BALLOON THEN PayloadLen ELSE 0)
      BY <1>1, <2>1, <2>2, AlignedTail
    <2>5. chan[1] = b
      BY <2>1, <2>3, <2>4
    <2>6. got = 0
      BY <2>1 DEF FrameInv
    <2>7. Rest' = IF b = BALLOON THEN PayloadLen ELSE 0
      BY <1>1, <2>1, <2>6, SMTT(60) DEF Rest
    <2> QED
      BY <1>0, <2>1, <2>4, <2>5, <2>7 DEF FrameInv
  <1>10. ASSUME ReadPayload PROVE FrameInv'
    <2>1. /\ reader = "payload" /\ chan # <<>> /\ chan' = Tail(chan) /\ UNCHANGED phase
          /\ got' = IF got + 1 = PayloadLen THEN 0 ELSE got + 1
          /\ reader' = IF got + 1 = PayloadLen THEN "poll" ELSE "payload"
          /\ target' = "garbled" => target = "garbled" \/ Head(chan) # DATA
      BY <1>10 DEF ReadPayload
    <2>2. Aligned(chan, Rest)
      BY <2>1 DEF FrameInv
    <2>3. chan[1] = DATA /\ Aligned(Tail(chan), Rest - 1)
      BY <1>1, <2>1, <2>2, AlignedTail
    <2>4. Head(chan) = chan[1]
      BY <1>1, <2>1, OneByteLess
    <2>5. Rest' = Rest - 1
      BY <1>1, <2>1, SMTT(60) DEF Rest
    <2> QED
      BY <1>0, <2>1, <2>3, <2>4, <2>5 DEF FrameInv
  <1> QED
    BY <1>3, <1>4, <1>5, <1>6, <1>7, <1>8, <1>9, <1>10, StepParts DEF Amberd, Reader

\* A worker that was not pooled takes every opcode amberd wrote for an opcode and
\* every payload for a payload, however reads and writes interleave, and the
\* state keeps its types.
THEOREM FramesAreIntact ==
  ASSUME ~Pooled
  PROVE  Spec => []FramesIntact
  <1>1. Init => FrameInv
    <2> SUFFICES ASSUME Init PROVE FrameInv
      OBVIOUS
    <2>1. TypeOK
      BY InitTypes
    <2>2. Aligned(<<>>, 0)
      <3>1. Len(<<>>) = 0 /\ 0 <= 0 /\ \A i : i \notin 1..0
        BY SMTT(60)
      <3> QED
        BY <3>1 DEF Aligned
    <2>3. chan = <<>> /\ got = 0 /\ Rest = 0 /\ phase # "gated" /\ target # "garbled"
      BY DEF Init, Rest
    <2> QED
      BY <2>1, <2>2, <2>3 DEF FrameInv
  <1>2. FrameInv /\ [Next]_vars => FrameInv'
    BY NextFrameInv
  <1>3. FrameInv => FramesIntact
    <2> SUFFICES ASSUME FrameInv, reader = "poll", chan # <<>> PROVE Head(chan) # DATA
      BY DEF FrameInv, FramesIntact
    <2>1. chan \in Seq(Bytes) /\ Aligned(chan, 0)
      BY DEF FrameInv, TypeOK, Bytes, Rest
    <2> QED
      BY <2>1, AlignedTail, OneByteLess, SMTT(60)
  <1> QED
    BY <1>1, <1>2, <1>3, PTL DEF Spec

-----------------------------------------------------------------------------
(***************************************************************************)
(* Snapshots that are given up.                                            *)
(***************************************************************************)

\* Without a control frame nothing but the go byte is in the channel, no vcpu is
\* held at the gate, and HVF's yield stays up while the primary waits.
Unpaused ==
  sent = 0 => /\ ~gate
              /\ \A i \in 1..Len(chan) : chan[i] = BALLOON
              /\ Backend = "hvf" /\ Secondaries # {} /\ vpc[Primary] = "quiesce" => yield

\* A secondary's thread ends in a VM that stops, and a snapshot is given up from
\* the barrier only.
GiveUpInv ==
  /\ Unpaused
  /\ \A s \in Secondaries : vpc[s] = "done" => ~running
  /\ snap = "failed" => vpc[Primary] \in {"end", "join", "done"}
  /\ SnapshotSucceeds

\* The go byte reads as an opcode that pauses nothing.
LEMMA ReaderUnpaused ==
  ASSUME TypeOK, Unpaused, Reader
  PROVE  Unpaused'
  <1>0. chan \in Seq(Bytes) /\ UNCHANGED <<vpc, sent>>
    BY TypeParts, OthersKeepVcpus
       DEF ChanTypes, Reader, GateOpens, ReaderLeaves, ReaderEof, ReadOpcode, ReadPayload,
           PayloadEof, chanVars
  <1> SUFFICES ASSUME sent = 0
               PROVE  /\ ~gate' /\ \A i \in 1..Len(chan') : chan'[i] = BALLOON
                      /\ yield => yield'
    BY <1>0 DEF Unpaused
  <1>1. ASSUME chan # <<>> PROVE \A i \in 1..Len(Tail(chan)) : Tail(chan)[i] = BALLOON
    <2> SUFFICES ASSUME NEW i \in 1..Len(Tail(chan)) PROVE Tail(chan)[i] = BALLOON
      OBVIOUS
    <2>1. /\ Len(chan) \in Nat /\ Len(Tail(chan)) = Len(chan) - 1
          /\ \A j \in 1..(Len(chan) - 1) : Tail(chan)[j] = chan[j + 1]
      BY <1>0, <1>1, OneByteLess
    <2>2. i \in 1..(Len(chan) - 1) /\ i + 1 \in 1..Len(chan)
      BY <2>1, SMTT(60)
    <2> QED
      BY <2>1, <2>2 DEF Unpaused
  <1>2. ~gate /\ \A i \in 1..Len(chan) : chan[i] = BALLOON
    BY DEF Unpaused
  <1>3. CASE GateOpens \/ ReadPayload
    <2>1. UNCHANGED <<gate, yield>> /\ (chan' = chan \/ (chan # <<>> /\ chan' = Tail(chan)))
      BY <1>3 DEF GateOpens, ReadPayload, flagVars
    <2> QED
      BY <1>1, <1>2, <2>1
  <1>4. CASE ReaderLeaves \/ PayloadEof
    <2>1. UNCHANGED <<gate, yield, chan>>
      BY <1>4 DEF ReaderLeaves, PayloadEof, flagVars, chanVars
    <2> QED
      BY <1>2, <2>1
  <1>5. CASE ReaderEof
    BY <1>2, <1>5 DEF ReaderEof, SetYield, chanVars
  <1>6. ASSUME NEW b \in {BALLOON, PAUSE, RESUME, UNKNOWN}, ReadOpcode(b)
        PROVE  ~gate' /\ chan # <<>> /\ chan' = Tail(chan) /\ UNCHANGED yield
    <2>1. chan # <<>> /\ Head(chan) \in {b, DATA} /\ chan' = Tail(chan)
      BY <1>6 DEF ReadOpcode
    <2>2. Head(chan) = chan[1] /\ 1 \in 1..Len(chan)
      BY <1>0, <2>1, OneByteLess, SMTT(60)
    <2>3. b = BALLOON
      BY <1>2, <2>1, <2>2, SMTT(60) DEF BALLOON, DATA
    <2>4. b # PAUSE /\ b # RESUME
      BY <2>3, SMTT(60) DEF BALLOON, PAUSE, RESUME
    <2> QED
      BY <1>2, <1>6, <2>1, <2>4 DEF ReadOpcode
  <1> QED
    BY <1>1, <1>3, <1>4, <1>5, <1>6 DEF Reader

\* Without a frame amberd adds the go byte at most.
LEMMA AmberdUnpaused ==
  ASSUME TypeOK, Unpaused, Amberd
  PROVE  Unpaused'
  <1>0. chan \in Seq(Bytes) /\ sent \in Nat /\ MaxFrames \in Nat
    <2>1. chan \in Seq(Bytes) /\ sent \in 0..MaxFrames
      BY TypeParts DEF ChanTypes
    <2>2. MaxFrames \in Nat
      BY WorkerAssumption
    <2> QED
      BY <2>1, <2>2, SMTT(60)
  <1>1. ASSUME NEW k \in Frames, ControlOp(k) PROVE Unpaused'
    BY <1>0, <1>1, SMTT(60) DEF ControlOp, Unpaused
  <1>2. CASE Release
    <2>1. /\ Len(chan') = Len(chan) + 1 /\ Len(chan) \in Nat
          /\ \A i \in 1..(Len(chan) + 1) : i # Len(chan) + 1 => i \in 1..Len(chan) /\ chan'[i] = chan[i]
          /\ chan'[Len(chan) + 1] = BALLOON
      <3>1. GO \in Bytes /\ GO = BALLOON
        BY DEF GO, BALLOON, Bytes
      <3> HIDE DEF Bytes
      <3> QED
        BY <1>0, <1>2, <3>1, AppendProperties, SMTT(60) DEF Release
    <2>2. UNCHANGED <<sent, vpc, gate, yield>>
      BY <1>2 DEF Release, flagVars
    <2> QED
      BY <2>1, <2>2, SMTT(60) DEF Unpaused
  <1>3. CASE Hangup
    BY <1>3 DEF Hangup, Unpaused, flagVars
  <1> QED
    BY <1>1, <1>2, <1>3 DEF Amberd

\* On HVF, or past the deadline, a secondary that runs on is not held up.
LEMMA NoOneHeldUp ==
  ASSUME Backend = "hvf" \/ Deadline, TypeOK, GiveUpInv, sent = 0, running,
         vpc[Primary] = "quiesce", NEW s \in Secondaries
  PROVE  ~HeldUp(s)
  BY WorkerAssumption DEF GiveUpInv, Unpaused, HeldUp, Forced

\* The steps of the vcpus' threads, the snapshot's timeout among them.
LEMMA VcpuGiveUp ==
  ASSUME Backend = "hvf" \/ Deadline, TypeOK, GiveUpInv, VcpuStep
  PROVE  GiveUpInv'
  <1>0. FlagTypes /\ UNCHANGED <<chan, sent>> /\ Primary \in Vcpus /\ Primary \notin Secondaries
        /\ Secondaries \subseteq Vcpus
    BY TypeParts, VcpuStepKeeps, WorkerAssumption DEF chanVars, Vcpus
  <1> USE DEF FlagTypes, GiveUpInv, Unpaused, SnapshotSucceeds, Goto, flagVars, snapVars
  <1>1. CASE PrimaryTop \/ PrimaryGate \/ PrimaryStops
    BY <1>0, <1>1, SMTT(60) DEF PrimaryTop, PrimaryGate, PrimaryStops
  <1>2. CASE SnapBegin
    BY <1>0, <1>2 DEF SnapBegin, SetYield
  <1>3. ASSUME NEW c \in Vcpus, EnterGuest(c) \/ ForcedExit(c) \/ GuestExit(c)
        PROVE  GiveUpInv'
    BY <1>0, <1>3, SMTT(60) DEF EnterGuest, ForcedExit, GuestExit
  <1>4. CASE SnapWrite
    BY <1>0, <1>4 DEF SnapWrite
  <1>5. CASE SnapTimeout
    <2>1. sent = 0 => ~running
      BY <1>5, NoOneHeldUp DEF SnapTimeout
    <2> QED
      BY <1>0, <1>5, <2>1 DEF SnapTimeout
  <1>6. CASE PrimaryEnd \/ Join \/ Kicker
    BY <1>0, <1>6, SMTT(60) DEF PrimaryEnd, Join, Kicker
  <1>7. ASSUME NEW s \in Secondaries, Created(s) \/ SecondaryTop(s) \/ Capture(s) \/ SecondaryGate(s)
        PROVE  GiveUpInv'
    BY <1>0, <1>7, SMTT(60) DEF Created, SecondaryTop, Capture, SecondaryGate
  <1>8. ASSUME NEW s \in Secondaries, SecondaryStops(s) \/ CreateFailed(s) \/ CaptureFailed(s)
        PROVE  GiveUpInv'
    <2>1. ~running' /\ UNCHANGED <<gate, yield, snap>> /\ vpc'[Primary] = vpc[Primary]
      BY <1>0, <1>8 DEF SecondaryStops, CreateFailed, CaptureFailed
    <2> QED
      BY <1>0, <2>1
  <1> QED
    BY <1>0, <1>1, <1>2, <1>3, <1>4, <1>5, <1>6, <1>7, <1>8
       DEF VcpuStep, PrimaryStep, SecondaryStep

\* Every step of the worker.
LEMMA NextGiveUp ==
  ASSUME Backend = "hvf" \/ Deadline, TypeOK, GiveUpInv, [Next]_vars
  PROVE  GiveUpInv'
  <1>1. CASE UNCHANGED vars
    BY <1>1 DEF vars, chanVars, flagVars, snapVars, GiveUpInv, Unpaused, SnapshotSucceeds
  <1>2. CASE Amberd \/ Reader
    <2>1. Unpaused'
      BY <1>2, AmberdUnpaused, ReaderUnpaused DEF GiveUpInv
    <2>2. UNCHANGED <<vpc, snap>> /\ (running' => running) /\ (sent' = 0 => sent = 0)
      <3>1. UNCHANGED <<vpc, snap>>
        BY <1>2, OthersKeepVcpus DEF snapVars
      <3>2. running' => running
        BY <1>2
           DEF Amberd, ControlOp, Release, Hangup, Reader, GateOpens, ReaderLeaves,
               ReaderEof, ReadOpcode, ReadPayload, PayloadEof, flagVars
      <3>3. sent' = sent \/ sent' = sent + 1
        BY <1>2
           DEF Amberd, ControlOp, Release, Hangup, Reader, GateOpens, ReaderLeaves,
               ReaderEof, ReadOpcode, ReadPayload, PayloadEof, chanVars
      <3>4. sent \in Nat
        <4>1. sent \in 0..MaxFrames
          BY TypeParts DEF ChanTypes
        <4> QED
          BY <4>1, SMTT(60)
      <3> QED
        BY <3>1, <3>2, <3>3, <3>4, SMTT(60)
    <2> QED
      BY <2>1, <2>2 DEF GiveUpInv, SnapshotSucceeds
  <1> QED
    BY <1>1, <1>2, VcpuGiveUp, StepParts

\* On HVF, and on KVM once the snapshot's deadline has passed, a snapshot of a
\* worker that got no control frame is given up only when the VM is stopping,
\* for any number of secondaries, pooled or not.
THEOREM SnapshotsSucceed ==
  ASSUME Backend = "hvf" \/ Deadline
  PROVE  Spec => []SnapshotSucceeds
  <1>1. Init => TypeOK /\ GiveUpInv
    <2> SUFFICES ASSUME Init PROVE GiveUpInv
      BY InitTypes
    <2>1. \A i : i \notin 1..Len(<<>>)
      BY SMTT(60)
    <2> QED
      BY <2>1, WorkerAssumption DEF Init, GiveUpInv, Unpaused, SnapshotSucceeds, Vcpus
  <1>2. TypeOK /\ GiveUpInv /\ [Next]_vars => (TypeOK /\ GiveUpInv)'
    BY NextTypes, NextGiveUp
  <1>3. GiveUpInv => SnapshotSucceeds
    BY DEF GiveUpInv
  <1> QED
    BY <1>1, <1>2, <1>3, PTL DEF Spec
=============================================================================
