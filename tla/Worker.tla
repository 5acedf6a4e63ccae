------------------------------- MODULE Worker -------------------------------
(***************************************************************************)
(* A worker process: the vcpu threads of Vm::run with the live pause gate  *)
(* and the snapshot barrier, the control reader, the warm-pool gate, and   *)
(* amberd's end of the control channel.                                    *)
(*                                                                         *)
(* A vcpu thread is at the head of its loop ("top"), at the pause gate     *)
(* ("gate"), past it and about to call Vcpu::run ("enter"), inside         *)
(* Vcpu::run ("guest"), or waiting for the others to capture ("quiesce");  *)
(* the primary then leaves its loop ("end") and joins the other threads.   *)
(***************************************************************************)
EXTENDS Naturals, Sequences

CONSTANTS
  Primary,      \* the vcpu that Vm::run drives on its own thread
  Secondaries,  \* the vcpus with a thread each
  Backend,      \* "hvf" or "kvm"
  HasControl,   \* whether amberd passed a control fd
  Pooled,       \* whether the warm-pool gate is armed
  Frames,       \* the control frames clients ask for, a subset of FrameKinds
  MaxFrames,    \* bound: how many of them
  PayloadLen,   \* bytes of a balloon target
  Snapshot,     \* whether a snapshot was requested
  Deadline      \* whether its fallback deadline has passed

FrameKinds == {"balloon", "pause", "resume"}
Vcpus == {Primary} \cup Secondaries

ASSUME WorkerAssumption ==
  /\ Primary \notin Secondaries
  /\ Backend \in {"hvf", "kvm"}
  /\ {HasControl, Pooled, Snapshot, Deadline} \subseteq BOOLEAN
  /\ Frames \subseteq FrameKinds
  /\ MaxFrames \in Nat
  /\ PayloadLen \in Nat \ {0}

\* Bytes on the channel: the opcodes, the go byte, and a byte of a payload,
\* whose value may be that of any opcode.
BALLOON == 1
PAUSE == 2
RESUME == 3
GO == 1
DATA == 0
UNKNOWN == 4

VARIABLES
  chan,      \* the bytes amberd wrote that the worker has not read
  open,      \* whether amberd still holds its end
  sent,      \* how many frames were sent
  listed,    \* the `paused` flag amberd lists for the VM
  released,  \* whether amberd sent the go byte
  phase,     \* "gated", "run" or "exited"
  running,   \* the flag all loops poll
  gate,      \* the pause flag, under its mutex
  yield,     \* HVF's yield_now
  stop,      \* HVF's stop
  kicked,    \* KVM: vcpus with a signal pending inside KVM_RUN
  vpc,       \* where each vcpu thread is
  reader,    \* the control reader: "poll", "payload" or "done"
  got,       \* payload bytes read so far
  target,    \* the balloon target: "none", "sent" or "garbled"
  want,      \* the snapshot barrier is up
  captured,  \* secondaries that deposited their registers
  snap       \* the snapshot: "none", "written" or "failed"

chanVars == <<chan, open, sent, listed, released>>
flagVars == <<running, gate, yield, stop, kicked>>
readerVars == <<reader, got, target>>
snapVars == <<want, captured, snap>>
vars == <<chanVars, phase, flagVars, vpc, readerVars, snapVars>>

Init ==
  /\ chan = <<>> /\ open = HasControl /\ sent = 0
  /\ listed = FALSE /\ released = FALSE
  /\ phase = IF Pooled /\ HasControl THEN "gated" ELSE "run"
  /\ running = TRUE /\ gate = FALSE /\ yield = FALSE /\ stop = FALSE
  /\ kicked = {}
  /\ vpc = [c \in Vcpus |-> IF c = Primary THEN "top" ELSE "create"]
  /\ reader = IF HasControl THEN "poll" ELSE "done"
  /\ got = 0 /\ target = "none"
  /\ want = FALSE /\ captured = {} /\ snap = "none"

Goto(c, l) == vpc' = [vpc EXCEPT ![c] = l]

-----------------------------------------------------------------------------
(***************************************************************************)
(* amberd's end of the channel (daemon.rs), and the warm-pool gate.        *)
(***************************************************************************)

Frame(k) ==
  CASE k = "balloon" -> <<BALLOON>> \o [i \in 1..PayloadLen |-> DATA]
    [] k = "pause" -> <<PAUSE>>
    [] k = "resume" -> <<RESUME>>

\* control_op: one write for the whole frame, then the flag that List shows.
ControlOp(k) ==
  /\ open /\ phase # "exited" /\ sent < MaxFrames
  /\ chan' = chan \o Frame(k)
  /\ sent' = sent + 1
  /\ listed' = IF k = "balloon" THEN listed ELSE k = "pause"
  /\ UNCHANGED <<open, released, phase, flagVars, vpc, readerVars, snapVars>>

\* release: a fork takes the worker out of the pool, once.
Release ==
  /\ open /\ Pooled /\ ~released /\ phase # "exited"
  /\ chan' = Append(chan, GO)
  /\ released' = TRUE
  /\ UNCHANGED <<open, sent, listed, phase, flagVars, vpc, readerVars, snapVars>>

\* amberd drops the entry, or is gone.
Hangup ==
  /\ open
  /\ open' = FALSE
  /\ UNCHANGED <<chan, sent, listed, released, phase, flagVars, vpc, readerVars,
                 snapVars>>

\* The gate reads one byte, whatever it is, or end of file.
GateOpens ==
  /\ phase = "gated"
  /\ chan # <<>> \/ ~open
  /\ chan' = IF chan = <<>> THEN chan ELSE Tail(chan)
  /\ phase' = "run"
  /\ UNCHANGED <<open, sent, listed, released, flagVars, vpc, readerVars, snapVars>>

-----------------------------------------------------------------------------
(***************************************************************************)
(* The backend's ways of getting a vcpu out of Vcpu::run.                  *)
(***************************************************************************)

\* Hypervisor::kick: a signal ends a KVM_RUN; one that finds the thread
\* elsewhere is lost.  HVF has none.
Kick == kicked' = IF Backend = "kvm"
                  THEN kicked \cup {c \in Vcpus : vpc[c] = "guest"} ELSE kicked

\* Hypervisor::set_yield: HVF's flag, which every forced exit looks at.
SetYield(on) == yield' = IF Backend = "hvf" THEN on ELSE yield

\* Hypervisor::request_stop: HVF's flag, KVM's kick.
RequestStop ==
  /\ stop' = IF Backend = "hvf" THEN TRUE ELSE stop
  /\ Kick

\* The exit that the backend forces on a vcpu in the guest.
Forced(c) == IF Backend = "hvf" THEN yield \/ stop ELSE c \in kicked

ForcedExit(c) ==
  /\ vpc[c] = "guest"
  /\ Forced(c)
  /\ kicked' = kicked \ {c}
  /\ Goto(c, "top")
  /\ UNCHANGED <<chanVars, phase, running, gate, yield, stop, readerVars, snapVars>>

\* An MMIO exit is serviced, or an idle guest waits out its timer.
GuestExit(c) ==
  /\ vpc[c] = "guest"
  /\ kicked' = kicked \ {c}
  /\ Goto(c, "top")
  /\ UNCHANGED <<chanVars, phase, running, gate, yield, stop, readerVars, snapVars>>

\* Vcpu::run is called; on KVM a signal that came before is gone.
EnterGuest(c) ==
  /\ vpc[c] = "enter"
  /\ Goto(c, "guest")
  /\ UNCHANGED <<chanVars, phase, flagVars, readerVars, snapVars>>

-----------------------------------------------------------------------------
(***************************************************************************)
(* The primary vcpu: Vm::run's step and what follows the loop.             *)
(***************************************************************************)

PrimaryTop ==
  /\ phase = "run"
  /\ vpc[Primary] = "top"
  /\ Goto(Primary, IF running THEN "gate" ELSE "end")
  /\ UNCHANGED <<chanVars, phase, flagVars, readerVars, snapVars>>

\* The condition variable is waited on for as long as the flag is set.
PrimaryGate ==
  /\ vpc[Primary] = "gate"
  /\ ~gate
  /\ Goto(Primary, "enter")
  /\ UNCHANGED <<chanVars, phase, flagVars, readerVars, snapVars>>

\* SYSTEM_OFF, a fault or a backend error ends the loop.
PrimaryStops ==
  /\ vpc[Primary] = "guest"
  /\ kicked' = kicked \ {Primary}
  /\ Goto(Primary, "end")
  /\ UNCHANGED <<chanVars, phase, running, gate, yield, stop, readerVars, snapVars>>

\* Mutant: the secondaries are not asked out of the guest.
SnapBeginNoYield ==
  /\ Snapshot
  /\ vpc[Primary] = "enter"
  /\ want' = (Secondaries # {})
  /\ Goto(Primary, "quiesce")
  /\ UNCHANGED <<chanVars, phase, flagVars, readerVars, captured, snap>>

\* The snapshot is due, by its marker or its deadline.
SnapBegin ==
  /\ Snapshot
  /\ vpc[Primary] = "enter"
  /\ want' = (Secondaries # {})
  /\ IF Secondaries # {} THEN SetYield(TRUE) ELSE UNCHANGED yield
  /\ Goto(Primary, "quiesce")
  /\ UNCHANGED <<chanVars, phase, running, gate, stop, kicked, readerVars,
                 captured, snap>>

\* Mutant: RAM is dumped without waiting for the secondaries.
SnapWriteEarly ==
  /\ vpc[Primary] = "quiesce"
  /\ snap' = "written"
  /\ Goto(Primary, "end")
  /\ UNCHANGED <<chanVars, phase, flagVars, readerVars, want, captured>>

\* All registers are in: RAM and device state are written, the VM stops.
SnapWrite ==
  /\ vpc[Primary] = "quiesce"
  /\ captured = Secondaries
  /\ snap' = "written"
  /\ Goto(Primary, "end")
  /\ UNCHANGED <<chanVars, phase, flagVars, readerVars, want, captured>>

\* What keeps a secondary from the barrier for longer than milliseconds: past
\* the deadline the kicker signals again and again.
HeldUp(s) ==
  \/ vpc[s] = "guest" /\ ~Forced(s) /\ ~(Backend = "kvm" /\ Deadline)
  \/ vpc[s] = "gate" /\ gate /\ running
  \/ vpc[s] = "done"

\* Five seconds pass and some secondary has not captured.
SnapTimeout ==
  /\ vpc[Primary] = "quiesce"
  /\ \E s \in Secondaries \ captured : HeldUp(s)
  /\ snap' = "failed"
  /\ Goto(Primary, "end")
  /\ UNCHANGED <<chanVars, phase, flagVars, readerVars, want, captured>>

\* After the loop: tell everyone, then wait for the scoped threads.
PrimaryEnd ==
  /\ vpc[Primary] = "end"
  /\ running' = FALSE
  /\ RequestStop
  /\ Goto(Primary, "join")
  /\ UNCHANGED <<chanVars, phase, gate, yield, readerVars, snapVars>>

Join ==
  /\ vpc[Primary] = "join"
  /\ reader = "done"
  /\ \A s \in Secondaries : vpc[s] = "done"
  /\ phase' = "exited"
  /\ Goto(Primary, "done")
  /\ UNCHANGED <<chanVars, flagVars, readerVars, snapVars>>

\* The snapshot kicker, past the deadline.
Kicker ==
  /\ Snapshot /\ Deadline /\ phase = "run" /\ running
  /\ Kick
  /\ kicked' # kicked
  /\ UNCHANGED <<chanVars, phase, running, gate, yield, stop, vpc, readerVars,
                 snapVars>>

-----------------------------------------------------------------------------
(***************************************************************************)
(* A secondary vcpu: secondary_loop.                                       *)
(***************************************************************************)

Created(s) ==
  /\ phase = "run"
  /\ vpc[s] = "create"
  /\ Goto(s, "top")
  /\ UNCHANGED <<chanVars, phase, flagVars, readerVars, snapVars>>

\* Mutant: a secondary that cannot be created is ignored.
CreateFailedIgnored(s) ==
  /\ phase = "run"
  /\ vpc[s] = "create"
  /\ Goto(s, "done")
  /\ UNCHANGED <<chanVars, phase, flagVars, readerVars, snapVars>>

\* create_vcpu, restore or apply_cpu_template fails.
CreateFailed(s) ==
  /\ phase = "run"
  /\ vpc[s] = "create"
  /\ running' = FALSE
  /\ RequestStop
  /\ Goto(s, "done")
  /\ UNCHANGED <<chanVars, phase, gate, yield, readerVars, snapVars>>

SecondaryTop(s) ==
  /\ vpc[s] = "top"
  /\ running => ~want
  /\ Goto(s, IF running THEN "gate" ELSE "done")
  /\ UNCHANGED <<chanVars, phase, flagVars, readerVars, snapVars>>

\* The barrier is up: deposit the registers, once, and stay at the loop head.
Capture(s) ==
  /\ vpc[s] = "top"
  /\ running /\ want /\ s \notin captured
  /\ captured' = captured \cup {s}
  /\ UNCHANGED <<chanVars, phase, flagVars, vpc, readerVars, want, snap>>

CaptureFailed(s) ==
  /\ vpc[s] = "top"
  /\ running /\ want /\ s \notin captured
  /\ running' = FALSE
  /\ RequestStop
  /\ UNCHANGED <<chanVars, phase, gate, yield, vpc, readerVars, snapVars>>

\* The gate is left when the flag clears, or when the VM stops.
SecondaryGate(s) ==
  /\ vpc[s] = "gate"
  /\ ~gate \/ ~running
  /\ Goto(s, "enter")
  /\ UNCHANGED <<chanVars, phase, flagVars, readerVars, snapVars>>

\* A shutdown, fault or error of a secondary stops the VM.
SecondaryStops(s) ==
  /\ vpc[s] = "guest"
  /\ running' = FALSE
  /\ stop' = IF Backend = "hvf" THEN TRUE ELSE stop
  /\ kicked' = IF Backend = "kvm"
               THEN (kicked \cup {c \in Vcpus : vpc[c] = "guest"}) \ {s} ELSE kicked
  /\ Goto(s, "top")
  /\ UNCHANGED <<chanVars, phase, gate, yield, readerVars, snapVars>>

-----------------------------------------------------------------------------
(***************************************************************************)
(* The control reader.                                                     *)
(***************************************************************************)

ReaderLeaves ==
  /\ phase = "run" /\ reader = "poll" /\ ~running
  /\ reader' = "done"
  /\ UNCHANGED <<chanVars, phase, flagVars, vpc, got, target, snapVars>>

\* Mutant: end of file ends the reader and leaves the VM running.
ReaderEofIgnored ==
  /\ phase = "run" /\ reader = "poll"
  /\ chan = <<>> /\ ~open
  /\ reader' = "done"
  /\ UNCHANGED <<chanVars, phase, flagVars, vpc, got, target, snapVars>>

\* End of file at an opcode: stop the VM.
ReaderEof ==
  /\ phase = "run" /\ reader = "poll"
  /\ chan = <<>> /\ ~open
  /\ running' = FALSE
  /\ SetYield(TRUE)
  /\ Kick
  /\ reader' = "done"
  /\ UNCHANGED <<chanVars, phase, gate, stop, vpc, got, target, snapVars>>

\* Mutant: PAUSE sets the flag and nothing makes the vcpus look at it.
ReadOpcodeNoYield(b) ==
  /\ phase = "run" /\ reader = "poll"
  /\ chan # <<>>
  /\ Head(chan) \in {b, DATA}
  /\ chan' = Tail(chan)
  /\ reader' = IF b = BALLOON THEN "payload" ELSE "poll"
  /\ gate' = IF b = PAUSE THEN TRUE ELSE IF b = RESUME THEN FALSE ELSE gate
  /\ UNCHANGED <<open, sent, listed, released, phase, running, yield, stop,
                 kicked, vpc, got, target, snapVars>>

\* One opcode.  A payload byte in its place may be any value.
ReadOpcode(b) ==
  /\ phase = "run" /\ reader = "poll"
  /\ chan # <<>>
  /\ Head(chan) \in {b, DATA}
  /\ chan' = Tail(chan)
  /\ reader' = IF b = BALLOON THEN "payload" ELSE "poll"
  /\ gate' = IF b = PAUSE THEN TRUE ELSE IF b = RESUME THEN FALSE ELSE gate
  /\ IF b \in {PAUSE, RESUME} THEN SetYield(b = PAUSE) ELSE UNCHANGED yield
  /\ IF b = PAUSE THEN Kick ELSE UNCHANGED kicked
  /\ UNCHANGED <<open, sent, listed, released, phase, running, stop, vpc, got,
                 target, snapVars>>

\* Mutant: the last byte of the payload is left in the channel.
ReadPayloadShort ==
  /\ phase = "run" /\ reader = "payload"
  /\ chan # <<>>
  /\ chan' = Tail(chan)
  /\ LET last == got + 2 = PayloadLen
     IN  /\ got' = IF last THEN 0 ELSE got + 1
         /\ reader' = IF last THEN "poll" ELSE "payload"
  /\ UNCHANGED <<open, sent, listed, released, phase, flagVars, vpc, target, snapVars>>

\* The payload, byte by byte, in blocking reads that look at no flag.
ReadPayload ==
  /\ phase = "run" /\ reader = "payload"
  /\ chan # <<>>
  /\ chan' = Tail(chan)
  /\ LET last == got + 1 = PayloadLen
         bad == target = "garbled" \/ Head(chan) # DATA
     IN  /\ got' = IF last THEN 0 ELSE got + 1
         /\ reader' = IF last THEN "poll" ELSE "payload"
         /\ target' = IF bad THEN "garbled" ELSE IF last THEN "sent" ELSE target
  /\ UNCHANGED <<open, sent, listed, released, phase, flagVars, vpc, snapVars>>

\* End of file inside a payload ends the reader, and nothing else.
PayloadEof ==
  /\ phase = "run" /\ reader = "payload"
  /\ chan = <<>> /\ ~open
  /\ reader' = "done"
  /\ UNCHANGED <<chanVars, phase, flagVars, vpc, got, target, snapVars>>

-----------------------------------------------------------------------------
Amberd == (\E k \in Frames : ControlOp(k)) \/ Release \/ Hangup

PrimaryStep ==
  \/ PrimaryTop \/ PrimaryGate \/ EnterGuest(Primary) \/ ForcedExit(Primary)
  \/ SnapWrite \/ SnapTimeout \/ PrimaryEnd \/ Join

SecondaryStep(s) ==
  \/ Created(s) \/ SecondaryTop(s) \/ Capture(s) \/ SecondaryGate(s)
  \/ EnterGuest(s) \/ ForcedExit(s)

Reader ==
  \/ GateOpens \/ ReaderLeaves \/ ReaderEof
  \/ \E b \in {BALLOON, PAUSE, RESUME, UNKNOWN} : ReadOpcode(b)
  \/ ReadPayload \/ PayloadEof

\* What the guest and the host do of their own accord.
Guest ==
  \/ \E c \in Vcpus : GuestExit(c)
  \/ PrimaryStops
  \/ SnapBegin
  \/ \E s \in Secondaries : SecondaryStops(s) \/ CreateFailed(s) \/ CaptureFailed(s)

Next ==
  \/ Amberd \/ PrimaryStep
  \/ \E s \in Secondaries : SecondaryStep(s)
  \/ Reader \/ Kicker \/ Guest

Spec == Init /\ [][Next]_vars

\* The worker's threads run, a forced exit happens, and waits with a timeout
\* end; clients, the guest and failures owe nothing.
Fairness ==
  /\ WF_vars(PrimaryStep)
  /\ \A s \in Secondaries : WF_vars(SecondaryStep(s))
  /\ WF_vars(Reader) /\ WF_vars(Kicker)

FairSpec == Spec /\ Fairness

-----------------------------------------------------------------------------
(***************************************************************************)
(* Properties.                                                             *)
(***************************************************************************)

\* Every variable has its type.
TypeOK ==
  /\ chan \in Seq({DATA, BALLOON, PAUSE, RESUME})
  /\ {open, listed, released, running, gate, yield, stop, want} \subseteq BOOLEAN
  /\ sent \in 0..MaxFrames
  /\ phase \in {"gated", "run", "exited"}
  /\ kicked \subseteq Vcpus
  /\ vpc \in [Vcpus -> {"create", "top", "gate", "enter", "guest", "quiesce",
                        "end", "join", "done"}]
  /\ reader \in {"poll", "payload", "done"}
  /\ got \in 0..(PayloadLen - 1)
  /\ target \in {"none", "sent", "garbled"}
  /\ captured \subseteq Secondaries
  /\ snap \in {"none", "written", "failed"}

\* A snapshot is of one moment: from its capture on no secondary runs guest
\* code again, and the snapshot is written with every secondary captured.
SnapshotConsistent ==
  /\ \A s \in captured : vpc[s] \in {"top", "done"}
  /\ snap = "written" => captured = Secondaries /\ vpc[Primary] # "guest"

\* With no control frame in play a snapshot gives up waiting only for a VM that
\* is being stopped: a secondary that goes on running reaches the barrier.
SnapshotSucceeds ==
  snap = "failed" /\ vpc[Primary] = "end" /\ sent = 0 => ~running

\* The state has its types, and the reader takes opcodes for opcodes and payloads
\* for payloads.
FramesIntact ==
  /\ TypeOK
  /\ phase = "run" /\ reader = "poll" /\ chan # <<>> => Head(chan) # DATA
  /\ target # "garbled"

Frozen == \A c \in Vcpus : vpc[c] \notin {"enter", "guest"}

\* A VM becomes what it is listed as: one that stays listed as paused is frozen
\* from some time on, one that stays listed as not paused is not held at the gate.
ListedIsTrue ==
  /\ <>[]listed => <>[](Frozen \/ ~running)
  /\ <>[]~listed => <>[](~gate \/ ~running)

\* A stop, whoever asked for it (the guest, a failed secondary) and the close of
\* the control channel take every thread with them and the worker exits, unless
\* the VM stays paused for ever.
StopJoins == []<>~gate => ((~running \/ (HasControl /\ ~open)) ~> phase = "exited")

\* A worker whose control channel was closed exits, paused or not.
HangupExits == HasControl /\ ~open ~> phase = "exited"
=============================================================================
