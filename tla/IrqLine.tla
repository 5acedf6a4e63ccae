------------------------------- MODULE IrqLine -------------------------------
(***************************************************************************)
(* The interrupt lines of the devices of one VM.  A line is a level that   *)
(* threads compute from the device and then apply to the interrupt         *)
(* controller: vcpu threads after an MMIO access (dispatch_mmio), the      *)
(* console reader after pushing input into the UART, and the control       *)
(* reader when amberd moves the balloon target.                            *)
(*                                                                         *)
(* Locking a device, accessing it and computing its level is one step;     *)
(* applying the level and unlocking is the next.                           *)
(***************************************************************************)
EXTENDS Naturals

CONSTANTS
  Vcpus,      \* the threads that take MMIO exits
  Console,    \* the console reader thread
  Nobody,     \* nobody holds the lock
  MaxRx,      \* bound: bytes in the UART's receive queue
  MaxTargets  \* bound: how often amberd moves the balloon target

ASSUME IrqAssumption ==
  /\ Console \notin Vcpus /\ Nobody \notin Vcpus /\ Console # Nobody
  /\ MaxRx \in Nat /\ MaxTargets \in Nat

VARIABLES
  uart,     \* the thread that holds the PL011's mutex
  virtio,   \* the thread that holds the mutex of the virtio devices
  rx,       \* length of the UART's receive queue
  ris,      \* whether the UART's receive interrupts are raised
  imsc,     \* whether the guest unmasked them
  used,     \* the balloon's used-buffer bit of interrupt_status
  dirty,    \* the balloon's config_dirty
  targets,  \* how often the target was moved
  raising,  \* whether the control reader is about to raise the line
  level,    \* level[th]: the level thread th computed
  line      \* line[d]: the level of device d at the interrupt controller

uartVars == <<uart, rx, ris, imsc>>
balloonVars == <<virtio, used, dirty, targets, raising>>
vars == <<uartVars, balloonVars, level, line>>

Devices == {"uart", "balloon"}
Threads == Vcpus \cup {Console}

Init ==
  /\ uart = Nobody /\ virtio = Nobody
  /\ rx = 0 /\ ris = FALSE /\ imsc = FALSE
  /\ used = FALSE /\ dirty = FALSE /\ targets = 0 /\ raising = FALSE
  /\ level = [th \in Threads |-> FALSE]
  /\ line = [d \in Devices |-> FALSE]

\* A thread in a device's handler is in no other.
Free(th) == uart # th /\ virtio # th

-----------------------------------------------------------------------------
(***************************************************************************)
(* The UART (bus.rs Pl011).                                                *)
(***************************************************************************)

\* A guest access: a read of DR pops a byte, IMSC is written, ICR clears the
\* raw status, and anything else leaves the interrupt alone.
UartAccess(c, a) ==
  /\ Free(c) /\ uart = Nobody
  /\ uart' = c
  /\ rx' = IF a = "DR" /\ rx > 0 THEN rx - 1 ELSE rx
  /\ ris' = (ris /\ a # "ICR" /\ ~(a = "DR" /\ rx <= 1))
  /\ imsc' = IF a = "mask" THEN FALSE ELSE IF a = "unmask" THEN TRUE ELSE imsc
  /\ level' = [level EXCEPT ![c] = ris' /\ imsc']
  /\ UNCHANGED <<balloonVars, line>>

\* Mutant: the reader pushes input and leaves the line to the next access.
ConsoleReadNoIrq ==
  /\ uart = Nobody /\ rx < MaxRx
  /\ rx' = rx + 1
  /\ ris' = TRUE
  /\ UNCHANGED <<uart, imsc, balloonVars, level, line>>

\* The console reader pushes the bytes it read.
ConsoleRead ==
  /\ uart = Nobody /\ rx < MaxRx
  /\ uart' = Console
  /\ rx' = rx + 1
  /\ ris' = TRUE
  /\ level' = [level EXCEPT ![Console] = imsc]
  /\ UNCHANGED <<imsc, balloonVars, line>>

\* set_irq with the computed level, under the same guard.
UartApply(th) ==
  /\ uart = th
  /\ line' = [line EXCEPT !["uart"] = level[th]]
  /\ uart' = Nobody
  /\ UNCHANGED <<rx, ris, imsc, balloonVars, level>>

-----------------------------------------------------------------------------
(***************************************************************************)
(* The balloon (virtio.rs VirtioMmio and BalloonDevice).                   *)
(***************************************************************************)

\* Mutant: the level is computed before the access.
BalloonAccessStale(c, a) ==
  /\ Free(c) /\ virtio = Nobody
  /\ virtio' = c
  /\ used' = (a = "notify" \/ (used /\ a # "ack_used"))
  /\ dirty' = (dirty /\ a # "ack_config")
  /\ level' = [level EXCEPT ![c] = used \/ dirty]
  /\ UNCHANGED <<uartVars, targets, raising, line>>

\* A guest access: a notify completes buffers, INTERRUPT_ACK clears what it
\* names, and anything else leaves the interrupt alone.
BalloonAccess(c, a) ==
  /\ Free(c) /\ virtio = Nobody
  /\ virtio' = c
  /\ used' = (a = "notify" \/ (used /\ a # "ack_used"))
  /\ dirty' = (dirty /\ a # "ack_config")
  /\ level' = [level EXCEPT ![c] = used' \/ dirty']
  /\ UNCHANGED <<uartVars, targets, raising, line>>

BalloonApply(c) ==
  /\ virtio = c
  /\ line' = [line EXCEPT !["balloon"] = level[c]]
  /\ virtio' = Nobody
  /\ UNCHANGED <<uartVars, used, dirty, targets, raising, level>>

\* control_reader moves the target and marks the configuration changed ...
MoveTarget ==
  /\ ~raising /\ targets < MaxTargets
  /\ targets' = targets + 1
  /\ dirty' = TRUE
  /\ raising' = TRUE
  /\ UNCHANGED <<uartVars, virtio, used, level, line>>

\* ... and then raises the line, without the devices' mutex.
RaiseLine ==
  /\ raising
  /\ raising' = FALSE
  /\ line' = [line EXCEPT !["balloon"] = TRUE]
  /\ UNCHANGED <<uartVars, virtio, used, dirty, targets, level>>

-----------------------------------------------------------------------------
Next ==
  \/ \E c \in Vcpus :
       \/ \E a \in {"DR", "mask", "unmask", "ICR", "other"} : UartAccess(c, a)
       \/ \E a \in {"notify", "ack_used", "ack_config", "other"} : BalloonAccess(c, a)
  \/ ConsoleRead \/ MoveTarget \/ RaiseLine
  \/ \E th \in Threads : UartApply(th)
  \/ \E c \in Vcpus : BalloonApply(c)

Spec == Init /\ [][Next]_vars

-----------------------------------------------------------------------------
(***************************************************************************)
(* Properties.                                                             *)
(***************************************************************************)

\* Every variable has its type.
TypeOK ==
  /\ uart \in Threads \cup {Nobody} /\ virtio \in Vcpus \cup {Nobody}
  /\ rx \in 0..MaxRx /\ targets \in 0..MaxTargets
  /\ ris \in BOOLEAN /\ imsc \in BOOLEAN /\ used \in BOOLEAN
  /\ dirty \in BOOLEAN /\ raising \in BOOLEAN
  /\ level \in [Threads -> BOOLEAN]
  /\ line \in [Devices -> BOOLEAN]

\* Between accesses the UART's line is its level, whichever of the vcpus and
\* the console reader came last: neither overrides the other with a stale one.
UartLineCurrent == uart = Nobody => line["uart"] = (ris /\ imsc)

\* No completion of the balloon is lost: until the guest acknowledges it, the
\* line is up whenever no vcpu is inside the device.
CompletionKeepsLine == virtio = Nobody /\ used => line["balloon"]
=============================================================================
