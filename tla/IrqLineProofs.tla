---------------------------- MODULE IrqLineProofs ----------------------------
(***************************************************************************)
(* Proofs about module IrqLine, for any number of vcpus.                   *)
(***************************************************************************)
EXTENDS IrqLine, TLAPS

\* Leaves are for Zenon; those for the SMT solver say so.
USE ZenonT(60)

\* While a thread is inside a device, the level it computed is the one that
\* the line must have when it leaves.
UartInv ==
  /\ uart = Nobody => line["uart"] = (ris /\ imsc)
  /\ uart # Nobody => level[uart] = (ris /\ imsc)

BalloonInv ==
  /\ virtio = Nobody /\ used => line["balloon"]
  /\ virtio # Nobody /\ used => level[virtio]

IrqInv == TypeOK /\ UartInv /\ BalloonInv

\* A vcpu's access to the UART.
LEMMA UartAccessInv ==
  ASSUME IrqInv, NEW c \in Vcpus, NEW a, UartAccess(c, a)
  PROVE  IrqInv'
  <1> USE DEF IrqInv
  <1>1. TypeOK'
    <2>1. rx' \in 0..MaxRx
      BY IrqAssumption, SMTT(60) DEF TypeOK, UartAccess
    <2>2. ris' \in BOOLEAN /\ imsc' \in BOOLEAN
      BY DEF TypeOK, UartAccess
    <2> QED
      BY <2>1, <2>2 DEF TypeOK, UartAccess, balloonVars, Threads
  <1>2. level'[c] = (ris' /\ imsc')
    BY DEF TypeOK, UartAccess, Threads
  <1>3. UartInv'
    BY <1>2, IrqAssumption, SMTT(60) DEF UartInv, UartAccess
  <1>4. BalloonInv'
    BY DEF TypeOK, BalloonInv, UartAccess, Free, balloonVars, Threads
  <1> QED
    BY <1>1, <1>3, <1>4

\* A vcpu's access to the balloon.
LEMMA BalloonAccessInv ==
  ASSUME IrqInv, NEW c \in Vcpus, NEW a, BalloonAccess(c, a)
  PROVE  IrqInv'
  <1> USE DEF IrqInv
  <1>1. TypeOK'
    <2>1. used' \in BOOLEAN /\ dirty' \in BOOLEAN
      BY DEF BalloonAccess
    <2> QED
      BY <2>1 DEF TypeOK, BalloonAccess, uartVars, Threads
  <1>2. level'[c] = (used' \/ dirty')
    BY DEF TypeOK, BalloonAccess, Threads
  <1>3. UartInv'
    BY DEF TypeOK, UartInv, BalloonAccess, Free, uartVars, Threads
  <1>4. BalloonInv'
    BY <1>2, IrqAssumption DEF BalloonInv, BalloonAccess
  <1> QED
    BY <1>1, <1>3, <1>4

\* Every step.
LEMMA NextIrqInv == IrqInv /\ [Next]_vars => IrqInv'
  <1> SUFFICES ASSUME IrqInv, [Next]_vars PROVE IrqInv'
    OBVIOUS
  <1> USE IrqAssumption DEF IrqInv, TypeOK, UartInv, BalloonInv, uartVars,
          balloonVars, Threads, Devices
  <1>1. CASE ConsoleRead
    BY <1>1, SMTT(60) DEF ConsoleRead
  <1>2. CASE MoveTarget
    BY <1>2, SMTT(60) DEF MoveTarget
  <1>3. CASE RaiseLine
    BY <1>3 DEF RaiseLine
  <1>4. ASSUME NEW th \in Threads, UartApply(th) PROVE IrqInv'
    BY <1>4 DEF UartApply
  <1>5. ASSUME NEW c \in Vcpus, BalloonApply(c) PROVE IrqInv'
    BY <1>5 DEF BalloonApply
  <1>6. CASE UNCHANGED vars
    BY <1>6 DEF vars
  <1> QED
    BY <1>1, <1>2, <1>3, <1>4, <1>5, <1>6, UartAccessInv, BalloonAccessInv
       DEF Next

\* The initial state.
LEMMA InitIrqInv == Init => IrqInv
  <1> SUFFICES ASSUME Init PROVE IrqInv
    OBVIOUS
  <1>1. TypeOK
    <2>1. rx \in 0..MaxRx /\ targets \in 0..MaxTargets
      BY IrqAssumption, SMTT(60) DEF Init
    <2>2. level \in [Threads -> BOOLEAN] /\ line \in [Devices -> BOOLEAN]
      BY DEF Init
    <2> QED
      BY <2>1, <2>2 DEF Init, TypeOK
  <1>2. line["uart"] = FALSE
    BY DEF Init, Devices
  <1>3. UartInv
    BY <1>2 DEF Init, UartInv
  <1>4. BalloonInv
    BY DEF Init, BalloonInv
  <1> QED
    BY <1>1, <1>3, <1>4 DEF IrqInv

\* The guards that dispatch_mmio and console_reader hold across access and
\* set_irq keep the UART's line right for any number of vcpus.
THEOREM UartLineIsCurrent == Spec => []UartLineCurrent
  <1>1. IrqInv => UartLineCurrent
    BY DEF IrqInv, UartInv, UartLineCurrent
  <1> QED
    BY <1>1, InitIrqInv, NextIrqInv, PTL DEF Spec

\* A completed balloon buffer keeps the line up until it is acknowledged,
\* although the control reader drives the same line without the mutex.
THEOREM CompletionsAreSeen == Spec => []CompletionKeepsLine
  <1>1. IrqInv => CompletionKeepsLine
    BY DEF IrqInv, BalloonInv, CompletionKeepsLine
  <1> QED
    BY <1>1, InitIrqInv, NextIrqInv, PTL DEF Spec
=============================================================================
