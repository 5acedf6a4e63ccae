-------------------------------- MODULE SwGic --------------------------------
(***************************************************************************)
(* The software GICv2 of the HVF backend (gicv2.rs) and how its interrupts *)
(* get to the vcpus (lib.rs): swgic_prep before every entry to the guest,  *)
(* the guest's accesses to the distributor and to its cpu interface, the   *)
(* forced exits, and PSCI CPU_ON, which starts the parked secondaries.     *)
(*                                                                         *)
(* The controller is one mutex, so each access is one step.  Interrupt ids *)
(* are numbered as in the code: SGIs from 0, PPIs up to PRIVATE, SPIs above.*)
(***************************************************************************)
EXTENDS Integers, Sequences

CONSTANTS
  CPUS,        \* number of cpus
  SGIS,        \* number of SGIs, 16 in the code
  PRIVATE,     \* number of private ids, 32 in the code
  NUM_INTID,   \* number of ids, 256 in the code
  IDLE_PRIO,   \* the lowest priority, 0xff in the code
  MaxEvents,   \* bound: SGIs posted, timer ticks and device interrupts
  MaxWrites    \* bound: guest writes that change the configuration

ASSUME GicAssumption ==
  /\ {CPUS, SGIS, PRIVATE, NUM_INTID, IDLE_PRIO, MaxEvents, MaxWrites} \subseteq Nat
  /\ 0 < CPUS /\ SGIS < PRIVATE /\ PRIVATE < NUM_INTID /\ 0 < IDLE_PRIO

Cpus == 0..(CPUS - 1)
Private == 0..(PRIVATE - 1)
Spis == PRIVATE..(NUM_INTID - 1)
IntIds == Private \cup Spis
Prios == 0..IDLE_PRIO
VTIMER == PRIVATE - 1
SPURIOUS == NUM_INTID

\* Where the state of an id is: banked per cpu for private ids, else shared.
Shared == CPUS
At(c, i) == IF i < PRIVATE THEN <<c, i>> ELSE <<Shared, i>>
Keys == (Cpus \X Private) \cup ({Shared} \X Spis)

VARIABLES
  dist_enabled, cpu_enabled, pmr, running,            \* per cpu but the first
  enabled, pending, active, priority, level, edge,    \* per key
  targets,    \* targets[i]: the cpus an SPI is routed to
  sgi_src,    \* sgi_src[c][s]: who posted SGI s to c last
  cpu_on,     \* the PSCI state of each cpu
  vcpu,       \* a cpu's thread: parked, out of the guest, in it, or in it with
              \* the IRQ line raised
  due,        \* cpus whose virtual timer has fired
  handling,   \* handling[c]: what the guest acknowledged and has not ended
  events,     \* events left
  writes      \* configuration writes left

config == <<dist_enabled, cpu_enabled, pmr, enabled, priority, edge, targets>>
lines == <<pending, active, level, running, sgi_src>>
threads == <<cpu_on, vcpu>>
vars == <<config, lines, threads, due, handling, events, writes>>

\* The guest's driver has set the controller up; cpu 0 has booted.
Init ==
  /\ dist_enabled = TRUE
  /\ cpu_enabled = [c \in Cpus |-> TRUE]
  /\ pmr = [c \in Cpus |-> IDLE_PRIO]
  /\ running = [c \in Cpus |-> <<>>]
  /\ enabled = [k \in Keys |-> TRUE]
  /\ pending = [k \in Keys |-> FALSE]
  /\ active = [k \in Keys |-> FALSE]
  /\ priority = [k \in Keys |-> IDLE_PRIO - 1]
  /\ level = [k \in Keys |-> FALSE]
  /\ edge = [k \in Keys |-> k[2] < SGIS]
  /\ targets = [i \in Spis |-> Cpus]
  /\ sgi_src = [c \in Cpus |-> [s \in 0..(SGIS - 1) |-> 0]]
  /\ cpu_on = [c \in Cpus |-> IF c = 0 THEN "on" ELSE "off"]
  /\ vcpu = [c \in Cpus |-> IF c = 0 THEN "out" ELSE "parked"]
  /\ due = {}
  /\ handling = [c \in Cpus |-> <<>>]
  /\ events = MaxEvents /\ writes = MaxWrites

-----------------------------------------------------------------------------
(***************************************************************************)
(* What is deliverable.                                                    *)
(***************************************************************************)

\* is_pending: the latch of an edge interrupt, the line of a level one, at a
\* cpu the interrupt is routed to.
IsPending(c, i) ==
  /\ i \in Spis => c \in targets[i]
  /\ IF edge[At(c, i)] THEN pending[At(c, i)] ELSE level[At(c, i)]

RunningPrio(c) ==
  IF running[c] = <<>> THEN IDLE_PRIO ELSE running[c][Len(running[c])]

\* Mutant: an interrupt preempts its own priority.
DeliverableEqual(c) ==
  {i \in IntIds : /\ dist_enabled
                  /\ enabled[At(c, i)] /\ ~active[At(c, i)] /\ IsPending(c, i)
                  /\ priority[At(c, i)] < pmr[c]
                  /\ priority[At(c, i)] <= RunningPrio(c)}

\* Mutant: an active interrupt is offered again.
DeliverableActive(c) ==
  {i \in IntIds : /\ dist_enabled
                  /\ enabled[At(c, i)] /\ IsPending(c, i)
                  /\ priority[At(c, i)] < pmr[c]
                  /\ priority[At(c, i)] < RunningPrio(c)}

\* The ids that highest_pending chooses among.
Deliverable(c) ==
  {i \in IntIds : /\ dist_enabled
                  /\ enabled[At(c, i)] /\ ~active[At(c, i)] /\ IsPending(c, i)
                  /\ priority[At(c, i)] < pmr[c]
                  /\ priority[At(c, i)] < RunningPrio(c)}

\* The lower priority value wins, then the lower id.
HighestPending(c) ==
  IF Deliverable(c) = {} THEN SPURIOUS
  ELSE CHOOSE i \in Deliverable(c) :
         \A j \in Deliverable(c) :
           \/ priority[At(c, i)] < priority[At(c, j)]
           \/ priority[At(c, i)] = priority[At(c, j)] /\ i <= j

IrqPending(c) == cpu_enabled[c] /\ Deliverable(c) # {}

-----------------------------------------------------------------------------
(***************************************************************************)
(* The thread of a vcpu.                                                   *)
(***************************************************************************)

\* swgic_prep and the entry: the timer's line follows the timer, and the IRQ
\* line is raised if something is deliverable.
Enter(c) ==
  /\ vcpu[c] = "out"
  /\ level' = [level EXCEPT ![At(c, VTIMER)] = c \in due]
  /\ edge' = [edge EXCEPT ![At(c, VTIMER)] = FALSE]
  /\ UNCHANGED <<dist_enabled, cpu_enabled, pmr, enabled, priority, targets, pending,
                 active, running, sgi_src, cpu_on, due, handling, events, writes>>
  /\ vcpu' = [vcpu EXCEPT ![c] = IF IrqPending(c)' THEN "irq" ELSE "in"]

InGuest(c) == vcpu[c] \in {"in", "irq"}

\* The guest accesses a register: the vcpu leaves, which clears its IRQ line,
\* and prepares again.
Traps(c) == InGuest(c) /\ vcpu' = [vcpu EXCEPT ![c] = "out"]

\* Mutant: a forced exit goes back without another look at the controller.
CancelResumes(c) == InGuest(c) /\ UNCHANGED vars

\* The preemption thread forces the vcpu out; or the guest waits for an
\* interrupt and its park ends.
Cancel(c) ==
  /\ Traps(c)
  /\ UNCHANGED <<config, lines, cpu_on, due, handling, events, writes>>

\* A parked secondary finds the entry point posted for it.
Start(c) ==
  /\ vcpu[c] = "parked" /\ cpu_on[c] = "posted"
  /\ cpu_on' = [cpu_on EXCEPT ![c] = "on"]
  /\ vcpu' = [vcpu EXCEPT ![c] = "out"]
  /\ UNCHANGED <<config, lines, due, handling, events, writes>>

\* Bounds.
Event == events > 0 /\ events' = events - 1 /\ UNCHANGED writes
Write == writes > 0 /\ writes' = writes - 1 /\ UNCHANGED events

\* Mutant: the target's slot says on before its thread has the entry point.
CpuOnUnposted(c, t) ==
  /\ Traps(c)
  /\ cpu_on' = IF t \in Cpus /\ cpu_on[t] = "off"
               THEN [cpu_on EXCEPT ![t] = "on"] ELSE cpu_on
  /\ UNCHANGED <<config, lines, due, handling, events, writes>>

\* PSCI CPU_ON: posted to a cpu that is off; else ALREADY_ON, or
\* INVALID_PARAMETERS where there is no such cpu, and no change.
CpuOn(c, t) ==
  /\ Traps(c)
  /\ cpu_on' = IF t \in Cpus /\ cpu_on[t] = "off"
               THEN [cpu_on EXCEPT ![t] = "posted"] ELSE cpu_on
  /\ UNCHANGED <<config, lines, due, handling, events, writes>>

-----------------------------------------------------------------------------
(***************************************************************************)
(* The guest at its cpu interface.                                         *)
(***************************************************************************)

\* Mutant: the acknowledgement leaves the latch.
AcknowledgeLatched(c) ==
  LET i == HighestPending(c)
      k == At(c, i)
  IN  /\ Traps(c)
      /\ IF i = SPURIOUS THEN UNCHANGED <<active, running, handling>>
         ELSE /\ active' = [active EXCEPT ![k] = TRUE]
              /\ running' = [running EXCEPT ![c] = Append(@, priority[k])]
              /\ handling' = [handling EXCEPT ![c] =
                                Append(@, [id |-> i, served |-> i < SGIS])]
      /\ UNCHANGED <<config, pending, level, sgi_src, cpu_on, due, events, writes>>

\* The guest reads GICC_IAR, whether or not it still has an interrupt to take.
Acknowledge(c) ==
  LET i == HighestPending(c)
      k == At(c, i)
  IN  /\ Traps(c)
      /\ IF i = SPURIOUS THEN UNCHANGED <<active, pending, running, handling>>
         ELSE /\ active' = [active EXCEPT ![k] = TRUE]
              /\ pending' = [pending EXCEPT ![k] = @ /\ ~edge[k]]
              /\ running' = [running EXCEPT ![c] = Append(@, priority[k])]
              /\ handling' = [handling EXCEPT ![c] =
                                Append(@, [id |-> i, served |-> i < SGIS])]
      /\ UNCHANGED <<config, level, sgi_src, cpu_on, due, events, writes>>

\* Cpu c has acknowledged i and not ended it.
Handles(c, i) == \E n \in 1..Len(handling[c]) : handling[c][n].id = i

\* Some cpu handles what c knows as i.
InHand(c, i) == \E d \in Cpus : At(d, i) = At(c, i) /\ Handles(d, i)

Top(c) == handling[c][Len(handling[c])]

\* The handler services its source: the timer is set again, or the device's
\* registers are accessed and it lowers its line.
Serve(c) ==
  /\ Traps(c)
  /\ handling[c] # <<>> /\ ~Top(c).served
  /\ handling' = [handling EXCEPT ![c][Len(handling[c])].served = TRUE]
  /\ IF Top(c).id = VTIMER
     THEN due' = due \ {c} /\ UNCHANGED <<level, edge>>
     ELSE /\ level' = [level EXCEPT ![At(c, Top(c).id)] = FALSE]
          /\ edge' = [edge EXCEPT ![At(c, Top(c).id)] = FALSE]
          /\ UNCHANGED due
  /\ UNCHANGED <<dist_enabled, cpu_enabled, pmr, enabled, priority, targets, pending,
                 active, running, sgi_src, cpu_on, events, writes>>

\* Mutant: what came in while the interrupt was handled is dropped.
EoiDropsPending(c) ==
  /\ Traps(c)
  /\ handling[c] # <<>> /\ Top(c).served
  /\ active' = [active EXCEPT ![At(c, Top(c).id)] = FALSE]
  /\ pending' = [pending EXCEPT ![At(c, Top(c).id)] = FALSE]
  /\ running' = [running EXCEPT ![c] = SubSeq(@, 1, Len(@) - 1)]
  /\ handling' = [handling EXCEPT ![c] = SubSeq(@, 1, Len(@) - 1)]
  /\ UNCHANGED <<config, level, sgi_src, cpu_on, due, events, writes>>

\* GICC_EOIR for the innermost interrupt.
Eoi(c) ==
  /\ Traps(c)
  /\ handling[c] # <<>> /\ Top(c).served
  /\ active' = [active EXCEPT ![At(c, Top(c).id)] = FALSE]
  /\ running' = [running EXCEPT ![c] = SubSeq(@, 1, Len(@) - 1)]
  /\ handling' = [handling EXCEPT ![c] = SubSeq(@, 1, Len(@) - 1)]
  /\ UNCHANGED <<config, pending, level, sgi_src, cpu_on, due, events, writes>>

WriteCpuCtlr(c, b) ==
  /\ Traps(c) /\ Write
  /\ cpu_enabled' = [cpu_enabled EXCEPT ![c] = b]
  /\ UNCHANGED <<dist_enabled, pmr, enabled, priority, edge, targets, lines, cpu_on,
                 due, handling>>

WritePmr(c, p) ==
  /\ Traps(c) /\ Write
  /\ pmr' = [pmr EXCEPT ![c] = p]
  /\ UNCHANGED <<dist_enabled, cpu_enabled, enabled, priority, edge, targets, lines,
                 cpu_on, due, handling>>

-----------------------------------------------------------------------------
(***************************************************************************)
(* The guest at the distributor.                                           *)
(***************************************************************************)

WriteCtlr(c, b) ==
  /\ Traps(c) /\ Write
  /\ dist_enabled' = b
  /\ UNCHANGED <<cpu_enabled, pmr, enabled, priority, edge, targets, lines, cpu_on,
                 due, handling>>

\* ISENABLER and ICENABLER.
WriteEnable(c, i, b) ==
  /\ Traps(c) /\ Write
  /\ enabled' = [enabled EXCEPT ![At(c, i)] = b]
  /\ UNCHANGED <<dist_enabled, cpu_enabled, pmr, priority, edge, targets, lines,
                 cpu_on, due, handling>>

\* ISPENDR and ICPENDR.
WritePending(c, i, b) ==
  /\ Traps(c) /\ Write
  /\ pending' = [pending EXCEPT ![At(c, i)] = b]
  /\ UNCHANGED <<config, active, level, running, sgi_src, cpu_on, due, handling>>

\* ISACTIVER and ICACTIVER, which a guest keeps off interrupts being handled.
WriteActive(c, i, b) ==
  /\ Traps(c) /\ Write
  /\ ~InHand(c, i)
  /\ active' = [active EXCEPT ![At(c, i)] = b]
  /\ UNCHANGED <<config, pending, level, running, sgi_src, cpu_on, due, handling>>

WritePriority(c, i, p) ==
  /\ Traps(c) /\ Write
  /\ priority' = [priority EXCEPT ![At(c, i)] = p]
  /\ UNCHANGED <<dist_enabled, cpu_enabled, pmr, enabled, edge, targets, lines,
                 cpu_on, due, handling>>

\* ITARGETSR: SPIs only, and only cpus there are.
WriteTargets(c, i, t) ==
  /\ Traps(c) /\ Write
  /\ targets' = [targets EXCEPT ![i] = t \cap Cpus]
  /\ UNCHANGED <<dist_enabled, cpu_enabled, pmr, enabled, priority, edge, lines,
                 cpu_on, due, handling>>

\* ICFGR: SGIs stay edge-triggered.
WriteConfig(c, i, e) ==
  /\ Traps(c) /\ Write
  /\ i >= SGIS
  /\ edge' = [edge EXCEPT ![At(c, i)] = e]
  /\ UNCHANGED <<dist_enabled, cpu_enabled, pmr, enabled, priority, targets, lines,
                 cpu_on, due, handling>>

\* GICD_SGIR: post an SGI to the cpus t, and kick every vcpu.
Sgir(c, s, t) ==
  /\ InGuest(c) /\ Event
  /\ pending' = [k \in Keys |-> pending[k] \/ (k[1] \in t /\ k[2] = s)]
  /\ sgi_src' = [d \in Cpus |-> IF d \in t THEN [sgi_src[d] EXCEPT ![s] = c]
                                          ELSE sgi_src[d]]
  /\ vcpu' = [d \in Cpus |-> IF InGuest(d) THEN "out" ELSE vcpu[d]]
  /\ UNCHANGED <<config, active, level, running, cpu_on, due, handling>>

-----------------------------------------------------------------------------
(***************************************************************************)
(* Sources.                                                                *)
(***************************************************************************)

\* set_irq: a device raises its line.
Raise(i) ==
  /\ Event
  /\ level' = [level EXCEPT ![At(0, i)] = TRUE]
  /\ edge' = [edge EXCEPT ![At(0, i)] = FALSE]
  /\ UNCHANGED <<dist_enabled, cpu_enabled, pmr, enabled, priority, targets, pending,
                 active, running, sgi_src, threads, due, handling>>

\* The virtual timer of a cpu fires.
Tick(c) ==
  /\ Event
  /\ due' = due \cup {c}
  /\ UNCHANGED <<config, lines, threads, handling>>

-----------------------------------------------------------------------------
Setup(c) ==
  \/ \E b \in BOOLEAN : WriteCpuCtlr(c, b) \/ WriteCtlr(c, b)
  \/ \E p \in Prios : WritePmr(c, p) \/ \E i \in IntIds : WritePriority(c, i, p)
  \/ \E i \in IntIds, b \in BOOLEAN :
       \/ WriteEnable(c, i, b) \/ WritePending(c, i, b)
       \/ WriteActive(c, i, b) \/ WriteConfig(c, i, b)
  \/ \E i \in Spis, t \in SUBSET (0..CPUS) : WriteTargets(c, i, t)

Next ==
  \/ \E c \in Cpus : \/ Enter(c) \/ Cancel(c) \/ Start(c)
                     \/ Acknowledge(c) \/ Serve(c) \/ Eoi(c) \/ Tick(c) \/ Setup(c)
                     \/ \E t \in 0..CPUS : CpuOn(c, t)
                     \/ \E s \in 0..(SGIS - 1), t \in SUBSET Cpus : Sgir(c, s, t)
  \/ \E i \in Spis : Raise(i)

Spec == Init /\ [][Next]_vars

\* The guest at its interrupts: it takes one, serves it or ends it.
Handler(c) == (vcpu[c] = "irq" /\ Acknowledge(c)) \/ Serve(c) \/ Eoi(c)

\* The threads run, the preemption thread keeps forcing exits, and a guest that
\* is entered again and again gets on with its interrupts.
Fairness ==
  \A c \in Cpus : /\ WF_vars(Enter(c)) /\ WF_vars(Cancel(c)) /\ WF_vars(Start(c))
                  /\ SF_vars(Handler(c))

FairSpec == Spec /\ Fairness

-----------------------------------------------------------------------------
(***************************************************************************)
(* Properties.                                                             *)
(***************************************************************************)

Handlers == [id : IntIds, served : BOOLEAN]

\* Every variable has its type.
TypeOK ==
  /\ dist_enabled \in BOOLEAN /\ cpu_enabled \in [Cpus -> BOOLEAN]
  /\ pmr \in [Cpus -> Prios] /\ running \in [Cpus -> Seq(Prios)]
  /\ {enabled, pending, active, level, edge} \subseteq [Keys -> BOOLEAN]
  /\ priority \in [Keys -> Prios]
  /\ targets \in [Spis -> SUBSET Cpus]
  /\ sgi_src \in [Cpus -> [0..(SGIS - 1) -> Cpus]]
  /\ cpu_on \in [Cpus -> {"off", "posted", "on"}]
  /\ vcpu \in [Cpus -> {"parked", "out", "in", "irq"}]
  /\ due \subseteq Cpus
  /\ handling \in [Cpus -> Seq(Handlers)]
  /\ events \in 0..MaxEvents /\ writes \in 0..MaxWrites

\* An interrupt routed to several cpus is handled by one of them at a time, and
\* never nested in itself: acknowledge marks it active for all.
HandledOnce ==
  \A i \in IntIds, c, d \in Cpus :
    /\ Handles(c, i) /\ Handles(d, i) /\ i \in Spis => c = d
    /\ Handles(c, i) => active[At(c, i)]
    /\ \A m, n \in 1..Len(handling[c]) :
         handling[c][m].id = handling[c][n].id => m = n

\* The running-priority stack mirrors the handlers: each interrupt preempted
\* one of strictly lower priority, and the stack empties with the last EOI.
PreemptsStrictly ==
  \A c \in Cpus :
    /\ Len(running[c]) = Len(handling[c])
    /\ \A m, n \in 1..Len(running[c]) : m < n => running[c][n] < running[c][m]

\* Interrupt i can get to cpu c as things are set up.
WiredTo(c, i) ==
  /\ vcpu[c] # "parked" /\ dist_enabled /\ cpu_enabled[c] /\ enabled[At(c, i)]
  /\ priority[At(c, i)] < pmr[c]
  /\ active[At(c, i)] => InHand(c, i)

\* A device that raises its line is served in the end, on some cpu, although
\* set_irq wakes nobody: a forced exit is enough.
DevicesServed ==
  \A i \in Spis :
    (\E c \in Cpus : <>[](WiredTo(c, i) /\ c \in targets[i] /\ ~edge[At(c, i)]))
      => []<>~level[At(0, i)]

\* An SGI is taken by every cpu it was posted to, even one that was posted
\* while the same SGI was being handled there.
SgisHeard ==
  \A c \in Cpus, s \in 0..(SGIS - 1) :
    <>[]WiredTo(c, s) => []<>~pending[At(c, s)]

\* A posted SGI goes away only by being taken on the cpu it was posted to, or by
\* the guest's own write: not by the end of an earlier one.
SgiTaken ==
  [][\A c \in Cpus, s \in 0..(SGIS - 1) :
       pending[At(c, s)] /\ ~pending'[At(c, s)] =>
         \/ writes' # writes
         \/ Handles(c, s)' /\ ~Handles(c, s)]_vars

\* A cpu that CPU_ON and AFFINITY_INFO report as on does start.
CpuOnStarts == \A c \in Cpus : []<>(cpu_on[c] # "off" => vcpu[c] # "parked")
=============================================================================
