----------------------------- MODULE SwGicProofs -----------------------------
(***************************************************************************)
(* Proofs about module SwGic, for any number of cpus, ids and priorities:  *)
(* what highest_pending_locked returns is deliverable, an interrupt is     *)
(* handled by one cpu at a time, preemption is strict, and no SGI is lost. *)
(***************************************************************************)
EXTENDS SwGic, SequenceTheorems, WellFoundedInduction, TLAPS

\* Leaves are for Zenon; those for the SMT solver say so.
USE ZenonT(60)

\* A non-empty set of natural numbers has a least element.
LEMMA LeastExists ==
  ASSUME NEW S, S \subseteq Nat, S # {}
  PROVE  \E m \in S : \A n \in S : m <= n
<1>1. PICK m \in S : \A n \in S : ~ (<<n, m>> \in OpToRel(<, Nat))
  BY NatLessThanWellFounded, WFMin
<1>2. ASSUME NEW n \in S  PROVE  m <= n
  <2>1. ~ (<<n, m>> \in OpToRel(<, Nat))
    BY <1>1
  <2> QED
    BY <2>1, SMT DEF OpToRel
<1> QED
  BY <1>2

\* A sequence grown or shrunk at its end.
LEMMA SeqEnds ==
  ASSUME NEW T, NEW s \in Seq(T)
  PROVE  /\ Len(s) \in Nat
         /\ \A n \in 1..Len(s) : s[n] \in T
         /\ \A t \in T : /\ Append(s, t) \in Seq(T)
                         /\ Len(Append(s, t)) = Len(s) + 1
                         /\ \A n \in 1..Len(s) : Append(s, t)[n] = s[n]
                         /\ Append(s, t)[Len(s) + 1] = t
         /\ s # <<>> => /\ Len(s) > 0
                        /\ s[Len(s)] \in T
                        /\ SubSeq(s, 1, Len(s) - 1) \in Seq(T)
                        /\ Len(SubSeq(s, 1, Len(s) - 1)) = Len(s) - 1
                        /\ \A n \in 1..(Len(s) - 1) : SubSeq(s, 1, Len(s) - 1)[n] = s[n]
<1>1. /\ Len(s) \in Nat
      /\ \A n \in 1..Len(s) : s[n] \in T
  BY LenProperties, ElementOfSeq
<1>2. s # <<>> => Len(s) > 0
  BY <1>1, EmptySeq, SMTT(60)
<1>3. s # <<>> => /\ s[Len(s)] \in T
                  /\ SubSeq(s, 1, Len(s) - 1) \in Seq(T)
                  /\ Len(SubSeq(s, 1, Len(s) - 1)) = Len(s) - 1
                  /\ \A n \in 1..(Len(s) - 1) : SubSeq(s, 1, Len(s) - 1)[n] = s[n]
  <2> SUFFICES ASSUME s # <<>>
               PROVE  /\ s[Len(s)] \in T
                      /\ SubSeq(s, 1, Len(s) - 1) \in Seq(T)
                      /\ Len(SubSeq(s, 1, Len(s) - 1)) = Len(s) - 1
                      /\ \A n \in 1..(Len(s) - 1) : SubSeq(s, 1, Len(s) - 1)[n] = s[n]
    OBVIOUS
  <2> DEFINE m == Len(s) - 1
  <2>1. m \in Nat /\ \A n \in 1..m : s[n] \in T
    BY <1>1, <1>2, SMTT(60)
  <2>2. /\ SubSeq(s, 1, m) \in Seq(T)
        /\ Len(SubSeq(s, 1, m)) = IF 1 <= m THEN m - 1 + 1 ELSE 0
        /\ \A n \in 1..(m - 1 + 1) : SubSeq(s, 1, m)[n] = s[1 + n - 1]
    <3> HIDE DEF m
    <3> QED
      BY <2>1, SubSeqProperties, SMTT(60)
  <2>3. s[Len(s)] \in T
    BY <1>1, <1>2, SMTT(60)
  <2> HIDE DEF m
  <2>4. Len(SubSeq(s, 1, m)) = m
    BY <2>1, <2>2, SMTT(60)
  <2>5. ASSUME NEW n \in 1..m  PROVE SubSeq(s, 1, m)[n] = s[n]
    <3>1. n \in 1..(m - 1 + 1) /\ 1 + n - 1 = n
      BY <2>1, SMTT(60)
    <3> QED
      BY <2>2, <3>1
  <2> QED
    BY <2>2, <2>3, <2>4, <2>5 DEF m
<1> QED
  BY <1>1, <1>2, <1>3, AppendProperties, SMTT(60)

\* The state of an id has a place, and only cpus that share it share the place.
LEMMA AtType ==
  ASSUME NEW c \in Cpus, NEW i \in IntIds
  PROVE  /\ At(c, i) \in Keys
         /\ i \in Private \/ i \in Spis
         /\ \A d \in Cpus, j \in IntIds :
              At(c, i) = At(d, j) => i = j /\ (c = d \/ i \in Spis)
<1>1. {CPUS, PRIVATE, NUM_INTID} \subseteq Nat /\ PRIVATE < NUM_INTID /\ 0 < CPUS
  BY GicAssumption
<1>2. i \in Nat /\ (i \in Private <=> i < PRIVATE) /\ (i \in Private \/ i \in Spis)
                 /\ (i \in Spis <=> ~(i < PRIVATE))
  BY <1>1, SMTT(60) DEF Private, Spis, IntIds
<1>3. At(c, i) \in Keys
  BY <1>2 DEF At, Keys
<1>4. ASSUME NEW d \in Cpus, NEW j \in IntIds, At(c, i) = At(d, j)
      PROVE  i = j /\ (c = d \/ i \in Spis)
  BY <1>2, <1>4 DEF At
<1> QED
  BY <1>2, <1>3, <1>4

\* What the cpu interface answers is deliverable, or spurious: where something
\* is deliverable there is a first one by priority and id.
LEMMA HighestIsDeliverable ==
  ASSUME TypeOK, NEW c \in Cpus, HighestPending(c) # SPURIOUS
  PROVE  HighestPending(c) \in Deliverable(c)
<1> DEFINE D == Deliverable(c)
           P == {priority[At(c, i)] : i \in D}
<1>1. D # {} /\ D \subseteq IntIds
  BY DEF HighestPending, Deliverable
<1>2. \A i \in D : i \in Nat /\ priority[At(c, i)] \in Nat
  <2>1. IntIds \subseteq Nat /\ Prios \subseteq Nat
    BY GicAssumption, SMT DEF IntIds, Private, Spis, Prios
  <2> QED
    BY <1>1, <2>1, AtType DEF TypeOK
<1>3. PICK p \in P : \A q \in P : p <= q
  <2>1. P \subseteq Nat /\ P # {}
    BY <1>1, <1>2
  <2> QED
    BY <2>1, LeastExists
<1> DEFINE F == {i \in D : priority[At(c, i)] = p}
<1>4. PICK m \in F : \A n \in F : m <= n
  <2>1. F \subseteq Nat /\ F # {}
    BY <1>2, <1>3
  <2> QED
    BY <2>1, LeastExists
<1>5. \A j \in D : \/ priority[At(c, m)] < priority[At(c, j)]
                   \/ priority[At(c, m)] = priority[At(c, j)] /\ m <= j
  <2> SUFFICES ASSUME NEW j \in D, priority[At(c, j)] # p
               PROVE  p < priority[At(c, j)]
    BY <1>4
  <2>1. p <= priority[At(c, j)] /\ p \in Nat /\ priority[At(c, j)] \in Nat
    BY <1>2, <1>3
  <2> QED
    BY <2>1, SMT
<1> HIDE DEF P, F
<1>6. m \in D
  BY <1>4 DEF F
<1> QED
  BY <1>1, <1>5, <1>6 DEF HighestPending

-----------------------------------------------------------------------------
(***************************************************************************)
(* Types.                                                                  *)
(***************************************************************************)

\* What is needed of the constants.
LEMMA ConstantFacts ==
  /\ 0 \in Cpus /\ VTIMER \in IntIds /\ VTIMER < PRIVATE
  /\ IDLE_PRIO \in Prios /\ IDLE_PRIO - 1 \in Prios
  /\ MaxEvents \in Nat /\ MaxWrites \in Nat
  /\ 0..(SGIS - 1) \subseteq Private /\ Spis \subseteq IntIds /\ Private \subseteq IntIds
  /\ SGIS \in Nat
BY GicAssumption, SMTT(60) DEF Cpus, VTIMER, IntIds, Prios, Private, Spis

\* The starting controller has its types.
LEMMA InitType == Init => TypeOK
<1> SUFFICES ASSUME Init PROVE TypeOK
  OBVIOUS
<1>1. {enabled, pending, active, level} \subseteq [Keys -> BOOLEAN]
  BY DEF Init
<1>2. edge \in [Keys -> BOOLEAN]
  BY SMTT(60) DEF Init
<1>3. /\ pmr \in [Cpus -> Prios] /\ running \in [Cpus -> Seq(Prios)]
      /\ priority \in [Keys -> Prios]
      /\ handling \in [Cpus -> Seq(Handlers)]
      /\ sgi_src \in [Cpus -> [0..(SGIS - 1) -> Cpus]]
      /\ events \in 0..MaxEvents /\ writes \in 0..MaxWrites
  BY ConstantFacts, SMTT(60) DEF Init
<1>4. /\ dist_enabled \in BOOLEAN /\ cpu_enabled \in [Cpus -> BOOLEAN]
      /\ targets \in [Spis -> SUBSET Cpus] /\ due \subseteq Cpus
      /\ cpu_on \in [Cpus -> {"off", "posted", "on"}]
      /\ vcpu \in [Cpus -> {"parked", "out", "in", "irq"}]
  BY DEF Init
<1> QED
  BY <1>1, <1>2, <1>3, <1>4 DEF TypeOK

\* The steps of the vcpu threads keep the types.
LEMMA ThreadsType ==
  ASSUME TypeOK, NEW c \in Cpus,
         \/ Enter(c) \/ Cancel(c) \/ Start(c) \/ Tick(c) \/ \E t \in 0..CPUS : CpuOn(c, t)
  PROVE  TypeOK'
<1>1. CASE Enter(c)
  <2>1. At(c, VTIMER) \in Keys
    BY ConstantFacts, AtType
  <2>2. level' \in [Keys -> BOOLEAN] /\ edge' \in [Keys -> BOOLEAN]
    BY <1>1, <2>1, SMTT(60) DEF Enter, TypeOK
  <2>3. vcpu' \in [Cpus -> {"parked", "out", "in", "irq"}]
    BY <1>1 DEF Enter, TypeOK
  <2>4. UNCHANGED <<dist_enabled, cpu_enabled, pmr, enabled, priority, targets, pending,
                    active, running, sgi_src, cpu_on, due, handling, events, writes>>
    BY <1>1 DEF Enter
  <2> QED
    BY <2>2, <2>3, <2>4, SMTT(60) DEF TypeOK
<1>2. CASE Cancel(c)
  BY <1>2 DEF Cancel, Traps, config, lines, TypeOK
<1>3. CASE Start(c)
  BY <1>3 DEF Start, config, lines, TypeOK
<1>4. CASE Tick(c)
  <2>1. events' \in 0..MaxEvents
    BY <1>4, ConstantFacts, SMTT(60) DEF Tick, Event, TypeOK
  <2> QED
    BY <1>4, <2>1 DEF Tick, Event, config, lines, threads, TypeOK
<1>5. ASSUME NEW t \in 0..CPUS, CpuOn(c, t)  PROVE TypeOK'
  BY <1>5 DEF CpuOn, Traps, config, lines, TypeOK
<1> QED
  BY <1>1, <1>2, <1>3, <1>4, <1>5

\* The guest's interrupt handling keeps the types.
LEMMA HandlersType ==
  ASSUME TypeOK, NEW c \in Cpus, Acknowledge(c) \/ Serve(c) \/ Eoi(c)
  PROVE  TypeOK'
<1>0. handling[c] \in Seq(Handlers) /\ running[c] \in Seq(Prios)
  BY DEF TypeOK
<1>1. CASE Acknowledge(c)
  <2> DEFINE i == HighestPending(c)
             k == At(c, i)
  <2>1. vcpu' \in [Cpus -> {"parked", "out", "in", "irq"}]
    BY <1>1 DEF Acknowledge, Traps, TypeOK
  <2>2. UNCHANGED <<config, level, sgi_src, cpu_on, due, events, writes>>
    BY <1>1 DEF Acknowledge
  <2>3. /\ active' \in [Keys -> BOOLEAN] /\ pending' \in [Keys -> BOOLEAN]
        /\ running' \in [Cpus -> Seq(Prios)] /\ handling' \in [Cpus -> Seq(Handlers)]
    <3>1. CASE i = SPURIOUS
      BY <1>1, <3>1 DEF Acknowledge, TypeOK
    <3>2. CASE i # SPURIOUS
      <4>1. i \in IntIds
        BY <3>2, HighestIsDeliverable DEF Deliverable
      <4>2. k \in Keys
        BY <4>1, AtType
      <4>3. [id |-> i, served |-> i < SGIS] \in Handlers
        BY <4>1, SMTT(60) DEF Handlers
      <4> HIDE DEF i
      <4>4. /\ active' = [active EXCEPT ![k] = TRUE]
            /\ pending' = [pending EXCEPT ![k] = @ /\ ~edge[k]]
            /\ running' = [running EXCEPT ![c] = Append(@, priority[k])]
            /\ handling' = [handling EXCEPT ![c] =
                              Append(@, [id |-> i, served |-> i < SGIS])]
        BY <1>1, <3>2 DEF Acknowledge, i
      <4> HIDE DEF k
      <4>5. active' \in [Keys -> BOOLEAN] /\ pending' \in [Keys -> BOOLEAN]
        BY <4>2, <4>4 DEF TypeOK
      <4>6. running' \in [Cpus -> Seq(Prios)]
        BY <1>0, <4>2, <4>4, SMTT(60) DEF TypeOK
      <4>7. handling' \in [Cpus -> Seq(Handlers)]
        BY <1>0, <4>3, <4>4, SMTT(60) DEF TypeOK
      <4> QED
        BY <4>5, <4>6, <4>7
    <3> QED
      BY <3>1, <3>2
  <2> QED
    BY <2>1, <2>2, <2>3, SMTT(60) DEF config, TypeOK
<1>2. CASE Serve(c)
  <2> DEFINE n == Len(handling[c])
  <2>1. n \in 1..n /\ n \in Nat /\ handling[c][n] \in Handlers
    BY <1>0, <1>2, SMTT(60) DEF Serve
  <2>2. handling' \in [Cpus -> Seq(Handlers)]
    <3> DEFINE h == [handling[c][n] EXCEPT !.served = TRUE]
    <3>1. h \in Handlers
      BY <2>1 DEF Handlers
    <3>2. [handling[c] EXCEPT ![n] = h] \in Seq(Handlers)
      BY <1>0, <2>1, <3>1, ExceptSeq, SMTT(60)
    <3>3. handling' = [handling EXCEPT ![c] = [handling[c] EXCEPT ![n] = h]]
      BY <1>2 DEF Serve
    <3> QED
      BY <3>2, <3>3 DEF TypeOK
  <2>3. At(c, Top(c).id) \in Keys
    BY <2>1, AtType, SMTT(60) DEF Top, Handlers
  <2>4. level' \in [Keys -> BOOLEAN] /\ edge' \in [Keys -> BOOLEAN] /\ due' \subseteq Cpus
    BY <1>2, <2>3 DEF Serve, TypeOK
  <2>5. vcpu' \in [Cpus -> {"parked", "out", "in", "irq"}]
    BY <1>2 DEF Serve, Traps, TypeOK
  <2> QED
    BY <1>2, <2>2, <2>4, <2>5, SMTT(60) DEF Serve, TypeOK
<1>3. CASE Eoi(c)
  <2>1. handling[c] # <<>> /\ Top(c) \in Handlers
    BY <1>0, <1>3, SMTT(60) DEF Eoi, Top
  <2>2. At(c, Top(c).id) \in Keys
    BY <2>1, AtType DEF Handlers
  <2>3. active' \in [Keys -> BOOLEAN]
    BY <1>3, <2>2 DEF Eoi, TypeOK
  <2>4. handling' \in [Cpus -> Seq(Handlers)]
    BY <1>0, <1>3, <2>1, SMTT(60) DEF Eoi, TypeOK
  <2>5. running' \in [Cpus -> Seq(Prios)]
    BY <1>0, <1>3, SMTT(60) DEF Eoi, TypeOK
  <2>6. vcpu' \in [Cpus -> {"parked", "out", "in", "irq"}]
    BY <1>3 DEF Eoi, Traps, TypeOK
  <2> QED
    BY <1>3, <2>3, <2>4, <2>5, <2>6, SMTT(60) DEF Eoi, config, TypeOK
<1> QED
  BY <1>1, <1>2, <1>3

\* The guest's writes to its configuration keep the types.
LEMMA SetupType ==
  ASSUME TypeOK, NEW c \in Cpus, Setup(c)
  PROVE  TypeOK'
<1>0. \A i \in IntIds : At(c, i) \in Keys
  BY AtType
<1>1. ASSUME Traps(c), Write
      PROVE  /\ vcpu' \in [Cpus -> {"parked", "out", "in", "irq"}]
             /\ events' \in 0..MaxEvents /\ writes' \in 0..MaxWrites
  BY <1>1, ConstantFacts, SMTT(60) DEF Traps, Write, TypeOK
<1>2. ASSUME NEW b \in BOOLEAN, WriteCpuCtlr(c, b) \/ WriteCtlr(c, b)  PROVE TypeOK'
  <2>1. CASE WriteCpuCtlr(c, b)
    BY <1>1, <2>1 DEF WriteCpuCtlr, lines, TypeOK
  <2>2. CASE WriteCtlr(c, b)
    BY <1>1, <2>2 DEF WriteCtlr, lines, TypeOK
  <2> QED
    BY <1>2, <2>1, <2>2
<1>3. ASSUME NEW q \in Prios, WritePmr(c, q)  PROVE TypeOK'
  BY <1>1, <1>3 DEF WritePmr, lines, TypeOK
<1>4. ASSUME NEW q \in Prios, NEW i \in IntIds, WritePriority(c, i, q)  PROVE TypeOK'
  BY <1>0, <1>1, <1>4 DEF WritePriority, lines, TypeOK
<1>5. ASSUME NEW i \in IntIds, NEW b \in BOOLEAN, WriteEnable(c, i, b)  PROVE TypeOK'
  <2>1. enabled' \in [Keys -> BOOLEAN]
    BY <1>0, <1>5 DEF WriteEnable, TypeOK
  <2> QED
    BY <1>1, <1>5, <2>1, SMTT(60) DEF WriteEnable, lines, TypeOK
<1>6. ASSUME NEW i \in IntIds, NEW b \in BOOLEAN, WritePending(c, i, b)  PROVE TypeOK'
  <2>1. pending' \in [Keys -> BOOLEAN]
    BY <1>0, <1>6 DEF WritePending, TypeOK
  <2> QED
    BY <1>1, <1>6, <2>1, SMTT(60) DEF WritePending, config, TypeOK
<1>7. ASSUME NEW i \in IntIds, NEW b \in BOOLEAN, WriteActive(c, i, b)  PROVE TypeOK'
  <2>1. active' \in [Keys -> BOOLEAN]
    BY <1>0, <1>7 DEF WriteActive, TypeOK
  <2> QED
    BY <1>1, <1>7, <2>1, SMTT(60) DEF WriteActive, config, TypeOK
<1>8. ASSUME NEW i \in IntIds, NEW b \in BOOLEAN, WriteConfig(c, i, b)  PROVE TypeOK'
  <2>1. edge' \in [Keys -> BOOLEAN]
    BY <1>0, <1>8 DEF WriteConfig, TypeOK
  <2> QED
    BY <1>1, <1>8, <2>1, SMTT(60) DEF WriteConfig, lines, TypeOK
<1>9. ASSUME NEW i \in Spis, NEW t \in SUBSET (0..CPUS), WriteTargets(c, i, t)  PROVE TypeOK'
  <2>1. targets' \in [Spis -> SUBSET Cpus]
    BY <1>9 DEF WriteTargets, TypeOK
  <2> QED
    BY <1>1, <1>9, <2>1 DEF WriteTargets, lines, TypeOK
<1> QED
  BY <1>2, <1>3, <1>4, <1>5, <1>6, <1>7, <1>8, <1>9 DEF Setup

\* The sources keep the types.
LEMMA SourcesType ==
  ASSUME TypeOK,
         \/ \E c \in Cpus, s \in 0..(SGIS - 1), t \in SUBSET Cpus : Sgir(c, s, t)
         \/ \E i \in Spis : Raise(i)
  PROVE  TypeOK'
<1>0. Event => events' \in 0..MaxEvents /\ writes' \in 0..MaxWrites
  BY ConstantFacts, SMTT(60) DEF Event, TypeOK
<1>1. ASSUME NEW c \in Cpus, NEW s \in 0..(SGIS - 1), NEW t \in SUBSET Cpus, Sgir(c, s, t)
      PROVE  TypeOK'
  <2>1. pending' \in [Keys -> BOOLEAN]
    BY <1>1 DEF Sgir
  <2>2. sgi_src' \in [Cpus -> [0..(SGIS - 1) -> Cpus]]
    BY <1>1 DEF Sgir, TypeOK
  <2>3. vcpu' \in [Cpus -> {"parked", "out", "in", "irq"}]
    BY <1>1 DEF Sgir, TypeOK
  <2>4. UNCHANGED <<config, active, level, running, cpu_on, due, handling>> /\ Event
    BY <1>1 DEF Sgir
  <2> QED
    BY <1>0, <2>1, <2>2, <2>3, <2>4, SMTT(60) DEF config, TypeOK
<1>2. ASSUME NEW i \in Spis, Raise(i)  PROVE TypeOK'
  <2>1. At(0, i) \in Keys
    BY ConstantFacts, AtType
  <2>2. level' \in [Keys -> BOOLEAN] /\ edge' \in [Keys -> BOOLEAN]
    BY <1>2, <2>1 DEF Raise, TypeOK
  <2> QED
    BY <1>0, <1>2, <2>2, SMTT(60) DEF Raise, threads, TypeOK
<1> QED
  BY <1>1, <1>2

\* Every variable keeps its type: a mask that the guest writes is cut to the
\* cpus there are, and the running stacks hold priorities.
THEOREM GicTypeCorrect == Spec => []TypeOK
<1>1. TypeOK /\ [Next]_vars => TypeOK'
  <2> SUFFICES ASSUME TypeOK, [Next]_vars PROVE TypeOK'
    OBVIOUS
  <2>1. CASE UNCHANGED vars
    BY <2>1 DEF vars, config, lines, threads, TypeOK
  <2>2. CASE Next
    BY <2>2, ThreadsType, HandlersType, SetupType, SourcesType DEF Next
  <2> QED
    BY <2>1, <2>2
<1> QED
  BY InitType, <1>1, PTL DEF Spec

-----------------------------------------------------------------------------
(***************************************************************************)
(* Handlers.                                                               *)
(***************************************************************************)

\* What a step does to the handlers, the active bits and the running stacks.
LEMMA StepKinds ==
  ASSUME TypeOK, [Next]_vars
  PROVE  \/ UNCHANGED <<handling, active, running>>
         \/ \E c \in Cpus : Acknowledge(c) \/ Serve(c) \/ Eoi(c)
         \/ \E c \in Cpus, i \in IntIds, b \in BOOLEAN : WriteActive(c, i, b)
<1>1. CASE UNCHANGED vars
  BY <1>1 DEF vars, lines
<1>2. ASSUME NEW c \in Cpus, Enter(c) \/ Cancel(c) \/ Start(c) \/ Tick(c)
      PROVE  UNCHANGED <<handling, active, running>>
  BY <1>2 DEF Enter, Cancel, Start, Tick, lines
<1>3. ASSUME NEW c \in Cpus, NEW t \in 0..CPUS, CpuOn(c, t)
      PROVE  UNCHANGED <<handling, active, running>>
  BY <1>3 DEF CpuOn, lines
<1>4. ASSUME NEW c \in Cpus, NEW s \in 0..(SGIS - 1), NEW t \in SUBSET Cpus, Sgir(c, s, t)
      PROVE  UNCHANGED <<handling, active, running>>
  BY <1>4 DEF Sgir
<1>5. ASSUME NEW i \in Spis, Raise(i)
      PROVE  UNCHANGED <<handling, active, running>>
  BY <1>5 DEF Raise
<1>6. ASSUME NEW c \in Cpus, Setup(c)
      PROVE  \/ UNCHANGED <<handling, active, running>>
             \/ \E i \in IntIds, b \in BOOLEAN : WriteActive(c, i, b)
  BY <1>6 DEF Setup, WriteCpuCtlr, WriteCtlr, WritePmr, WritePriority, WriteEnable,
              WritePending, WriteConfig, WriteTargets, lines
<1> QED
  BY <1>1, <1>2, <1>3, <1>4, <1>5, <1>6 DEF Next

\* What an acknowledgement of i on c does, when it is not spurious.
LEMMA AcknowledgeFacts ==
  ASSUME TypeOK, NEW c \in Cpus, Acknowledge(c), HighestPending(c) # SPURIOUS
  PROVE  \E i \in IntIds :
           /\ At(c, i) \in Keys /\ ~active[At(c, i)]
           /\ priority[At(c, i)] < RunningPrio(c) /\ priority[At(c, i)] \in Prios
           /\ active' = [active EXCEPT ![At(c, i)] = TRUE]
           /\ running' = [running EXCEPT ![c] = Append(@, priority[At(c, i)])]
           /\ \E h \in Handlers : h.id = i /\ handling' = [handling EXCEPT ![c] = Append(@, h)]
<1> DEFINE i == HighestPending(c)
           h == [id |-> i, served |-> i < SGIS]
<1>1. i \in Deliverable(c)
  BY HighestIsDeliverable
<1>2. i \in IntIds /\ ~active[At(c, i)] /\ priority[At(c, i)] < RunningPrio(c)
  BY <1>1 DEF Deliverable
<1>3. At(c, i) \in Keys
  BY <1>2, AtType
<1>4. h \in Handlers /\ h.id = i
  BY <1>2, SMTT(60) DEF Handlers
<1>5. /\ active' = [active EXCEPT ![At(c, i)] = TRUE]
      /\ running' = [running EXCEPT ![c] = Append(@, priority[At(c, i)])]
      /\ handling' = [handling EXCEPT ![c] = Append(@, h)]
  BY DEF Acknowledge
<1>6. priority[At(c, i)] \in Prios
  BY <1>3 DEF TypeOK
<1> HIDE DEF i, h
<1> QED
  BY <1>2, <1>3, <1>4, <1>5, <1>6

\* Serving a source changes no handler's id.
LEMMA ServeFacts ==
  ASSUME TypeOK, NEW c \in Cpus, Serve(c)
  PROVE  /\ UNCHANGED <<active, running>>
         /\ \A d \in Cpus : /\ Len(handling'[d]) = Len(handling[d])
                            /\ \A n \in 1..Len(handling[d]) :
                                 handling'[d][n].id = handling[d][n].id
<1> DEFINE n == Len(handling[c])
           h == [handling[c][n] EXCEPT !.served = TRUE]
<1>0. handling[c] \in Seq(Handlers)
  BY DEF TypeOK
<1>1. n \in 1..n /\ handling[c][n] \in Handlers
  BY <1>0, SeqEnds, SMTT(60) DEF Serve
<1>2. h \in Handlers /\ h.id = handling[c][n].id
  BY <1>1 DEF Handlers
<1>3. handling' = [handling EXCEPT ![c] = [handling[c] EXCEPT ![n] = h]]
  BY DEF Serve
<1>4. UNCHANGED <<active, running>>
  BY DEF Serve
<1> HIDE DEF h
<1>5. /\ Len([handling[c] EXCEPT ![n] = h]) = Len(handling[c])
      /\ \A m \in 1..Len(handling[c]) :
           [handling[c] EXCEPT ![n] = h][m] = IF m = n THEN h ELSE handling[c][m]
  BY <1>0, <1>1, <1>2, ExceptSeq, SMTT(60)
<1>6. \A d \in Cpus : handling'[d] = IF d = c THEN [handling[c] EXCEPT ![n] = h]
                                              ELSE handling[d]
  BY <1>3 DEF TypeOK
<1> QED
  BY <1>2, <1>4, <1>5, <1>6

\* Ending an interrupt takes the innermost handler away.
LEMMA EoiFacts ==
  ASSUME TypeOK, NEW c \in Cpus, Eoi(c), NEW l, l = Len(handling[c])
  PROVE  /\ l \in Nat /\ l > 0
         /\ handling[c][l].id \in IntIds
         /\ active' = [active EXCEPT ![At(c, handling[c][l].id)] = FALSE]
         /\ Len(handling'[c]) = l - 1
         /\ \A n \in 1..(l - 1) : handling'[c][n] = handling[c][n]
         /\ \A d \in Cpus : d # c => handling'[d] = handling[d]
<1>1. handling[c] \in Seq(Handlers) /\ handling[c] # <<>>
  BY DEF Eoi, TypeOK
<1>2. l \in Nat /\ l > 0 /\ handling[c][l] \in Handlers
  BY <1>1, SeqEnds
<1>3. handling'[c] = SubSeq(handling[c], 1, l - 1)
  BY DEF Eoi, TypeOK
<1>4. Len(handling'[c]) = l - 1 /\ \A n \in 1..(l - 1) : handling'[c][n] = handling[c][n]
  BY <1>1, <1>3, SeqEnds, SMTT(60)
<1>5. handling[c][l].id \in IntIds
  BY <1>2 DEF Handlers
<1>6. active' = [active EXCEPT ![At(c, handling[c][l].id)] = FALSE]
  BY DEF Eoi, Top
<1>7. \A d \in Cpus : d # c => handling'[d] = handling[d]
  BY DEF Eoi, TypeOK
<1> QED
  BY <1>2, <1>4, <1>5, <1>6, <1>7

\* Acknowledging takes an interrupt that nobody has, and ending one frees it
\* because nobody else has it.
LEMMA NextHandledOnce ==
  ASSUME TypeOK, HandledOnce, [Next]_vars
  PROVE  HandledOnce'
<1>0. \A d \in Cpus : handling[d] \in Seq(Handlers) /\ Len(handling[d]) \in Nat
  BY SeqEnds DEF TypeOK
<1>1. CASE UNCHANGED <<handling, active, running>>
  BY <1>1, SMTT(60) DEF HandledOnce, Handles
<1>2. ASSUME NEW c \in Cpus, Acknowledge(c)  PROVE HandledOnce'
  <2>1. CASE HighestPending(c) = SPURIOUS
    BY <1>2, <2>1, SMTT(60) DEF Acknowledge, HandledOnce, Handles
  <2>2. CASE HighestPending(c) # SPURIOUS
    <3>1. PICK i \in IntIds :
            /\ At(c, i) \in Keys /\ ~active[At(c, i)]
            /\ active' = [active EXCEPT ![At(c, i)] = TRUE]
            /\ \E h \in Handlers : h.id = i /\ handling' = [handling EXCEPT ![c] = Append(@, h)]
      BY <1>2, <2>2, AcknowledgeFacts
    <3>2. PICK h \in Handlers : h.id = i /\ handling' = [handling EXCEPT ![c] = Append(@, h)]
      BY <3>1
    <3>3. /\ Len(handling'[c]) = Len(handling[c]) + 1
          /\ \A n \in 1..Len(handling[c]) : handling'[c][n] = handling[c][n]
          /\ handling'[c][Len(handling[c]) + 1] = h
      BY <1>0, <3>2, SeqEnds, SMTT(60) DEF TypeOK
    <3>4. \A d \in Cpus : d # c => handling'[d] = handling[d]
      BY <3>2 DEF TypeOK
    <3>5. \A d \in Cpus, j \in IntIds :
            Handles(d, j)' <=> Handles(d, j) \/ (d = c /\ j = i)
      BY <1>0, <3>2, <3>3, <3>4, SMTT(60) DEF Handles
    <3>6. \A d \in Cpus : Handles(d, i) => d # c /\ i \notin Spis
      <4> SUFFICES ASSUME NEW d \in Cpus, Handles(d, i)  PROVE d # c /\ i \notin Spis
        OBVIOUS
      <4>1. active[At(d, i)]
        BY DEF HandledOnce
      <4> QED
        BY <3>1, <4>1, GicAssumption, SMTT(60) DEF At, Spis
    <3>7. \A d \in Cpus, j \in IntIds : Handles(d, j)' => active'[At(d, j)]
      <4> SUFFICES ASSUME NEW d \in Cpus, NEW j \in IntIds, Handles(d, j)'
                   PROVE  active'[At(d, j)]
        OBVIOUS
      <4>1. At(d, j) \in Keys /\ active \in [Keys -> BOOLEAN]
        BY AtType DEF TypeOK
      <4>2. CASE Handles(d, j)
        BY <3>1, <4>1, <4>2 DEF HandledOnce
      <4>3. CASE d = c /\ j = i
        BY <3>1, <4>1, <4>3
      <4> QED
        BY <3>5, <4>2, <4>3
    <3>8. \A d, e \in Cpus, j \in Spis : Handles(d, j)' /\ Handles(e, j)' => d = e
      BY <3>5, <3>6, ConstantFacts, SMTT(60) DEF HandledOnce
    <3>9. \A d \in Cpus : \A m, n \in 1..Len(handling'[d]) :
            handling'[d][m].id = handling'[d][n].id => m = n
      <4> SUFFICES ASSUME NEW d \in Cpus, NEW m \in 1..Len(handling'[d]),
                          NEW n \in 1..Len(handling'[d]),
                          handling'[d][m].id = handling'[d][n].id
                   PROVE  m = n
        OBVIOUS
      <4>1. CASE d # c
        BY <3>1, <3>4, <4>1 DEF HandledOnce
      <4>2. CASE d = c
        <5>1. \A l \in 1..Len(handling[c]) : handling[c][l].id # i
          BY <3>6 DEF Handles
        <5>2. m \in 1..Len(handling[c]) \/ m = Len(handling[c]) + 1
          BY <1>0, <3>3, <4>2, SMTT(60)
        <5>3. n \in 1..Len(handling[c]) \/ n = Len(handling[c]) + 1
          BY <1>0, <3>3, <4>2, SMTT(60)
        <5>4. CASE m \in 1..Len(handling[c]) /\ n \in 1..Len(handling[c])
          BY <3>1, <3>3, <4>2, <5>4, SMTT(60) DEF HandledOnce
        <5> QED
          BY <3>2, <3>3, <4>2, <5>1, <5>2, <5>3, <5>4
      <4> QED
        BY <4>1, <4>2
    <3> QED
      BY <3>7, <3>8, <3>9 DEF HandledOnce
  <2> QED
    BY <2>1, <2>2
<1>3. ASSUME NEW c \in Cpus, Serve(c)  PROVE HandledOnce'
  <2>1. \A d \in Cpus, j \in IntIds : Handles(d, j)' <=> Handles(d, j)
    BY <1>3, ServeFacts DEF Handles
  <2>2. active' = active
    BY <1>3, ServeFacts
  <2>3. \A d \in Cpus : \A m, n \in 1..Len(handling'[d]) :
          IntIds # {} /\ handling'[d][m].id = handling'[d][n].id => m = n
    BY <1>3, ServeFacts, SMTT(60) DEF HandledOnce
  <2>4. IntIds # {}
    BY ConstantFacts
  <2> QED
    BY <2>1, <2>2, <2>3, <2>4 DEF HandledOnce
<1>4. ASSUME NEW c \in Cpus, Eoi(c)  PROVE HandledOnce'
  <2> DEFINE l == Len(handling[c])
  <2>0. PICK i \in IntIds : i = handling[c][l].id
    BY <1>4, EoiFacts
  <2>1. /\ l \in Nat /\ l > 0 /\ i \in IntIds
        /\ active' = [active EXCEPT ![At(c, i)] = FALSE]
        /\ Len(handling'[c]) = l - 1
        /\ \A n \in 1..(l - 1) : handling'[c][n] = handling[c][n]
    BY <1>4, <2>0, EoiFacts
  <2>2. \A d \in Cpus : d # c => handling'[d] = handling[d]
    BY <1>4, EoiFacts
  <2>3. \A n \in 1..(l - 1) : n \in 1..l /\ n # l
    BY <2>1, SMTT(60)
  <2>4. Handles(c, i)
    BY <2>0, <2>1, SMTT(60) DEF Handles
  <2>5. \A d \in Cpus, j \in IntIds : Handles(d, j)' => Handles(d, j)
    <3> SUFFICES ASSUME NEW d \in Cpus, NEW j \in IntIds, Handles(d, j)'
                 PROVE  Handles(d, j)
      OBVIOUS
    <3>1. CASE d = c
      BY <2>1, <2>3, <3>1 DEF Handles
    <3>2. CASE d # c
      BY <2>2, <3>2 DEF Handles
    <3> QED
      BY <3>1, <3>2
  <2>6. ~Handles(c, i)'
    <3>1. l \in 1..l
      BY <2>1, SMTT(60)
    <3>2. \A n \in 1..(l - 1) : handling[c][n].id # i
      BY <2>0, <2>1, <2>3, <3>1 DEF HandledOnce
    <3> QED
      BY <2>1, <3>2 DEF Handles
  <2>7. \A d \in Cpus, j \in IntIds : Handles(d, j)' => active'[At(d, j)]
    <3> SUFFICES ASSUME NEW d \in Cpus, NEW j \in IntIds, Handles(d, j)'
                 PROVE  active'[At(d, j)]
      OBVIOUS
    <3>1. Handles(d, j) /\ active[At(d, j)]
      BY <2>5 DEF HandledOnce
    <3>2. At(d, j) # At(c, i)
      <4> SUFFICES ASSUME At(d, j) = At(c, i)  PROVE FALSE
        OBVIOUS
      <4>1. j = i /\ (d = c \/ i \in Spis)
        <5>1. i = j /\ (c = d \/ i \in Spis)
          BY <2>1, AtType
        <5> QED
          BY <5>1
      <4>2. d = c
        BY <2>1, <2>4, <3>1, <4>1 DEF HandledOnce
      <4> QED
        BY <2>6, <4>1, <4>2
    <3>3. At(d, j) \in Keys /\ active \in [Keys -> BOOLEAN]
      BY AtType DEF TypeOK
    <3> QED
      BY <2>1, <3>1, <3>2, <3>3
  <2>8. \A d \in Cpus : \A m, n \in 1..Len(handling'[d]) :
          handling'[d][m].id = handling'[d][n].id => m = n
    <3> SUFFICES ASSUME NEW d \in Cpus, NEW m \in 1..Len(handling'[d]),
                        NEW n \in 1..Len(handling'[d]),
                        handling'[d][m].id = handling'[d][n].id
                 PROVE  m = n
      OBVIOUS
    <3>1. /\ m \in 1..Len(handling[d]) /\ n \in 1..Len(handling[d])
          /\ handling'[d][m] = handling[d][m] /\ handling'[d][n] = handling[d][n]
      <4>1. CASE d = c
        BY <2>1, <2>3, <4>1
      <4>2. CASE d # c
        BY <2>2, <4>2
      <4> QED
        BY <4>1, <4>2
    <3> QED
      BY <2>1, <3>1, SMTT(60) DEF HandledOnce
  <2> QED
    BY <2>5, <2>7, <2>8 DEF HandledOnce
<1>5. ASSUME NEW c \in Cpus, NEW i \in IntIds, NEW b \in BOOLEAN, WriteActive(c, i, b)
      PROVE  HandledOnce'
  <2>1. /\ handling' = handling /\ ~InHand(c, i)
        /\ active' = [active EXCEPT ![At(c, i)] = b]
    BY <1>5 DEF WriteActive
  <2>2. \A d \in Cpus, j \in IntIds : Handles(d, j)' <=> Handles(d, j)
    BY <2>1 DEF Handles
  <2>3. ASSUME NEW d \in Cpus, NEW j \in IntIds, Handles(d, j)  PROVE active'[At(d, j)]
    <3>1. At(d, j) # At(c, i)
      <4> SUFFICES ASSUME At(d, j) = At(c, i)  PROVE FALSE
        OBVIOUS
      <4>1. j = i
        BY AtType
      <4> QED
        BY <2>1, <2>3, <4>1 DEF InHand
    <3>2. At(d, j) \in Keys /\ active \in [Keys -> BOOLEAN] /\ active[At(d, j)]
      BY <2>3, AtType DEF TypeOK, HandledOnce
    <3> QED
      BY <2>1, <3>1, <3>2
  <2> QED
    BY <2>1, <2>2, <2>3, SMTT(60) DEF HandledOnce
<1> QED
  BY <1>1, <1>2, <1>3, <1>4, <1>5, StepKinds

\* Each interrupt that is taken preempts one of strictly lower priority, and
\* ending it takes its priority off the stack.
LEMMA NextPreempts ==
  ASSUME TypeOK, PreemptsStrictly, [Next]_vars
  PROVE  PreemptsStrictly'
<1>0. \A d \in Cpus : /\ handling[d] \in Seq(Handlers) /\ Len(handling[d]) \in Nat
                      /\ running[d] \in Seq(Prios) /\ Len(running[d]) \in Nat
                      /\ \A n \in 1..Len(running[d]) : running[d][n] \in Nat
  <2>1. \A q \in Prios : q \in Nat
    BY GicAssumption, SMTT(60) DEF Prios
  <2> QED
    BY <2>1, SeqEnds DEF TypeOK
<1>1. CASE UNCHANGED <<handling, active, running>>
  BY <1>1 DEF PreemptsStrictly
<1>2. ASSUME NEW c \in Cpus, Acknowledge(c)  PROVE PreemptsStrictly'
  <2>1. CASE HighestPending(c) = SPURIOUS
    BY <1>2, <2>1 DEF Acknowledge, PreemptsStrictly
  <2>2. CASE HighestPending(c) # SPURIOUS
    <3>1. PICK i \in IntIds :
            /\ priority[At(c, i)] < RunningPrio(c) /\ priority[At(c, i)] \in Prios
            /\ running' = [running EXCEPT ![c] = Append(@, priority[At(c, i)])]
            /\ \E h \in Handlers : handling' = [handling EXCEPT ![c] = Append(@, h)]
      BY <1>2, <2>2, AcknowledgeFacts
    <3> DEFINE q == priority[At(c, i)]
               l == Len(running[c])
    <3>2. Len(handling'[c]) = Len(handling[c]) + 1
      BY <1>0, <3>1, SeqEnds, SMTT(60) DEF TypeOK
    <3>3. /\ Len(running'[c]) = l + 1
          /\ \A n \in 1..l : running'[c][n] = running[c][n]
          /\ running'[c][l + 1] = q
      BY <1>0, <3>1, SeqEnds, SMTT(60) DEF TypeOK
    <3>4. \A d \in Cpus : d # c => handling'[d] = handling[d] /\ running'[d] = running[d]
      BY <3>1 DEF TypeOK
    <3>5. \A n \in 1..l : q < running[c][n]
      <4> SUFFICES ASSUME NEW n \in 1..l  PROVE q < running[c][n]
        OBVIOUS
      <4>1. q < running[c][l] /\ l \in 1..l
        BY <1>0, <3>1, SMTT(60) DEF RunningPrio
      <4>2. n = l \/ running[c][l] < running[c][n]
        BY <1>0, <4>1, SMTT(60) DEF PreemptsStrictly
      <4>0. \A r \in Prios : r \in Nat
        BY GicAssumption, SMTT(60) DEF Prios
      <4>3. q \in Nat /\ running[c][l] \in Nat /\ running[c][n] \in Nat
        BY <1>0, <3>1, <4>0, <4>1
      <4> HIDE DEF q
      <4> QED
        BY <4>1, <4>2, <4>3, SMTT(60)
    <3> HIDE DEF q
    <3>6. \A m, n \in 1..(l + 1) : m < n => running'[c][n] < running'[c][m]
      <4> SUFFICES ASSUME NEW m \in 1..(l + 1), NEW n \in 1..(l + 1), m < n
                   PROVE  running'[c][n] < running'[c][m]
        OBVIOUS
      <4>0. l \in Nat
        BY <1>0
      <4> HIDE DEF l
      <4>1. m \in 1..l /\ (n \in 1..l \/ n = l + 1)
        BY <4>0, SMTT(60)
      <4> USE DEF l
      <4> QED
        BY <3>3, <3>5, <4>1 DEF PreemptsStrictly
    <3> QED
      BY <3>2, <3>3, <3>4, <3>6 DEF PreemptsStrictly
  <2> QED
    BY <2>1, <2>2
<1>3. ASSUME NEW c \in Cpus, Serve(c)  PROVE PreemptsStrictly'
  BY <1>3, ServeFacts DEF PreemptsStrictly
<1>4. ASSUME NEW c \in Cpus, Eoi(c)  PROVE PreemptsStrictly'
  <2>1. handling[c] # <<>> /\ Len(handling[c]) > 0 /\ Len(running[c]) = Len(handling[c])
    BY <1>0, <1>4, SeqEnds DEF Eoi, PreemptsStrictly
  <2>2. running[c] # <<>>
    BY <2>1, SMTT(60)
  <2>3. Len(handling'[c]) = Len(handling[c]) - 1
    BY <1>4, EoiFacts
  <2>4. /\ Len(running'[c]) = Len(running[c]) - 1
        /\ \A n \in 1..(Len(running[c]) - 1) : running'[c][n] = running[c][n]
    <3>1. running'[c] = SubSeq(running[c], 1, Len(running[c]) - 1)
      BY <1>4 DEF Eoi, TypeOK
    <3> QED
      BY <1>0, <2>2, <3>1, SeqEnds, SMTT(60)
  <2>5. \A d \in Cpus : d # c => handling'[d] = handling[d] /\ running'[d] = running[d]
    BY <1>4 DEF Eoi, TypeOK
  <2> DEFINE k == Len(running[c]) - 1
  <2>6. \A n \in 1..k : n \in 1..Len(running[c])
    BY <1>0, SMTT(60)
  <2>7. \A m, n \in 1..k : m < n => running'[c][n] < running'[c][m]
    BY <2>4, <2>6 DEF PreemptsStrictly
  <2>8. Len(running'[c]) = Len(handling'[c])
    BY <2>1, <2>3, <2>4
  <2> QED
    BY <2>4, <2>5, <2>7, <2>8 DEF PreemptsStrictly
<1>5. ASSUME NEW c \in Cpus, NEW i \in IntIds, NEW b \in BOOLEAN, WriteActive(c, i, b)
      PROVE  PreemptsStrictly'
  BY <1>5 DEF WriteActive, PreemptsStrictly
<1> QED
  BY <1>1, <1>2, <1>3, <1>4, <1>5, StepKinds

\* However many cpus an interrupt is routed to, one handles it at a time, and
\* it stays active until that cpu ends it.
THEOREM HandledOneAtATime == Spec => []HandledOnce
<1>1. Init => HandledOnce
  BY SMTT(60) DEF Init, HandledOnce, Handles
<1> QED
  BY <1>1, NextHandledOnce, GicTypeCorrect, PTL DEF Spec

\* On every cpu the running stack mirrors the nested handlers, and each of them
\* preempted one of strictly lower priority.
THEOREM PreemptionIsStrict == Spec => []PreemptsStrictly
<1>1. Init => PreemptsStrictly
  BY SMTT(60) DEF Init, PreemptsStrictly
<1> QED
  BY <1>1, NextPreempts, GicTypeCorrect, PTL DEF Spec

-----------------------------------------------------------------------------
(***************************************************************************)
(* Software generated interrupts.                                          *)
(***************************************************************************)

\* What a step does to the pending latches.
LEMMA PendingKinds ==
  ASSUME TypeOK, [Next]_vars
  PROVE  \/ UNCHANGED pending
         \/ writes' # writes
         \/ \A k \in Keys : pending[k] => pending'[k]
         \/ \E c \in Cpus : Acknowledge(c)
<1>1. CASE UNCHANGED vars
  BY <1>1 DEF vars, lines
<1>2. ASSUME NEW c \in Cpus, Enter(c) \/ Cancel(c) \/ Start(c) \/ Tick(c) \/ Serve(c) \/ Eoi(c)
      PROVE  UNCHANGED pending
  BY <1>2 DEF Enter, Cancel, Start, Tick, Serve, Eoi, lines
<1>3. ASSUME NEW c \in Cpus, NEW t \in 0..CPUS, CpuOn(c, t)
      PROVE  UNCHANGED pending
  BY <1>3 DEF CpuOn, lines
<1>4. ASSUME NEW c \in Cpus, NEW s \in 0..(SGIS - 1), NEW t \in SUBSET Cpus, Sgir(c, s, t)
      PROVE  \A k \in Keys : pending[k] => pending'[k]
  BY <1>4 DEF Sgir
<1>5. ASSUME NEW i \in Spis, Raise(i)
      PROVE  UNCHANGED pending
  BY <1>5 DEF Raise
<1>6. ASSUME NEW c \in Cpus, Setup(c)
      PROVE  UNCHANGED pending \/ writes' # writes
  <2>1. Write => writes' # writes
    BY ConstantFacts, SMTT(60) DEF Write, TypeOK
  <2> QED
    BY <1>6, <2>1 DEF Setup, WriteCpuCtlr, WriteCtlr, WritePmr, WritePriority, WriteEnable,
                WritePending, WriteActive, WriteConfig, WriteTargets
<1> QED
  BY <1>1, <1>2, <1>3, <1>4, <1>5, <1>6 DEF Next

\* An acknowledgement lowers the latch of an SGI only on the cpu that takes it,
\* which was not handling it.
LEMMA AcknowledgeTakes ==
  ASSUME TypeOK, HandledOnce, NEW c \in Cpus, Acknowledge(c),
         NEW d \in Cpus, NEW s \in 0..(SGIS - 1),
         pending[At(d, s)], ~pending'[At(d, s)]
  PROVE  Handles(d, s)' /\ ~Handles(d, s)
<1>1. s \in IntIds /\ s \in Private /\ s \notin Spis
  BY ConstantFacts, GicAssumption, SMTT(60) DEF Private, Spis
<1>2. HighestPending(c) # SPURIOUS
  BY DEF Acknowledge
<1> DEFINE i == HighestPending(c)
           h == [id |-> i, served |-> i < SGIS]
<1>3. i \in IntIds /\ ~active[At(c, i)]
  BY <1>2, HighestIsDeliverable DEF Deliverable
<1>4. At(c, i) \in Keys /\ At(d, s) \in Keys
  BY <1>1, <1>3, AtType
<1>5. /\ pending' = [pending EXCEPT ![At(c, i)] = @ /\ ~edge[At(c, i)]]
      /\ handling' = [handling EXCEPT ![c] = Append(@, h)]
  BY <1>2 DEF Acknowledge
<1>6. h \in Handlers /\ h.id = i
  BY <1>3, SMTT(60) DEF Handlers
<1> HIDE DEF i, h
<1>7. At(d, s) = At(c, i)
  <2>1. SUFFICES ASSUME At(d, s) # At(c, i) PROVE FALSE
    OBVIOUS
  <2>2. pending \in [Keys -> BOOLEAN]
    BY DEF TypeOK
  <2>3. pending'[At(d, s)] = pending[At(d, s)]
    BY <1>4, <1>5, <2>1, <2>2
  <2> QED
    BY <2>3
<1>8. d = c /\ s = i
  BY <1>1, <1>3, <1>7, AtType, SMTT(60)
<1>9. handling[c] \in Seq(Handlers) /\ handling'[c] = Append(handling[c], h)
  BY <1>5 DEF TypeOK
<1>10. Handles(d, s)'
  <2> DEFINE n == Len(handling[c]) + 1
  <2>1. n \in 1..Len(handling'[c]) /\ handling'[c][n] = h
    BY <1>6, <1>9, SeqEnds, SMTT(60)
  <2> HIDE DEF n
  <2> QED
    BY <1>6, <1>8, <2>1 DEF Handles
<1>11. ~Handles(d, s)
  BY <1>1, <1>3, <1>8 DEF HandledOnce
<1> QED
  BY <1>10, <1>11

\* An SGI another cpu has posted is never lost: its latch falls only when the cpu
\* it was posted to takes it, or the guest clears it by a register write.
THEOREM SgisAreTaken == Spec => SgiTaken
<1>1. ASSUME TypeOK, HandledOnce, [Next]_vars
      PROVE  [\A c \in Cpus, s \in 0..(SGIS - 1) :
                pending[At(c, s)] /\ ~pending'[At(c, s)] =>
                  \/ writes' # writes
                  \/ Handles(c, s)' /\ ~Handles(c, s)]_vars
  <2> SUFFICES ASSUME NEW c \in Cpus, NEW s \in 0..(SGIS - 1),
                      pending[At(c, s)], ~pending'[At(c, s)], writes' = writes
               PROVE  Handles(c, s)' /\ ~Handles(c, s)
    OBVIOUS
  <2>1. At(c, s) \in Keys
    BY ConstantFacts, AtType
  <2>2. \E d \in Cpus : Acknowledge(d)
    BY <1>1, <2>1, PendingKinds
  <2> QED
    BY <1>1, <2>2, AcknowledgeTakes
<1> QED
  BY <1>1, GicTypeCorrect, HandledOneAtATime, PTL DEF Spec, SgiTaken
=============================================================================
