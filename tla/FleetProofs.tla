----------------------------- MODULE FleetProofs -----------------------------
(***************************************************************************)
(* Proofs about module Fleet, for every set of threads, templates and ids, *)
(* every RAM assignment and every budget: admission, ownership, and that   *)
(* neither a worker nor its entry is left behind.                          *)
(***************************************************************************)
EXTENDS Fleet, FiniteSetTheorems, TLAPS

\* Leaves are for Zenon; those for the SMT solver say so.
USE ZenonT(60)

\* A thread past its reservation has an id in its hands.
Busy(th) == Holding(th) \/ pc[th] \in {"exec_wait", "serve"}
BusyHasVm == \A th \in Threads : Busy(th) => cur[th] # NoVm

TypeInv == TypeOK /\ BusyHasVm

\* The initial state of the fleet is well typed.
LEMMA InitTypeInv == Init => TypeInv
  <1> SUFFICES ASSUME Init PROVE TypeInv
    OBVIOUS
  <1>1. NoTemplate \in Templates
    BY FleetAssumption DEF NoTemplate
  <1> QED
    BY <1>1 DEF Init, TypeInv, TypeOK, BusyHasVm, Busy, Holding, Threads, Ops,
             Pcs, ProcStates, SupStates, StartOps, PausedOps, ForkOps

\* What a thread does while it starts a worker keeps the types.
LEMMA StartingTypeInv ==
  ASSUME TypeInv, NEW th \in Threads, Starting(th)
  PROVE  TypeInv'
  <1> USE DEF TypeInv, TypeOK, BusyHasVm, Busy, Holding, Ops, Pcs, ProcStates,
              SupStates, StartOps, PausedOps, ForkOps, entryVars, procVars,
              threadVars, Goto, Finish, Deregister
  <1>0. NoTemplate \in Templates
    BY FleetAssumption DEF NoTemplate
  <1>1. ASSUME NEW v \in Vms, Reserve(th, v) PROVE TypeInv'
    BY <1>1, FleetAssumption, SMTT(60) DEF Reserve
  <1>2. CASE Refuse(th)
    BY <1>0, <1>2, SMTT(60) DEF Refuse
  <1>3. CASE SpawnAbandoned(th)
    BY <1>0, <1>3 DEF SpawnAbandoned
  <1>4. CASE SpawnFailed(th)
    BY <1>0, <1>4 DEF SpawnFailed
  <1>5. CASE Spawn(th)
    BY <1>5 DEF Spawn
  <1>6. CASE RecordPid(th)
    BY <1>6 DEF RecordPid
  <1>7. CASE Register(th)
    BY <1>7, SMTT(60) DEF Register, RecordRuntime, AfterWarm
  <1>8. CASE WarmFailed(th)
    BY <1>0, <1>8 DEF WarmFailed
  <1> HIDE DEF TypeInv
  <1> QED
    BY <1>1, <1>2, <1>3, <1>4, <1>5, <1>6, <1>7, <1>8 DEF Starting

\* Connection threads and refill threads are threads.
LEMMA BothThreads ==
  /\ \A h \in Handlers : h \in Threads
  /\ \A r \in Refillers : r \in Threads
  BY DEF Threads

\* The end of the daemon leaves every map and every thread as Init has them.
LEMMA StopTypeInv == TypeInv /\ Stop => TypeInv'
  <1> SUFFICES ASSUME TypeInv, Stop PROVE TypeInv'
    OBVIOUS
  <1>1. NoTemplate \in Templates
    BY FleetAssumption DEF NoTemplate
  <1>2. proc' \in [Vms -> ProcStates]
    BY DEF TypeInv, TypeOK, Stop
  <1>3. TypeOK'
    BY <1>1, <1>2 DEF TypeOK, Stop, SupStates, Pcs, Ops
  <1>4. BusyHasVm'
    BY DEF BusyHasVm, Busy, Holding, Stop
  <1> QED
    BY <1>3, <1>4 DEF TypeInv

\* What a connection thread does besides starting a worker keeps the types.
LEMMA HandlerTypeInv ==
  ASSUME TypeInv, NEW h \in Threads, Handler(h), ~Starting(h)
  PROVE  TypeInv'
  <1>0. NoTemplate \in Templates
    BY FleetAssumption DEF NoTemplate
  <1>13. CASE Exit(h)
    BY <1>13, StopTypeInv DEF Exit
  <1> USE DEF TypeInv, TypeOK, BusyHasVm, Busy, Holding, Ops, Pcs, StartOps,
              PausedOps, ForkOps, entryVars, procVars, threadVars, Goto,
              Finish, Deregister
  <1>1. ASSUME NEW t \in Templates, NEW v \in pool[t], EvictPop(h, t, v)
        PROVE  TypeInv'
    BY <1>1, FleetAssumption DEF EvictPop
  <1>2. CASE EvictNone(h)
    BY <1>0, <1>2 DEF EvictNone
  <1>3. CASE EvictDeregister(h)
    BY <1>3 DEF EvictDeregister
  <1>4. CASE SetRuntime(h)
    BY <1>0, <1>4, SMTT(60) DEF SetRuntime, RecordRuntime, SupStates
  <1>5. CASE RelayAbandoned(h)
    BY <1>0, <1>5 DEF RelayAbandoned, RecordRuntime
  <1>6. ASSUME NEW v \in pool[ref[h]], ForkPop(h, v) PROVE TypeInv'
    BY <1>6, FleetAssumption DEF ForkPop
  <1>7. CASE ForkMiss(h)
    BY <1>7 DEF ForkMiss
  <1>8. ASSUME NEW r \in Refillers, ForkRelease(h, r) PROVE TypeInv'
    BY <1>8, BothThreads DEF ForkRelease, StartRefill, CanRelease
  <1>9. CASE ForkReleaseFailed(h)
    BY <1>0, <1>9 DEF ForkReleaseFailed
  <1>10. CASE ExecRelease(h)
    BY <1>10 DEF ExecRelease, CanRelease
  <1>11. CASE ExecDone(h)
    BY <1>0, <1>11 DEF ExecDone
  <1>12. CASE Served(h)
    BY <1>0, <1>12 DEF Served
  <1> HIDE DEF TypeInv
  <1> QED
    BY <1>1, <1>2, <1>3, <1>4, <1>5, <1>6, <1>7, <1>8, <1>9, <1>10, <1>11,
       <1>12, <1>13 DEF Handler

\* Supervisors, Kill and the worker processes keep the types.
LEMMA VmTypeInv ==
  ASSUME TypeInv, NEW v \in Vms, Supervisor(v) \/ Kill(v) \/ Worker(v)
  PROVE  TypeInv'
  <1> USE DEF TypeInv, TypeOK, BusyHasVm, Busy, Holding, ProcStates, SupStates,
              entryVars, procVars, threadVars
  <1>1. CASE Supervise(v)
    BY <1>1 DEF Supervise
  <1>2. CASE SupDeregister(v)
    BY <1>2 DEF SupDeregister, Deregister
  <1>3. CASE SupDepool(v)
    BY <1>3 DEF SupDepool
  <1>4. CASE Kill(v)
    BY <1>4 DEF Kill
  <1>5. CASE Warmed(v)
    BY <1>5 DEF Warmed
  <1>6. CASE Ungate(v)
    BY <1>6 DEF Ungate
  <1>7. CASE HangupStop(v)
    BY <1>7 DEF HangupStop
  <1>8. CASE WorkerExit(v)
    BY <1>8 DEF WorkerExit
  <1> HIDE DEF TypeInv
  <1> QED
    BY <1>1, <1>2, <1>3, <1>4, <1>5, <1>6, <1>7, <1>8 DEF Supervisor, Worker

\* Every step of the fleet keeps the types.
LEMMA NextTypeInv == TypeInv /\ [Next]_vars => TypeInv'
  <1> SUFFICES ASSUME TypeInv, [Next]_vars PROVE TypeInv'
    OBVIOUS
  <1>0. NoTemplate \in Templates
    BY FleetAssumption DEF NoTemplate
  <1>5. CASE Crash
    BY <1>5, StopTypeInv DEF Crash
  <1> USE DEF TypeOK, BusyHasVm, Busy, Holding, Ops, Pcs, StartOps, PausedOps,
              ForkOps, entryVars, procVars, threadVars, Goto, Finish
  <1>1. ASSUME NEW h \in Handlers, NEW o \in Requests, NEW t \in Templates,
               Accept(h, o, t)
        PROVE  TypeInv'
    BY <1>1, FleetAssumption, BothThreads, SMTT(60) DEF Accept, TypeInv, ProcStates
  <1>2. ASSUME NEW h \in Handlers, ClientGone(h) PROVE TypeInv'
    BY <1>0, <1>2, BothThreads, SMTT(60) DEF ClientGone, TypeInv
  <1>3. ASSUME NEW r \in Refillers, RefillCheck(r) PROVE TypeInv'
    BY <1>0, <1>3, BothThreads, SMTT(60) DEF RefillCheck, TypeInv
  <1>4. ASSUME NEW r \in Refillers, RefillPush(r) PROVE TypeInv'
    BY <1>4, BothThreads, SMTT(60) DEF RefillPush, TypeInv
  <1>6. CASE UNCHANGED vars
    BY <1>6 DEF vars, TypeInv
  <1> QED
    BY <1>1, <1>2, <1>3, <1>4, <1>5, <1>6, StartingTypeInv, HandlerTypeInv,
       VmTypeInv, BothThreads DEF Next, Client, Refiller

\* The state of the daemon is well typed in every reachable state; an entry
\* that is removed takes its pid and control channel with it.
THEOREM TypeCorrect == Spec => []TypeOK
  <1>1. TypeInv => TypeOK
    BY DEF TypeInv
  <1> QED
    BY <1>1, InitTypeInv, NextTypeInv, PTL DEF Spec

\* ... together with the fact that a busy thread holds an id.
LEMMA TypeInvariant == Spec => []TypeInv
  BY InitTypeInv, NextTypeInv, PTL DEF Spec


-----------------------------------------------------------------------------
(***************************************************************************)
(* Ownership of the warm workers.  Each step of a thread is one of a few   *)
(* kinds as far as ownership goes: it lets go of its id or keeps it, takes *)
(* one out of a pool, puts one in, sends the go byte, or has a fresh one.  *)
(***************************************************************************)

\* The strengthening of EvictsOnlyUnreleased: no worker in a thread's hands
\* has been released yet, whichever way the thread came by it.
NotReleased ==
  /\ \A t \in Templates : pool[t] \cap go = {}
  /\ \A th \in Threads : Holding(th) => cur[th] \notin go

OwnInv == OneOwner /\ NotReleased

\* A thread that holds an id after the step held the same one before.
Keeps(th) == Holding(th)' => Holding(th) /\ cur'[th] = cur[th]

\* Only thread th moved.
OnlyMoved(th) ==
  \A o \in Threads \ {th} : pc'[o] = pc[o] /\ cur'[o] = cur[o]

\* Thread th went to l with v in its hands, and no other thread moved.
Moved(th, l, v) == OnlyMoved(th) /\ pc'[th] = l /\ cur'[th] = v

\* The effect of Goto and Finish on where the threads are and what they hold.
LEMMA GotoMoves ==
  ASSUME TypeInv, NEW th \in Threads, NEW l, Goto(th, l)
  PROVE  Moved(th, l, cur[th])
  BY DEF TypeInv, TypeOK, Goto, Moved, OnlyMoved

LEMMA FinishMoves ==
  ASSUME TypeInv, NEW th \in Threads, Finish(th)
  PROVE  Moved(th, "idle", NoVm)
  BY DEF TypeInv, TypeOK, Finish, Moved, OnlyMoved

\* A step that assigns pc and cur for one thread moves that thread alone.
LEMMA AssignMoves ==
  ASSUME TypeInv, NEW th \in Threads, NEW l, NEW v,
         pc' = [pc EXCEPT ![th] = l], cur' = [cur EXCEPT ![th] = v]
  PROVE  Moved(th, l, v)
  BY DEF TypeInv, TypeOK, Moved, OnlyMoved

\* A thread that did not move keeps what it holds.
LEMMA OthersKeep ==
  ASSUME NEW th, OnlyMoved(th)
  PROVE  \A o \in Threads \ {th} : Keeps(o)
  BY DEF OnlyMoved, Keeps, Holding

\* Threads that let go of their ids, or keep them, disturb nobody's ownership.
LEMMA LettingGo ==
  ASSUME OwnInv, UNCHANGED <<pool, go>>, \A th \in Threads : Keeps(th)
  PROVE  OwnInv'
  BY DEF OwnInv, OneOwner, NotReleased, Keeps

\* ... which covers the steps that finish a thread or send it elsewhere.
LEMMA FinishOwnInv ==
  ASSUME TypeInv, OwnInv, UNCHANGED <<pool, go>>, NEW th \in Threads,
         Finish(th)
  PROVE  OwnInv'
  <1>1. Moved(th, "idle", NoVm)
    BY FinishMoves
  <1>2. \A o \in Threads : Keeps(o)
    BY <1>1, OthersKeep DEF Moved, Keeps, Holding
  <1> QED
    BY <1>2, LettingGo

LEMMA GotoOwnInv ==
  ASSUME TypeInv, OwnInv, UNCHANGED <<pool, go>>, NEW th \in Threads, NEW l,
         Goto(th, l),
         Holding(th) \/ l \in {"reserve", "evict", "exec_wait", "serve"}
  PROVE  OwnInv'
  <1>1. Moved(th, l, cur[th])
    BY GotoMoves
  <1>2. \A o \in Threads : Keeps(o)
    BY <1>1, OthersKeep, SMTT(60) DEF Moved, Keeps, Holding
  <1> QED
    BY <1>2, LettingGo

\* A thread takes worker v out of the pool of template t.
LEMMA TakingOwnInv ==
  ASSUME TypeInv, OwnInv, NEW th \in Threads, NEW t \in Templates,
         NEW v \in pool[t], NEW l, Moved(th, l, v),
         pool' = [pool EXCEPT ![t] = @ \ {v}], go' = go
  PROVE  OwnInv'
  <1>1. /\ pool'[t] = pool[t] \ {v}
        /\ \A u \in Templates \ {t} : pool'[u] = pool[u] /\ v \notin pool[u]
    BY DEF TypeInv, TypeOK, OwnInv, OneOwner
  <1>2. v # NoVm /\ v \notin go
    BY FleetAssumption DEF TypeInv, TypeOK, OwnInv, NotReleased
  <1>3. \A o \in Threads \ {th} : Keeps(o) /\ (Holding(o) => cur[o] # v)
    BY OthersKeep DEF Moved, OwnInv, OneOwner
  <1>4. cur'[th] = v
    BY DEF Moved
  <1>5. OneOwner'
    BY <1>1, <1>2, <1>3, <1>4, SMTT(60) DEF OwnInv, OneOwner, Keeps
  <1>6. NotReleased'
    BY <1>1, <1>2, <1>3, <1>4 DEF OwnInv, NotReleased, Keeps
  <1> QED
    BY <1>5, <1>6 DEF OwnInv

\* A thread releases the worker in its hands and holds none afterwards.
LEMMA ReleasingOwnInv ==
  ASSUME TypeInv, OwnInv, NEW th \in Threads, Holding(th), ~Holding(th)',
         pool' = pool, go' \subseteq go \cup {cur[th]},
         \A o \in Threads \ {th} : Keeps(o)
  PROVE  OwnInv'
  BY SMTT(60) DEF OwnInv, OneOwner, NotReleased, Keeps

\* A starting thread holds a fresh id, or hands on the one it has.
LEMMA StartingOwnInv ==
  ASSUME TypeInv, OwnInv, NEW th \in Threads, Starting(th)
  PROVE  OwnInv'
  <1>1. ASSUME NEW v \in Vms, Reserve(th, v) PROVE OwnInv'
    <2>1. Moved(th, "spawn", v) /\ UNCHANGED <<pool, go>>
      BY <1>1, AssignMoves DEF Reserve, procVars
    <2>2. v # NoVm /\ v \notin go /\ \A t \in Templates : v \notin pool[t]
      BY <1>1, FleetAssumption DEF Reserve, TypeInv, TypeOK
    <2>3. \A o \in Threads \ {th} : Keeps(o) /\ cur[o] # v
      <3>1. \A o \in Threads : cur[o] # v
        BY <1>1, FleetAssumption DEF Reserve, TypeInv, TypeOK
      <3> QED
        BY <2>1, <3>1, OthersKeep DEF Moved
    <2> QED
      BY <2>1, <2>2, <2>3 DEF Moved, OwnInv, OneOwner, NotReleased, Keeps
  <1>2. CASE Refuse(th)
    <2>1. UNCHANGED <<pool, go>> /\ (Goto(th, "evict") \/ Finish(th))
      BY <1>2 DEF Refuse, procVars
    <2> QED
      BY <2>1, GotoOwnInv, FinishOwnInv
  <1>3. CASE SpawnAbandoned(th) \/ SpawnFailed(th) \/ WarmFailed(th)
    <2>1. UNCHANGED <<pool, go>> /\ Finish(th)
      BY <1>3 DEF SpawnAbandoned, SpawnFailed, WarmFailed, procVars
    <2> QED
      BY <2>1, FinishOwnInv
  <1>4. CASE Spawn(th) \/ RecordPid(th) \/ Register(th)
    <2>1. /\ UNCHANGED <<pool, go>>
          /\ Holding(th)
          /\ Goto(th, "record") \/ Goto(th, "warm") \/ Goto(th, AfterWarm(th))
      BY <1>4 DEF Spawn, RecordPid, Register, procVars, Holding
    <2> QED
      BY <2>1, GotoOwnInv
  <1> QED
    BY <1>1, <1>2, <1>3, <1>4 DEF Starting

\* The steps of a connection thread besides starting a worker.
LEMMA HandlerOwnInv ==
  ASSUME TypeInv, OwnInv, NEW h \in Threads, Handler(h), ~Starting(h)
  PROVE  OwnInv'
  <1>1. ASSUME NEW t \in Templates, NEW v \in pool[t], EvictPop(h, t, v)
        PROVE  OwnInv'
    <2>1. Moved(h, "evict_dereg", v)
      BY <1>1, AssignMoves DEF EvictPop
    <2>2. pool' = [pool EXCEPT ![t] = @ \ {v}] /\ go' = go
      BY <1>1 DEF EvictPop, procVars
    <2> QED
      BY <2>1, <2>2, TakingOwnInv
  <1>2. CASE EvictDeregister(h)
    <2>1. Moved(h, "reserve", NoVm) /\ UNCHANGED <<pool, go>>
      BY <1>2, AssignMoves DEF EvictDeregister, procVars
    <2>2. \A o \in Threads : Keeps(o)
      BY <2>1, OthersKeep DEF Moved, Keeps, Holding
    <2> QED
      BY <2>1, <2>2, LettingGo
  <1>3. CASE \/ EvictNone(h) \/ RelayAbandoned(h) \/ ForkReleaseFailed(h)
             \/ ExecDone(h) \/ Served(h)
    <2>1. UNCHANGED <<pool, go>> /\ Finish(h)
      BY <1>3 DEF EvictNone, RelayAbandoned, ForkReleaseFailed, ExecDone,
                  Served, procVars
    <2> QED
      BY <2>1, FinishOwnInv
  <1>4. CASE SetRuntime(h) \/ ForkMiss(h)
    <2>1. /\ UNCHANGED <<pool, go>>
          /\ Goto(h, "serve") \/ Goto(h, "reserve") \/ Finish(h)
      BY <1>4 DEF SetRuntime, ForkMiss, procVars
    <2> QED
      BY <2>1, GotoOwnInv, FinishOwnInv
  <1>5. ASSUME NEW v \in pool[ref[h]], ForkPop(h, v) PROVE OwnInv'
    <2>1. Moved(h, "release", v)
      BY <1>5, AssignMoves DEF ForkPop
    <2>2. pool' = [pool EXCEPT ![ref[h]] = @ \ {v}] /\ go' = go
      BY <1>5 DEF ForkPop, procVars
    <2>3. ref[h] \in Templates
      BY DEF TypeInv, TypeOK
    <2> QED
      BY <2>1, <2>2, <2>3, TakingOwnInv
  <1>6. ASSUME NEW r \in Refillers, ForkRelease(h, r) PROVE OwnInv'
    <2>1. /\ cur' = cur
          /\ pc' = [pc EXCEPT ![r] = "check", ![h] = "serve"]
          /\ pc[h] = "release"
          /\ go' = go \cup {cur[h]} /\ pool' = pool
      BY <1>6 DEF ForkRelease, StartRefill
    <2>2. /\ pc'[h] = "serve"
          /\ \A o \in Threads \ {h} : pc'[o] \in {pc[o], "check"}
      BY <2>1, BothThreads DEF TypeInv, TypeOK
    <2>3. Holding(h) /\ ~Holding(h)' /\ \A o \in Threads \ {h} : Keeps(o)
      BY <2>1, <2>2 DEF Holding, Keeps
    <2> QED
      BY <2>1, <2>3, ReleasingOwnInv
  <1>7. CASE ExecRelease(h)
    <2>1. /\ Moved(h, "exec_wait", cur[h])
          /\ pc[h] = "release"
          /\ go' \subseteq go \cup {cur[h]} /\ pool' = pool
      BY <1>7, GotoMoves DEF ExecRelease
    <2>2. Holding(h) /\ ~Holding(h)' /\ \A o \in Threads \ {h} : Keeps(o)
      BY <2>1, OthersKeep DEF Moved, Holding
    <2> QED
      BY <2>1, <2>2, ReleasingOwnInv
  <1>8. CASE Exit(h)
    BY <1>8 DEF Exit, Stop, OwnInv, OneOwner, NotReleased, Holding
  <1> QED
    BY <1>1, <1>2, <1>3, <1>4, <1>5, <1>6, <1>7, <1>8 DEF Handler

\* Taking a worker out of a pool, putting one in and releasing one leave every
\* worker with one owner.
LEMMA NextOwnInv == TypeInv /\ OwnInv /\ [Next]_vars => OwnInv'
  <1> SUFFICES ASSUME TypeInv, OwnInv, [Next]_vars PROVE OwnInv'
    OBVIOUS
  <1>1. ASSUME NEW h \in Handlers, NEW o \in Requests, NEW t \in Templates,
               Accept(h, o, t)
        PROVE  OwnInv'
    <2>1. UNCHANGED <<pool, go, cur>> /\ pc' = [pc EXCEPT ![h] = pc'[h]]
      BY <1>1, BothThreads DEF Accept, TypeInv, TypeOK
    <2>2. pc'[h] \in {"pop", "exit", "reserve"}
      BY <1>1, BothThreads DEF Accept, TypeInv, TypeOK
    <2>3. \A o2 \in Threads : Keeps(o2)
      BY <2>1, <2>2 DEF TypeInv, TypeOK, Keeps, Holding
    <2> QED
      BY <2>1, <2>3, LettingGo
  <1>2. ASSUME NEW h \in Handlers, ClientGone(h) PROVE OwnInv'
    <2>1. UNCHANGED <<pool, go>> /\ (Finish(h) \/ UNCHANGED <<pc, cur>>)
      BY <1>2 DEF ClientGone, procVars, threadVars
    <2>2. CASE UNCHANGED <<pc, cur>>
      BY <2>1, <2>2, LettingGo DEF Keeps, Holding
    <2> QED
      BY <2>1, <2>2, FinishOwnInv, BothThreads
  <1>3. ASSUME NEW r \in Refillers, RefillCheck(r) PROVE OwnInv'
    <2>1. UNCHANGED <<pool, go>> /\ (Goto(r, "reserve") \/ Finish(r))
      BY <1>3 DEF RefillCheck, procVars
    <2> QED
      BY <2>1, GotoOwnInv, FinishOwnInv, BothThreads
  <1>4. ASSUME NEW r \in Refillers, RefillPush(r) PROVE OwnInv'
    <2> DEFINE t == ref[r]
               v == cur[r]
    <2>1. /\ Moved(r, "check", NoVm) /\ go' = go
          /\ pc[r] = "push" /\ r \in Threads /\ t \in Templates
      BY <1>4, AssignMoves, BothThreads
         DEF RefillPush, procVars, TypeInv, TypeOK
    <2>2. /\ pool'[t] = pool[t] \cup {v}
          /\ \A u \in Templates \ {t} : pool'[u] = pool[u]
      BY <1>4, <2>1 DEF RefillPush, TypeInv, TypeOK
    <2>3. /\ Holding(r) /\ ~Holding(r)'
          /\ v \notin go /\ \A u \in Templates : v \notin pool[u]
          /\ \A o \in Threads \ {r} : Keeps(o) /\ (Holding(o) => cur[o] # v)
      BY <2>1, OthersKeep DEF Moved, Holding, OwnInv, OneOwner, NotReleased
    <2> HIDE DEF t, v
    <2>4. OneOwner'
      BY <2>1, <2>2, <2>3, SMTT(60) DEF OwnInv, OneOwner, Keeps
    <2>5. NotReleased'
      BY <2>1, <2>2, <2>3 DEF OwnInv, NotReleased, Keeps
    <2> QED
      BY <2>4, <2>5 DEF OwnInv
  <1>5. ASSUME NEW v \in Vms, SupDepool(v) PROVE OwnInv'
    <2>1. /\ UNCHANGED <<pc, cur, go>>
          /\ \A t \in Templates : pool'[t] \subseteq pool[t]
      BY <1>5 DEF SupDepool, threadVars, TypeInv, TypeOK
    <2> QED
      BY <2>1 DEF OwnInv, OneOwner, NotReleased, Holding
  <1>6. ASSUME NEW v \in Vms,
               Supervise(v) \/ SupDeregister(v) \/ Kill(v) \/ Worker(v)
        PROVE  OwnInv'
    <2>1. UNCHANGED <<pc, cur, pool, go>>
      BY <1>6 DEF Supervise, SupDeregister, Kill, Worker, Warmed, Ungate,
                  HangupStop, WorkerExit, threadVars, procVars
    <2> QED
      BY <2>1, LettingGo DEF Keeps, Holding
  <1>7. CASE Crash
    BY <1>7 DEF Crash, Stop, OwnInv, OneOwner, NotReleased, Holding
  <1>8. CASE UNCHANGED vars
    BY <1>8, LettingGo DEF vars, procVars, threadVars, Keeps, Holding
  <1> QED
    BY <1>1, <1>2, <1>3, <1>4, <1>5, <1>6, <1>7, <1>8, StartingOwnInv,
       HandlerOwnInv, BothThreads DEF Next, Client, Refiller, Supervisor

\* Ownership holds throughout.
LEMMA OwnInvariant == Spec => []OwnInv
  <1>1. Init => OwnInv
    BY DEF Init, OwnInv, OneOwner, NotReleased, Holding
  <1> QED
    BY <1>1, NextOwnInv, TypeInvariant, PTL DEF Spec

\* However forks, evictions and refills of any number of threads race for the
\* pools, no worker is handed to two of them.
THEOREM SingleOwner == Spec => []OneOwner
  <1>1. OwnInv => OneOwner
    BY DEF OwnInv
  <1> QED
    BY <1>1, OwnInvariant, PTL

\* Budget pressure never takes a worker that was released to a client.
THEOREM EvictionSparesClients == Spec => []EvictsOnlyUnreleased
  <1>1. OwnInv => EvictsOnlyUnreleased
    BY DEF OwnInv, NotReleased, EvictsOnlyUnreleased, Holding, Threads
  <1> QED
    BY <1>1, OwnInvariant, PTL


-----------------------------------------------------------------------------
(***************************************************************************)
(* Admission.  Only `reserve` adds an entry or changes the reference of    *)
(* one, so the sum of reservations grows in that step alone.               *)
(***************************************************************************)

\* A step of the fleet is a reservation, or keeps or removes entries.
LEMMA ReserveOrShrink ==
  ASSUME [Next]_vars
  PROVE  \/ \E th \in Threads, v \in Vms : Reserve(th, v)
         \/ reg' \subseteq reg /\ (tmpl' = tmpl \/ reg' = {})
  <1> DEFINE Shrinks == reg' \subseteq reg /\ (tmpl' = tmpl \/ reg' = {})
  <1> USE DEF entryVars, Deregister
  <1>1. ASSUME NEW th \in Threads, Starting(th)
        PROVE  (\E v \in Vms : Reserve(th, v)) \/ Shrinks
    BY <1>1 DEF Starting, Refuse, SpawnAbandoned, SpawnFailed, Spawn,
                RecordPid, Register, WarmFailed
  <1>2. ASSUME NEW h \in Handlers, Client(h) PROVE Shrinks
    BY <1>2 DEF Client, Accept, ClientGone
  <1>3. ASSUME NEW h \in Handlers, Handler(h), ~Starting(h) PROVE Shrinks
    BY <1>3 DEF Handler, EvictPop, EvictNone, EvictDeregister, SetRuntime,
                RelayAbandoned, ForkPop, ForkMiss, ForkRelease,
                ForkReleaseFailed, ExecRelease, ExecDone, Served, Exit, Stop
  <1>4. ASSUME NEW r \in Refillers, Refiller(r), ~Starting(r) PROVE Shrinks
    BY <1>4 DEF Refiller, RefillCheck, RefillPush
  <1>5. ASSUME NEW v \in Vms, Supervisor(v) \/ Kill(v) \/ Worker(v)
        PROVE  Shrinks
    BY <1>5 DEF Supervisor, Supervise, SupDeregister, SupDepool, Kill, Worker,
                Warmed, Ungate, HangupStop, WorkerExit
  <1>6. Crash \/ UNCHANGED vars => Shrinks
    BY DEF Crash, Stop, vars
  <1> QED
    BY <1>1, <1>2, <1>3, <1>4, <1>5, <1>6 DEF Next, Threads

\* The reservation of one VM is as large as its RAM.
LEMMA OneVm ==
  ASSUME NEW v, NEW n \in Nat
  PROVE  /\ IsFiniteSet({v} \X (1..n))
         /\ Cardinality({v} \X (1..n)) = n
  <1>1. IsFiniteSet(1..n) /\ Cardinality(1..n) = n
    BY FS_Interval, SMTT(60)
  <1>2. IsFiniteSet({v}) /\ Cardinality({v}) = 1
    BY FS_Singleton
  <1> QED
    BY <1>1, <1>2, FS_Product, SMTT(60)

\* Disjoint reservations add up.
LEMMA DisjointSum ==
  ASSUME NEW S, NEW T, IsFiniteSet(S), IsFiniteSet(T), S \cap T = {}
  PROVE  /\ IsFiniteSet(S \cup T)
         /\ Cardinality(S \cup T) = Cardinality(S) + Cardinality(T)
  <1>1. /\ IsFiniteSet(S \cup T)
        /\ Cardinality(S \cup T)
             = Cardinality(S) + Cardinality(T) - Cardinality(S \cap T)
    BY FS_Union
  <1>2. Cardinality(S \cap T) = 0
    BY FS_EmptySet
  <1>3. Cardinality(S) \in Nat /\ Cardinality(T) \in Nat
    BY FS_CardinalityType
  <1> QED
    BY <1>1, <1>2, <1>3, SMTT(60)

\* The inductive form of BudgetRespected: the sum is one over a finite set.
BudgetInv == IsFiniteSet(Units(reg)) /\ BudgetRespected

\* `reserve` adds a fresh id, so it adds exactly the RAM it asked for.
LEMMA ReserveKeepsBudget ==
  ASSUME TypeInv, BudgetInv, NEW th \in Threads, NEW v \in Vms, Reserve(th, v)
  PROVE  BudgetInv'
  <1> DEFINE New == {v} \X (1..Ram[ref[th]])
  <1>1. Ram[ref[th]] \in Nat /\ Budget \in Nat
    BY FleetAssumption DEF TypeInv, TypeOK
  <1>2. Units(reg)' = Units(reg) \cup New
    <2>1. reg' = reg \cup {v} /\ v \notin reg
      BY DEF Reserve, TypeInv, TypeOK
    <2>2. tmpl'[v] = ref[th] /\ \A w \in reg : tmpl'[w] = tmpl[w]
      BY <2>1 DEF Reserve, TypeInv, TypeOK
    <2> QED
      BY <2>1, <2>2, SMTT(60) DEF Units
  <1>3. Units(reg) \cap New = {}
    BY SMTT(60) DEF Units, Reserve, TypeInv, TypeOK
  <1>4. IsFiniteSet(New) /\ Cardinality(New) = Ram[ref[th]]
    BY <1>1, OneVm
  <1>5. IsFiniteSet(Units(reg)) /\ Cardinality(Units(reg)) \in Nat
    BY FS_CardinalityType DEF BudgetInv
  <1>6. /\ IsFiniteSet(Units(reg) \cup New)
        /\ Cardinality(Units(reg) \cup New)
             = Cardinality(Units(reg)) + Cardinality(New)
    BY <1>3, <1>4, <1>5, DisjointSum
  <1>7. Used' = Used + Ram[ref[th]]
    BY <1>2, <1>4, <1>6 DEF Used
  <1> QED
    BY <1>2, <1>6, <1>7 DEF BudgetInv, BudgetRespected, Reserve

\* A step that only removes entries frees reservations.
LEMMA ShrinkKeepsBudget ==
  ASSUME BudgetInv, reg' \subseteq reg, tmpl' = tmpl \/ reg' = {}
  PROVE  BudgetInv'
  <1>1. Units(reg)' \in SUBSET Units(reg)
    BY DEF Units
  <1>2. /\ IsFiniteSet(Units(reg)')
        /\ Cardinality(Units(reg)') <= Cardinality(Units(reg))
    BY <1>1, FS_Subset DEF BudgetInv
  <1>3. Cardinality(Units(reg)) \in Nat /\ Cardinality(Units(reg)') \in Nat
    BY <1>2, FS_CardinalityType DEF BudgetInv
  <1> QED
    BY <1>2, <1>3, FleetAssumption, SMTT(60) DEF BudgetInv, BudgetRespected, Used

\* Admission control holds the ceiling for every fleet: whatever the number of
\* threads, the templates' RAM and the budget, and however reservations,
\* evictions, exits and failures interleave, the entries of the registry are
\* never accounted at more than the budget.
THEOREM AdmissionHolds == Spec => []BudgetRespected
  <1>1. Init => BudgetInv
    <2> SUFFICES ASSUME Init PROVE BudgetInv
      OBVIOUS
    <2>1. Units(reg) = {}
      BY DEF Init, Units
    <2> QED
      BY <2>1, FS_EmptySet, FleetAssumption, SMTT(60)
         DEF BudgetInv, BudgetRespected, Used
  <1>2. TypeInv /\ BudgetInv /\ [Next]_vars => BudgetInv'
    BY ReserveOrShrink, ReserveKeepsBudget, ShrinkKeepsBudget
  <1>3. BudgetInv => BudgetRespected
    BY DEF BudgetInv
  <1> QED
    BY <1>1, <1>2, <1>3, TypeInvariant, PTL DEF Spec

-----------------------------------------------------------------------------
(***************************************************************************)
(* No worker escapes.  While amberd is up, a worker that has no entry is   *)
(* about to be killed; this rests on who may remove an entry, and when.    *)
(***************************************************************************)

Doomed == \A v \in Vms : Live(v) /\ v \notin reg => v \in kill /\ sup[v] = "watch"

\* An id that was not handed out has no process and no supervisor.
Unminted == \A v \in Vms \ minted : proc[v] = "none" /\ sup[v] = "none"

\* A supervisor that returned from its wait has reaped a dead worker.
Reaped ==
  \A v \in Vms : sup[v] \in {"exited", "depool", "done"} => proc[v] = "dead"

\* A thread has a supervisor started for its id when spawn_paused returns it,
\* not before; until it spawns the process the reservation is in the registry.
Placed(th) ==
  /\ pc[th] = "spawn" => cur[th] \in reg /\ ~Live(cur[th])
  /\ pc[th] \in {"spawn", "record", "warm"} => sup[cur[th]] = "none"
  /\ pc[th] \in {"push", "release", "evict_dereg"} => sup[cur[th]] # "none"

PoolSupervised == \A t \in Templates : \A v \in pool[t] : sup[v] # "none"

DoomInv == up =>
  /\ Doomed /\ Unminted /\ Reaped /\ PoolSupervised
  /\ \A th \in Threads : Placed(th)

\* No process came to life, came back from the dead or took an unused id.
NoBirth ==
  /\ \A v \in Vms : Live(v)' => Live(v)
  /\ \A v \in Vms : proc[v] = "dead" => proc'[v] = "dead"
  /\ \A v \in Vms \ minted : proc[v] = "none" => proc'[v] = "none"

\* A thread that has an id in its hands is where it was.
Rests(th) == Holding(th)' => pc'[th] = pc[th] /\ cur'[th] = cur[th]

\* What the proofs below need of the types.
LEMMA HeldIsVm ==
  ASSUME TypeInv
  PROVE  /\ \A th \in Threads : Holding(th) => cur[th] \in Vms
         /\ \A t \in Templates : pool[t] \subseteq Vms
  BY DEF TypeInv, TypeOK, BusyHasVm, Busy

\* The entries and supervisors stay, no worker is born, and the threads move
\* within the places where Placed says nothing.
LEMMA QuietDoomInv ==
  ASSUME TypeInv, DoomInv, UNCHANGED <<minted, reg, sup, pool, up>>, NoBirth,
         kill \subseteq kill', \A th \in Threads : Rests(th)
  PROVE  DoomInv'
  <1> SUFFICES ASSUME up PROVE DoomInv'
    BY DEF DoomInv
  <1>1. Doomed' /\ Unminted' /\ Reaped' /\ PoolSupervised'
    BY DEF DoomInv, Doomed, Unminted, Reaped, PoolSupervised, NoBirth
  <1>2. \A th \in Threads : Placed(th) /\ Rests(th)
    BY DEF DoomInv
  <1>3. ASSUME NEW th \in Threads PROVE Placed(th)'
    <2>1. CASE ~Holding(th)'
      BY <2>1 DEF Holding, Placed
    <2>2. CASE Holding(th)'
      <3>1. pc'[th] = pc[th] /\ cur'[th] = cur[th] /\ Placed(th)
        BY <1>2, <2>2 DEF Rests
      <3>2. pc[th] = "spawn" => ~Live(cur[th])'
        BY <3>1, HeldIsVm DEF Placed, NoBirth, Holding
      <3> QED
        BY <3>1, <3>2 DEF Placed
    <2> QED
      BY <2>1, <2>2
  <1> QED
    BY <1>1, <1>3 DEF DoomInv

\* The processes are as they were.
LEMMA SameProcNoBirth == proc' = proc => NoBirth
  BY DEF NoBirth, Live

\* Threads that finish, or go where nothing is asked of them.
LEMMA FinishDoomInv ==
  ASSUME TypeInv, DoomInv, UNCHANGED <<minted, reg, proc, sup, pool, up>>,
         kill \subseteq kill', NEW th \in Threads, Finish(th)
  PROVE  DoomInv'
  <1>1. Moved(th, "idle", NoVm)
    BY FinishMoves
  <1>2. \A o \in Threads : Rests(o)
    BY <1>1 DEF Moved, OnlyMoved, Rests, Holding
  <1> QED
    BY <1>2, QuietDoomInv, SameProcNoBirth

LEMMA GotoDoomInv ==
  ASSUME TypeInv, DoomInv, UNCHANGED <<minted, reg, proc, sup, pool, up>>,
         kill \subseteq kill', NEW th \in Threads,
         NEW l \in {"reserve", "evict", "exec_wait", "serve"}, Goto(th, l)
  PROVE  DoomInv'
  <1>1. Moved(th, l, cur[th])
    BY GotoMoves
  <1>2. \A o \in Threads : Rests(o)
    BY <1>1 DEF Moved, OnlyMoved, Rests, Holding
  <1> QED
    BY <1>2, QuietDoomInv, SameProcNoBirth

\* One thread moves to a place where it is Placed again, and the pools hold
\* nobody new without a supervisor.
LEMMA PlacingDoomInv ==
  ASSUME DoomInv, UNCHANGED <<minted, reg, proc, sup, kill, up>>,
         NEW th \in Threads, OnlyMoved(th), up => Placed(th)',
         up => PoolSupervised'
  PROVE  DoomInv'
  <1> SUFFICES ASSUME up PROVE DoomInv'
    BY DEF DoomInv
  <1>1. Doomed' /\ Unminted' /\ Reaped'
    BY DEF DoomInv, Doomed, Unminted, Reaped, Live
  <1>2. \A o \in Threads \ {th} : Placed(o)'
    BY DEF DoomInv, Placed, OnlyMoved, Live
  <1> QED
    BY <1>1, <1>2 DEF DoomInv

\* Thread th drops the entry of its worker, which is not alive, and finishes.
LEMMA UnregisterDoomInv ==
  ASSUME TypeInv, OwnInv, DoomInv, NEW th \in Threads, Holding(th),
         ~Live(cur[th]), Deregister(cur[th]), Finish(th),
         UNCHANGED <<kill, pool, proc, sup, up>>
  PROVE  DoomInv'
  <1> SUFFICES ASSUME up PROVE DoomInv'
    BY DEF DoomInv
  <1>1. reg' = reg \ {cur[th]} /\ minted' = minted
    BY DEF Deregister
  <1>2. Doomed' /\ Unminted' /\ Reaped' /\ PoolSupervised'
    BY <1>1 DEF DoomInv, Doomed, Unminted, Reaped, PoolSupervised, Live
  <1>3. Moved(th, "idle", NoVm)
    BY FinishMoves
  <1>4. \A o \in Threads \ {th} : Holding(o) => cur[o] # cur[th]
    BY DEF OwnInv, OneOwner
  <1>5. ASSUME NEW o \in Threads \ {th} PROVE Placed(o)'
    <2>1. Placed(o) /\ pc'[o] = pc[o] /\ cur'[o] = cur[o]
      BY <1>3 DEF DoomInv, Moved, OnlyMoved
    <2>2. pc[o] = "spawn" => cur[o] # cur[th]
      BY <1>4 DEF Holding
    <2> QED
      BY <1>1, <2>1, <2>2 DEF Placed, Live
  <1>6. Placed(th)'
    BY <1>3 DEF Moved, Placed
  <1> QED
    BY <1>2, <1>5, <1>6 DEF DoomInv

\* The supervisor of v, which thread th holds if anybody does, starts to watch.
LEMMA WatchDoomInv ==
  ASSUME TypeInv, OwnInv, DoomInv, NEW th \in Threads, Holding(th),
         pc[th] \in {"record", "warm"}, NEW l, NEW x, Moved(th, l, x),
         l \notin {"spawn", "record", "warm"}, x = cur[th] \/ l = "idle",
         sup' = [sup EXCEPT ![cur[th]] = "watch"],
         UNCHANGED <<minted, reg, kill, pool, proc, up>>
  PROVE  DoomInv'
  <1> SUFFICES ASSUME up PROVE DoomInv'
    BY DEF DoomInv
  <1> DEFINE w == cur[th]
  <1>1. w \in minted /\ w \in Vms /\ sup[w] = "none"
    BY DEF TypeInv, TypeOK, BusyHasVm, Busy, DoomInv, Placed
  <1>2. sup'[w] = "watch" /\ \A v \in Vms \ {w} : sup'[v] = sup[v]
    BY <1>1 DEF TypeInv, TypeOK
  <1>3. \A o \in Threads \ {th} : Holding(o) => cur[o] # w /\ cur[o] \in Vms
    BY DEF OwnInv, OneOwner, TypeInv, TypeOK
  <1>4. \A t \in Templates : w \notin pool[t] /\ pool[t] \subseteq Vms
    BY DEF OwnInv, OneOwner, TypeInv, TypeOK
  <1>5. Moved(th, l, x) /\ (x = w \/ l = "idle")
    OBVIOUS
  <1> HIDE DEF w
  <1>6. Doomed' /\ Unminted' /\ Reaped'
    BY <1>1, <1>2, SMTT(60) DEF DoomInv, Doomed, Unminted, Reaped, Live
  <1>7. PoolSupervised'
    BY <1>2, <1>4 DEF DoomInv, PoolSupervised
  <1>8. ASSUME NEW o \in Threads \ {th} PROVE Placed(o)'
    <2>1. Placed(o) /\ pc'[o] = pc[o] /\ cur'[o] = cur[o]
      BY <1>5 DEF DoomInv, Moved, OnlyMoved
    <2>2. Holding(o) => sup'[cur[o]] = sup[cur[o]]
      BY <1>2, <1>3
    <2> QED
      BY <2>1, <2>2 DEF Placed, Holding, Live
  <1>9. Placed(th)'
    BY <1>2, <1>5 DEF Moved, Placed
  <1> QED
    BY <1>6, <1>7, <1>8, <1>9 DEF DoomInv

\* What a thread does while it starts a worker.
LEMMA StartingDoomInv ==
  ASSUME TypeInv, OwnInv, DoomInv, NEW th \in Threads, Starting(th)
  PROVE  DoomInv'
  <1>1. ASSUME NEW v \in Vms, Reserve(th, v) PROVE DoomInv'
    <2> SUFFICES ASSUME up PROVE DoomInv'
      BY <1>1 DEF DoomInv, Reserve
    <2>1. /\ Moved(th, "spawn", v) /\ v \notin minted
          /\ minted' = minted \cup {v} /\ reg' = reg \cup {v}
          /\ UNCHANGED <<proc, sup, kill, pool>>
      BY <1>1, AssignMoves DEF Reserve, procVars
    <2>2. proc[v] = "none" /\ sup[v] = "none"
      BY <2>1 DEF DoomInv, Unminted
    <2>3. Doomed' /\ Unminted' /\ Reaped' /\ PoolSupervised'
      BY <2>1 DEF DoomInv, Doomed, Unminted, Reaped, PoolSupervised, Live
    <2>4. \A o \in Threads \ {th} : Placed(o)'
      BY <2>1 DEF DoomInv, Placed, Moved, OnlyMoved, Live
    <2>5. Placed(th)'
      BY <2>1, <2>2 DEF Moved, Placed, Live
    <2> QED
      BY <2>3, <2>4, <2>5 DEF DoomInv
  <1>2. CASE Refuse(th)
    <2>1. UNCHANGED <<minted, reg, proc, sup, pool, up, kill>>
      BY <1>2 DEF Refuse, entryVars, procVars
    <2>2. Goto(th, "evict") \/ Finish(th)
      BY <1>2 DEF Refuse
    <2> QED
      BY <2>1, <2>2, GotoDoomInv, FinishDoomInv
  <1>3. CASE SpawnAbandoned(th)
    <2>1. UNCHANGED <<minted, reg, proc, sup, pool, up, kill>> /\ Finish(th)
      BY <1>3 DEF SpawnAbandoned, entryVars, procVars
    <2> QED
      BY <2>1, FinishDoomInv
  <1>4. CASE SpawnFailed(th) \/ WarmFailed(th)
    <2>1. /\ Deregister(cur[th]) /\ Finish(th) /\ Holding(th)
          /\ UNCHANGED <<kill, pool, proc, sup, up>>
      BY <1>4 DEF SpawnFailed, WarmFailed, procVars, Holding
    <2>2. up => ~Live(cur[th])
      BY <1>4 DEF SpawnFailed, WarmFailed, DoomInv, Placed, Live
    <2>3. CASE ~up
      BY <2>1, <2>3 DEF DoomInv
    <2> QED
      BY <2>1, <2>2, <2>3, UnregisterDoomInv
  <1>5. CASE Spawn(th)
    <2> SUFFICES ASSUME up PROVE DoomInv'
      BY <1>5 DEF DoomInv, Spawn
    <2> DEFINE w == cur[th]
    <2>1. /\ Moved(th, "record", w) /\ pc[th] = "spawn"
          /\ UNCHANGED <<minted, reg, sup, kill, pool>>
      BY <1>5, GotoMoves DEF Spawn, entryVars
    <2>2. w \in Vms /\ w \in reg /\ sup[w] = "none"
      BY <2>1 DEF DoomInv, Placed, TypeInv, TypeOK
    <2>3. \A v \in Vms \ {w} : proc'[v] = proc[v]
      BY <1>5, <2>2 DEF Spawn, TypeInv, TypeOK
    <2>4. \A o \in Threads \ {th} : pc[o] = "spawn" => cur[o] # w
      BY <2>1 DEF OwnInv, OneOwner, Holding
    <2> HIDE DEF w
    <2>5. Doomed' /\ Unminted' /\ Reaped' /\ PoolSupervised'
      BY <2>1, <2>2, <2>3
         DEF DoomInv, Doomed, Unminted, Reaped, PoolSupervised, Live, TypeInv,
             TypeOK
    <2>6. ASSUME NEW o \in Threads \ {th} PROVE Placed(o)'
      <3>1. Placed(o) /\ pc'[o] = pc[o] /\ cur'[o] = cur[o]
        BY <2>1 DEF DoomInv, Moved, OnlyMoved
      <3>2. pc[o] = "spawn" => proc'[cur[o]] = proc[cur[o]]
        BY <2>3, <2>4, <3>1 DEF Placed, TypeInv, TypeOK
      <3> QED
        BY <2>1, <3>1, <3>2 DEF Placed, Live
    <2>7. Placed(th)'
      BY <2>1, <2>2 DEF Moved, Placed
    <2> QED
      BY <2>5, <2>6, <2>7 DEF DoomInv
  <1>6. CASE RecordPid(th)
    <2>1. /\ UNCHANGED <<minted, reg, proc, sup, kill, pool, up>>
          /\ Moved(th, "warm", cur[th]) /\ pc[th] = "record"
      BY <1>6, GotoMoves DEF RecordPid, procVars
    <2>2. up => Placed(th)'
      BY <2>1 DEF DoomInv, Moved, Placed
    <2>3. up => PoolSupervised'
      BY <2>1 DEF DoomInv, PoolSupervised
    <2> QED
      BY <2>1, <2>2, <2>3, PlacingDoomInv DEF Moved
  <1>7. CASE Register(th)
    <2>1. /\ Moved(th, AfterWarm(th), cur[th])
          /\ pc[th] = "warm" /\ Holding(th)
          /\ sup' = [sup EXCEPT ![cur[th]] = "watch"]
          /\ UNCHANGED <<minted, reg, kill, pool, proc, up>>
      BY <1>7, GotoMoves DEF Register, Holding
    <2>2. AfterWarm(th) \notin {"spawn", "record", "warm"}
      BY DEF AfterWarm
    <2> QED
      BY <2>1, <2>2, WatchDoomInv
  <1> QED
    BY <1>1, <1>2, <1>3, <1>4, <1>5, <1>6, <1>7 DEF Starting

\* A thread takes a supervised worker out of a pool.
LEMMA TakingDoomInv ==
  ASSUME DoomInv, NEW th \in Threads, NEW t \in Templates, NEW v \in pool[t],
         NEW l \in {"release", "evict_dereg"}, Moved(th, l, v),
         \A u \in Templates : pool'[u] \subseteq pool[u],
         UNCHANGED <<minted, reg, proc, sup, kill, up>>
  PROVE  DoomInv'
  <1>1. up => Placed(th)'
    BY DEF DoomInv, PoolSupervised, Moved, Placed
  <1>2. up => PoolSupervised'
    BY DEF DoomInv, PoolSupervised
  <1> QED
    BY <1>1, <1>2, PlacingDoomInv DEF Moved

\* The steps of a connection thread besides starting a worker.
LEMMA HandlerDoomInv ==
  ASSUME TypeInv, OwnInv, DoomInv, NEW h \in Threads, Handler(h), ~Starting(h)
  PROVE  DoomInv'
  <1>1. ASSUME NEW t \in Templates, NEW v \in pool[t], EvictPop(h, t, v)
        PROVE  DoomInv'
    <2>1. Moved(h, "evict_dereg", v)
      BY <1>1, AssignMoves DEF EvictPop
    <2>2. UNCHANGED <<minted, reg, proc, sup, kill, up>>
      BY <1>1 DEF EvictPop, entryVars, procVars
    <2>3. \A u \in Templates : pool'[u] \subseteq pool[u]
      BY <1>1 DEF EvictPop, TypeInv, TypeOK
    <2> QED
      BY <2>1, <2>2, <2>3, TakingDoomInv
  <1>2. ASSUME NEW v \in pool[ref[h]], ForkPop(h, v) PROVE DoomInv'
    <2>1. Moved(h, "release", v)
      BY <1>2, AssignMoves DEF ForkPop
    <2>2. UNCHANGED <<minted, reg, proc, sup, kill, up>>
      BY <1>2 DEF ForkPop, entryVars, procVars
    <2>3. /\ ref[h] \in Templates
          /\ \A u \in Templates : pool'[u] \subseteq pool[u]
      BY <1>2 DEF ForkPop, TypeInv, TypeOK
    <2> QED
      BY <2>1, <2>2, <2>3, TakingDoomInv
  <1>3. CASE \/ EvictNone(h) \/ RelayAbandoned(h) \/ ForkReleaseFailed(h)
             \/ ExecDone(h) \/ Served(h)
    <2>1. UNCHANGED <<minted, reg, proc, sup, pool, up>> /\ Finish(h)
      BY <1>3 DEF EvictNone, RelayAbandoned, ForkReleaseFailed, ExecDone,
                  Served, entryVars, procVars
    <2>2. kill \subseteq kill'
      BY <1>3 DEF EvictNone, RelayAbandoned, ForkReleaseFailed, ExecDone, Served
    <2> QED
      BY <2>1, <2>2, FinishDoomInv
  <1>4. CASE ForkMiss(h) \/ ExecRelease(h)
    <2>1. /\ UNCHANGED <<minted, reg, proc, sup, pool, up, kill>>
          /\ Goto(h, "reserve") \/ Goto(h, "exec_wait")
      BY <1>4 DEF ForkMiss, ExecRelease, entryVars, procVars
    <2> QED
      BY <2>1, GotoDoomInv
  <1>5. ASSUME NEW r \in Refillers, ForkRelease(h, r) PROVE DoomInv'
    <2>1. /\ UNCHANGED <<minted, reg, proc, sup, pool, up, kill, cur>>
          /\ pc' = [pc EXCEPT ![r] = "check", ![h] = "serve"]
      BY <1>5 DEF ForkRelease, StartRefill, entryVars
    <2>2. \A o \in Threads : pc'[o] \in {pc[o], "check", "serve"}
      BY <2>1, BothThreads DEF TypeInv, TypeOK
    <2>3. \A o \in Threads : Rests(o)
      BY <2>1, <2>2 DEF Rests, Holding
    <2> QED
      BY <2>1, <2>3, QuietDoomInv, SameProcNoBirth
  <1>6. CASE SetRuntime(h)
    <2>1. /\ pc[h] = "record" /\ Holding(h)
          /\ sup' = [sup EXCEPT ![cur[h]] = "watch"]
          /\ UNCHANGED <<minted, reg, kill, pool, proc, up>>
          /\ Goto(h, "serve") \/ Finish(h)
      BY <1>6 DEF SetRuntime, Holding
    <2>2. CASE Goto(h, "serve")
      BY <2>1, <2>2, GotoMoves, WatchDoomInv
    <2>3. CASE Finish(h)
      <3>1. Moved(h, "idle", NoVm)
        BY <2>3, FinishMoves
      <3> QED
        BY <2>1, <3>1, WatchDoomInv
    <2> QED
      BY <2>1, <2>2, <2>3
  <1>7. CASE EvictDeregister(h)
    <2> SUFFICES ASSUME up PROVE DoomInv'
      BY <1>7 DEF DoomInv, EvictDeregister
    <2> DEFINE w == cur[h]
    <2>1. /\ pc[h] = "evict_dereg" /\ Moved(h, "reserve", NoVm)
          /\ reg' = reg \ {w} /\ minted' = minted
          /\ kill' = IF w \in reg THEN kill \cup {w} ELSE kill
          /\ UNCHANGED <<pool, proc, sup>>
      BY <1>7, AssignMoves DEF EvictDeregister, Deregister, procVars
    <2>2. sup[w] # "none" /\ w \in Vms /\ sup[w] \in SupStates
      BY <2>1 DEF DoomInv, Placed, TypeInv, TypeOK, BusyHasVm, Busy, Holding
    <2>3. Live(w) => sup[w] = "watch"
      BY <2>2 DEF DoomInv, Reaped, Live, SupStates
    <2>4. \A o \in Threads \ {h} : Holding(o) => cur[o] # w
      BY <2>1 DEF OwnInv, OneOwner, Holding
    <2> HIDE DEF w
    <2>5. Doomed'
      BY <2>1, <2>3 DEF DoomInv, Doomed, Live
    <2>6. Unminted' /\ Reaped' /\ PoolSupervised'
      BY <2>1 DEF DoomInv, Unminted, Reaped, PoolSupervised
    <2>7. \A o \in Threads \ {h} : Placed(o)'
      BY <2>1, <2>4 DEF DoomInv, Moved, OnlyMoved, Placed, Holding, Live
    <2>8. Placed(h)'
      BY <2>1 DEF Moved, Placed
    <2> QED
      BY <2>5, <2>6, <2>7, <2>8 DEF DoomInv
  <1>8. CASE Exit(h)
    BY <1>8 DEF Exit, Stop, DoomInv
  <1> QED
    BY <1>1, <1>2, <1>3, <1>4, <1>5, <1>6, <1>7, <1>8 DEF Handler

\* A supervisor's steps: its worker is dead, and stays so.
LEMMA SupervisorDoomInv ==
  ASSUME TypeInv, OwnInv, DoomInv, NEW v \in Vms, Supervisor(v)
  PROVE  DoomInv'
  <1> SUFFICES ASSUME up PROVE DoomInv'
    BY DEF DoomInv, Supervisor, Supervise, SupDeregister, SupDepool
  <1>0. /\ sup \in [Vms -> SupStates] /\ proc \in [Vms -> ProcStates]
        /\ pool \in [Templates -> SUBSET minted]
    BY DEF TypeInv, TypeOK
  <1>1. /\ sup[v] # "none" /\ sup'[v] \in {"exited", "depool", "done"}
        /\ \A w \in Vms \ {v} : sup'[w] = sup[w]
        /\ UNCHANGED <<minted, pc, cur, up>>
    <2>1. CASE Supervise(v)
      BY <1>0, <2>1 DEF Supervise, entryVars, threadVars
    <2>2. CASE SupDeregister(v)
      BY <1>0, <2>2 DEF SupDeregister, Deregister, threadVars
    <2>3. CASE SupDepool(v)
      BY <1>0, <2>3 DEF SupDepool, entryVars, threadVars
    <2> QED
      BY <2>1, <2>2, <2>3 DEF Supervisor
  <1>2. proc'[v] = "dead" /\ \A w \in Vms \ {v} : proc'[w] = proc[w]
    <2>1. CASE Supervise(v)
      BY <1>0, <2>1 DEF Supervise
    <2>2. CASE SupDeregister(v) \/ SupDepool(v)
      <3>1. proc' = proc /\ sup[v] \in {"exited", "depool"}
        BY <2>2 DEF SupDeregister, SupDepool
      <3> QED
        BY <3>1 DEF DoomInv, Reaped
    <2> QED
      BY <2>1, <2>2 DEF Supervisor
  <1>3. reg \ {v} \subseteq reg' /\ kill \ {v} \subseteq kill'
    BY DEF Supervisor, Supervise, SupDeregister, SupDepool, Deregister,
           entryVars
  <1>4. \A t \in Templates : pool'[t] \subseteq pool[t]
    <2>1. CASE SupDepool(v)
      BY <1>0, <2>1 DEF SupDepool
    <2> QED
      BY <2>1 DEF Supervisor, Supervise, SupDeregister
  <1>5. Doomed' /\ Reaped' /\ Unminted'
    BY <1>1, <1>2, <1>3, SMTT(60) DEF DoomInv, Doomed, Reaped, Unminted, Live
  <1>6. PoolSupervised'
    BY <1>1, <1>4, HeldIsVm DEF DoomInv, PoolSupervised
  <1>7. ASSUME NEW th \in Threads PROVE Placed(th)'
    <2>1. Placed(th) /\ (Holding(th) => cur[th] \in Vms)
      BY HeldIsVm DEF DoomInv
    <2> QED
      BY <1>1, <1>2, <1>3, <2>1 DEF Placed, Holding, Live
  <1> QED
    BY <1>5, <1>6, <1>7 DEF DoomInv

\* Every step of the fleet.
LEMMA NextDoomInv == TypeInv /\ OwnInv /\ DoomInv /\ [Next]_vars => DoomInv'
  <1> SUFFICES ASSUME TypeInv, OwnInv, DoomInv, [Next]_vars PROVE DoomInv'
    OBVIOUS
  <1>1. ASSUME NEW h \in Handlers, NEW o \in Requests, NEW t \in Templates,
               Accept(h, o, t)
        PROVE  DoomInv'
    <2>1. /\ UNCHANGED <<minted, reg, sup, pool, up, kill, cur>>
          /\ pid \subseteq minted
      BY <1>1 DEF Accept, entryVars, TypeInv, TypeOK
    <2>2. \A v \in Vms : proc'[v] = proc[v] \/ (v \in pid /\ proc'[v] = "dead")
      BY <1>1 DEF Accept
    <2>3. \A o2 \in Threads : pc'[o2] \in {pc[o2], "pop", "exit", "reserve"}
      BY <1>1, BothThreads DEF Accept, TypeInv, TypeOK
    <2>4. \A th \in Threads : Rests(th)
      BY <2>1, <2>3 DEF Rests, Holding
    <2>5. NoBirth
      BY <2>1, <2>2 DEF NoBirth, Live
    <2> QED
      BY <2>1, <2>4, <2>5, QuietDoomInv
  <1>2. ASSUME NEW h \in Handlers, ClientGone(h) PROVE DoomInv'
    <2>1. /\ UNCHANGED <<minted, reg, proc, sup, pool, up>>
          /\ kill \subseteq kill'
          /\ Finish(h) \/ UNCHANGED <<pc, cur>>
      BY <1>2 DEF ClientGone, entryVars, procVars, threadVars
    <2>2. CASE UNCHANGED <<pc, cur>>
      BY <2>1, <2>2, QuietDoomInv, SameProcNoBirth DEF Rests
    <2> QED
      BY <2>1, <2>2, FinishDoomInv, BothThreads
  <1>3. ASSUME NEW r \in Refillers, RefillCheck(r) PROVE DoomInv'
    <2>1. UNCHANGED <<minted, reg, proc, sup, pool, up, kill>>
      BY <1>3 DEF RefillCheck, entryVars, procVars
    <2>2. Goto(r, "reserve") \/ Finish(r)
      BY <1>3 DEF RefillCheck
    <2> QED
      BY <2>1, <2>2, GotoDoomInv, FinishDoomInv, BothThreads
  <1>4. ASSUME NEW r \in Refillers, RefillPush(r) PROVE DoomInv'
    <2>1. /\ Moved(r, "check", NoVm) /\ pc[r] = "push" /\ r \in Threads
          /\ UNCHANGED <<minted, reg, proc, sup, kill, up>>
      BY <1>4, AssignMoves, BothThreads DEF RefillPush, entryVars, procVars
    <2>2. \A t \in Templates : pool'[t] \subseteq pool[t] \cup {cur[r]}
      <3>1. pool \in [Templates -> SUBSET minted]
        BY DEF TypeInv, TypeOK
      <3>2. pool' = [pool EXCEPT ![ref[r]] = @ \cup {cur[r]}]
        BY <1>4 DEF RefillPush
      <3> QED
        BY <3>1, <3>2
    <2>3. up => PoolSupervised'
      BY <2>1, <2>2 DEF DoomInv, Placed, PoolSupervised
    <2>4. Placed(r)'
      BY <2>1 DEF Moved, Placed
    <2> QED
      BY <2>1, <2>3, <2>4, PlacingDoomInv DEF Moved
  <1>5. ASSUME NEW v \in Vms, Kill(v) \/ Worker(v) PROVE DoomInv'
    <2>1. /\ UNCHANGED <<minted, reg, sup, pool, up, pc, cur>>
          /\ kill \subseteq kill'
      BY <1>5 DEF Kill, Worker, Warmed, Ungate, HangupStop, WorkerExit,
                  entryVars, procVars, threadVars
    <2>2. NoBirth
      <3>1. CASE proc' = proc
        BY <3>1, SameProcNoBirth
      <3>2. CASE /\ Live(v) /\ \A w \in Vms \ {v} : proc'[w] = proc[w]
                 /\ proc'[v] \in {"gated", "running", "dead"}
        BY <3>2 DEF NoBirth, Live
      <3> QED
        BY <1>5, <3>1, <3>2 DEF Kill, Worker, Warmed, Ungate, HangupStop,
                                WorkerExit, procVars, Live, TypeInv, TypeOK
    <2> QED
      BY <2>1, <2>2, QuietDoomInv DEF Rests
  <1>6. CASE Crash
    BY <1>6 DEF Crash, Stop, DoomInv
  <1>7. CASE UNCHANGED vars
    BY <1>7, QuietDoomInv, SameProcNoBirth
       DEF vars, entryVars, procVars, threadVars, Rests
  <1> QED
    BY <1>1, <1>2, <1>3, <1>4, <1>5, <1>6, <1>7, StartingDoomInv,
       HandlerDoomInv, SupervisorDoomInv, BothThreads DEF Next, Client, Refiller

\* While amberd is up, no live worker is out of reach: one without a registry
\* entry has its kill flag raised and a supervisor that watches the flag.
THEOREM NoWorkerEscapes == Spec => []UnlistedAreDoomed
  <1>1. Init => DoomInv
    BY SMTT(60) DEF Init, DoomInv, Doomed, Unminted, Reaped, PoolSupervised, Placed, Live
  <1>2. DoomInv => UnlistedAreDoomed
    BY DEF DoomInv, Doomed, UnlistedAreDoomed
  <1> QED
    BY <1>1, <1>2, NextDoomInv, TypeInvariant, OwnInvariant, PTL DEF Spec

-----------------------------------------------------------------------------
(***************************************************************************)
(* No reservation leaks.  Where no file or descriptor call fails, the      *)
(* thread that reserved an entry keeps it until a supervisor has it.       *)
(***************************************************************************)

\* The pcs from the reservation to the start of a supervisor.
Staging(th) == pc[th] \in {"spawn", "record", "warm"}

Cared(v) ==
  \/ sup[v] \in {"watch", "exited"}
  \/ \E th \in Threads : Staging(th) /\ cur[th] = v

EntryInv == \A v \in reg : Cared(v)

\* Entries may go, and what cares for one that stays does not change.
LEMMA CaredStays ==
  ASSUME EntryInv, reg' \subseteq reg,
         \A v \in reg' : sup'[v] = sup[v],
         \A th \in Threads :
           Staging(th) /\ cur[th] \in reg' => Staging(th)' /\ cur'[th] = cur[th]
  PROVE  EntryInv'
  BY DEF EntryInv, Cared

\* Thread th, which is not staging or has dropped its entry, goes on.
LEMMA MoverCares ==
  ASSUME EntryInv, reg' \subseteq reg, UNCHANGED sup, NEW th \in Threads, OnlyMoved(th),
         Staging(th) => cur[th] \notin reg'
  PROVE  EntryInv'
  <1>1. ASSUME NEW o \in Threads, Staging(o), cur[o] \in reg'
        PROVE  Staging(o)' /\ cur'[o] = cur[o]
    BY <1>1 DEF Staging, OnlyMoved
  <1> QED
    BY <1>1, CaredStays

\* The supervisor of the entry that thread th staged starts to watch.
LEMMA WatcherCares ==
  ASSUME TypeInv, EntryInv, UNCHANGED reg, NEW th \in Threads, OnlyMoved(th),
         sup' = [sup EXCEPT ![cur[th]] = "watch"]
  PROVE  EntryInv'
  <1> SUFFICES ASSUME NEW v \in reg PROVE Cared(v)'
    BY DEF EntryInv
  <1>1. v \in Vms /\ sup \in [Vms -> SupStates]
    BY DEF TypeInv, TypeOK
  <1>2. CASE v = cur[th]
    BY <1>1, <1>2 DEF Cared
  <1>3. CASE v # cur[th]
    <2>1. sup'[v] = sup[v]
      BY <1>1, <1>3
    <2>2. ASSUME NEW o \in Threads, Staging(o), cur[o] = v PROVE Staging(o)' /\ cur'[o] = v
      BY <1>3, <2>2 DEF Staging, OnlyMoved
    <2> QED
      BY <2>1, <2>2 DEF EntryInv, Cared
  <1> QED
    BY <1>2, <1>3

\* What a thread does while it starts a worker.
LEMMA StartingCares ==
  ASSUME ~IoFails, TypeInv, EntryInv, NEW th \in Threads, Starting(th)
  PROVE  EntryInv'
  <1>1. ASSUME NEW v \in Vms, Reserve(th, v) PROVE EntryInv'
    <2>1. /\ Moved(th, "spawn", v) /\ v \notin minted /\ reg' = reg \cup {v} /\ sup' = sup
          /\ pc[th] = "reserve"
      BY <1>1, AssignMoves DEF Reserve, procVars
    <2>2. Cared(v)'
      BY <2>1 DEF Cared, Staging, Moved
    <2>3. ASSUME NEW w \in reg PROVE Cared(w)'
      <3>1. ASSUME NEW o \in Threads, Staging(o) PROVE Staging(o)' /\ cur'[o] = cur[o]
        BY <2>1, <3>1 DEF Staging, Moved, OnlyMoved
      <3> QED
        BY <2>1, <2>3, <3>1 DEF EntryInv, Cared
    <2> QED
      BY <2>1, <2>2, <2>3 DEF EntryInv
  <1>2. CASE Refuse(th)
    <2>1. UNCHANGED <<reg, sup>> /\ pc[th] = "reserve" /\ (Goto(th, "evict") \/ Finish(th))
      BY <1>2 DEF Refuse, entryVars, procVars
    <2> QED
      BY <2>1, MoverCares, GotoMoves, FinishMoves DEF Staging, Moved
  <1>3. ~SpawnAbandoned(th) /\ ~SpawnFailed(th)
    BY DEF SpawnAbandoned, SpawnFailed
  <1>4. CASE Spawn(th) \/ RecordPid(th)
    <2>1. UNCHANGED <<reg, sup>> /\ (Goto(th, "record") \/ Goto(th, "warm"))
      BY <1>4 DEF Spawn, RecordPid, entryVars, procVars
    <2>2. Moved(th, "record", cur[th]) \/ Moved(th, "warm", cur[th])
      BY <2>1, GotoMoves
    <2>3. ASSUME NEW o \in Threads, Staging(o) PROVE Staging(o)' /\ cur'[o] = cur[o]
      BY <2>2, <2>3 DEF Staging, Moved, OnlyMoved
    <2> QED
      BY <2>1, <2>3, CaredStays
  <1>5. CASE Register(th)
    <2>1. /\ UNCHANGED reg /\ sup' = [sup EXCEPT ![cur[th]] = "watch"]
          /\ Moved(th, AfterWarm(th), cur[th])
      BY <1>5, GotoMoves DEF Register
    <2> QED
      BY <2>1, WatcherCares DEF Moved
  <1>6. CASE WarmFailed(th)
    <2>1. reg' = reg \ {cur[th]} /\ UNCHANGED sup /\ Moved(th, "idle", NoVm)
      BY <1>6, FinishMoves DEF WarmFailed, Deregister, procVars
    <2> QED
      BY <2>1, MoverCares DEF Moved
  <1> QED
    BY <1>1, <1>2, <1>3, <1>4, <1>5, <1>6 DEF Starting

\* The steps of a connection thread besides starting a worker.
LEMMA HandlerCares ==
  ASSUME ~IoFails, TypeInv, EntryInv, NEW h \in Threads, Handler(h), ~Starting(h)
  PROVE  EntryInv'
  <1>1. CASE \/ \E t \in Templates : \E v \in pool[t] : EvictPop(h, t, v)
             \/ \E v \in pool[ref[h]] : ForkPop(h, v)
    <2>1. UNCHANGED <<reg, sup>> /\ ~Staging(h) /\ OnlyMoved(h)
      BY <1>1, AssignMoves DEF EvictPop, ForkPop, entryVars, procVars, Staging, Moved
    <2> QED
      BY <2>1, MoverCares
  <1>2. CASE \/ EvictNone(h) \/ ForkReleaseFailed(h) \/ ExecDone(h) \/ Served(h)
             \/ ForkMiss(h) \/ ExecRelease(h)
    <2>1. /\ UNCHANGED <<reg, sup>> /\ ~Staging(h)
          /\ Finish(h) \/ Goto(h, "reserve") \/ Goto(h, "exec_wait")
      BY <1>2 DEF EvictNone, ForkReleaseFailed, ExecDone, Served, ForkMiss,
                              ExecRelease, entryVars, procVars, Staging
    <2> QED
      BY <2>1, MoverCares, FinishMoves, GotoMoves DEF Moved
  <1>3. ~RelayAbandoned(h)
    BY DEF RelayAbandoned
  <1>4. CASE EvictDeregister(h)
    <2>1. reg' \subseteq reg /\ UNCHANGED sup /\ ~Staging(h) /\ OnlyMoved(h)
      BY <1>4, AssignMoves DEF EvictDeregister, Deregister, procVars, Staging, Moved
    <2> QED
      BY <2>1, MoverCares
  <1>5. CASE SetRuntime(h)
    <2>1. /\ UNCHANGED reg /\ sup' = [sup EXCEPT ![cur[h]] = "watch"]
          /\ Goto(h, "serve") \/ Finish(h)
      BY <1>5 DEF SetRuntime
    <2> QED
      BY <2>1, WatcherCares, GotoMoves, FinishMoves DEF Moved
  <1>6. ASSUME NEW r \in Refillers, ForkRelease(h, r) PROVE EntryInv'
    <2>1. /\ UNCHANGED <<reg, sup, cur>> /\ pc[h] = "release" /\ pc[r] = "idle"
          /\ pc' = [pc EXCEPT ![r] = "check", ![h] = "serve"]
      BY <1>6 DEF ForkRelease, StartRefill, entryVars
    <2>2. \A o \in Threads : pc'[o] = pc[o] \/ pc[o] = "release" \/ pc[o] = "idle"
      BY <2>1, BothThreads DEF TypeInv, TypeOK
    <2>3. ASSUME NEW o \in Threads, Staging(o) PROVE Staging(o)' /\ cur'[o] = cur[o]
      BY <2>1, <2>2, <2>3 DEF Staging
    <2> QED
      BY <2>1, <2>3, CaredStays
  <1>7. CASE Exit(h)
    BY <1>7 DEF Exit, Stop, EntryInv
  <1> QED
    BY <1>1, <1>2, <1>3, <1>4, <1>5, <1>6, <1>7 DEF Handler

\* A supervisor leaves an entry only by removing it.
LEMMA SupervisorCares ==
  ASSUME TypeInv, EntryInv, NEW v \in Vms, Supervisor(v)
  PROVE  EntryInv'
  <1>0. sup \in [Vms -> SupStates] /\ reg \subseteq Vms
    BY DEF TypeInv, TypeOK
  <1>1. CASE Supervise(v)
    <2>1. UNCHANGED <<reg, pc, cur>> /\ sup' = [sup EXCEPT ![v] = "exited"]
      BY <1>1 DEF Supervise, entryVars, threadVars
    <2>2. sup'[v] = "exited" /\ \A w \in Vms \ {v} : sup'[w] = sup[w]
      BY <1>0, <2>1
    <2> QED
      BY <1>0, <2>1, <2>2 DEF EntryInv, Cared, Staging
  <1>2. CASE SupDeregister(v)
    <2>1. reg' = reg \ {v} /\ UNCHANGED <<pc, cur>> /\ \A w \in Vms \ {v} : sup'[w] = sup[w]
      BY <1>0, <1>2 DEF SupDeregister, Deregister, threadVars
    <2> QED
      BY <1>0, <2>1, CaredStays DEF Staging
  <1>3. CASE SupDepool(v)
    <2>1. UNCHANGED <<reg, pc, cur>> /\ sup[v] = "depool" /\ \A w \in Vms \ {v} : sup'[w] = sup[w]
      BY <1>0, <1>3 DEF SupDepool, entryVars, threadVars
    <2> QED
      BY <1>0, <2>1 DEF EntryInv, Cared, Staging
  <1> QED
    BY <1>1, <1>2, <1>3 DEF Supervisor

\* Every step of the fleet.
LEMMA NextEntryInv ==
  ASSUME ~IoFails, TypeInv, EntryInv, [Next]_vars
  PROVE  EntryInv'
  <1>1. ASSUME NEW h \in Handlers, Client(h) PROVE EntryInv'
    <2>1. /\ UNCHANGED <<reg, sup>> /\ h \in Threads /\ ~Staging(h)
          /\ Finish(h) \/ UNCHANGED <<pc, cur>> \/ OnlyMoved(h)
      <3>1. ASSUME NEW o \in Requests, NEW t \in Templates, Accept(h, o, t)
            PROVE  UNCHANGED <<reg, sup>> /\ ~Staging(h) /\ OnlyMoved(h)
        BY <3>1 DEF Accept, entryVars, Staging, OnlyMoved, TypeInv, TypeOK
      <3>2. ASSUME ClientGone(h)
            PROVE  UNCHANGED <<reg, sup>> /\ ~Staging(h) /\ (Finish(h) \/ UNCHANGED <<pc, cur>>)
        BY <3>2 DEF ClientGone, entryVars, procVars, threadVars, Staging
      <3> QED
        BY <1>1, <3>1, <3>2, BothThreads DEF Client
    <2>2. OnlyMoved(h)
      BY <2>1, FinishMoves DEF Moved, OnlyMoved
    <2> QED
      BY <2>1, <2>2, MoverCares
  <1>2. ASSUME NEW r \in Refillers, RefillCheck(r) \/ RefillPush(r) PROVE EntryInv'
    <2>1. UNCHANGED <<reg, sup>> /\ r \in Threads /\ ~Staging(r)
      BY <1>2, BothThreads DEF RefillCheck, RefillPush, entryVars, procVars, Staging
    <2>2. CASE RefillCheck(r)
      <3>1. Goto(r, "reserve") \/ Finish(r)
        BY <2>2 DEF RefillCheck
      <3> QED
        BY <2>1, <3>1, GotoMoves, FinishMoves, MoverCares DEF Moved
    <2>3. CASE RefillPush(r)
      BY <2>1, <2>3, AssignMoves, MoverCares DEF RefillPush, Moved
    <2> QED
      BY <1>2, <2>2, <2>3
  <1>3. ASSUME NEW v \in Vms, Kill(v) \/ Worker(v) PROVE EntryInv'
    <2>1. UNCHANGED <<reg, sup, pc, cur>>
      BY <1>3 DEF Kill, Worker, Warmed, Ungate, HangupStop, WorkerExit,
                  entryVars, procVars, threadVars
    <2> QED
      BY <2>1, CaredStays DEF Staging
  <1>4. CASE Crash
    BY <1>4 DEF Crash, Stop, EntryInv
  <1>5. CASE UNCHANGED vars
    <2>1. UNCHANGED <<reg, sup, pc, cur>>
      BY <1>5 DEF vars, entryVars, procVars, threadVars
    <2> QED
      BY <2>1, CaredStays DEF Staging
  <1> QED
    BY <1>1, <1>2, <1>3, <1>4, <1>5, StartingCares, HandlerCares, SupervisorCares,
       BothThreads DEF Next, Refiller

\* Where no file or descriptor call of the daemon fails, every entry in the
\* registry is being staged by a thread that will see it through, or has a
\* supervisor that has not removed it yet: no reservation outlives its VM.
THEOREM NoEntryLeaks ==
  ASSUME ~IoFails
  PROVE  Spec => []EntryOwned
  <1>1. Init => EntryInv
    BY DEF Init, EntryInv
  <1>2. EntryInv => EntryOwned
    BY SMTT(60) DEF EntryInv, EntryOwned, Cared, Staging, Holding
  <1>3. TypeInv /\ EntryInv /\ [Next]_vars => EntryInv'
    BY NextEntryInv
  <1> QED
    BY <1>1, <1>2, <1>3, TypeInvariant, PTL DEF Spec
===============================================================================
