-------------------------------- MODULE Fleet --------------------------------
(***************************************************************************)
(* The amberd control plane: the registry of VMs with its RAM admission    *)
(* control, the warm pool of paused forks, the connection threads that     *)
(* start VMs, the threads that refill the pool, one supervisor thread per  *)
(* worker process, and the worker processes as the daemon sees them.       *)
(*                                                                         *)
(* A step of a thread is what it does between two releases of a lock or    *)
(* between two blocking calls.  The registry lock and the pool lock are    *)
(* never held together, so a step reads and writes one of the two maps.    *)
(***************************************************************************)
EXTENDS Integers, FiniteSets

CONSTANTS
  Handlers,     \* connection threads: one request each, then free again
  Refillers,    \* bound: the refill_pool threads that run at one time
  Templates,    \* image references and template directories
  Ram,          \* Ram[t]: what vm_ram_bytes accounts a VM of t at
  Budget,       \* the fleet ceiling, [fleet].ram_budget
  PoolTarget,   \* [fleet].pool_size
  Vms,          \* VM ids; bound: how many the counter mints
  NoVm,         \* no id
  Requests,     \* the requests clients make, among those of proto.rs
  IoFails       \* whether a file or descriptor call of the daemon may fail

Threads == Handlers \cup Refillers
StartOps == {"one_shot", "detached"}
ForkOps == {"fork", "fork_i"}
PausedOps == ForkOps \cup {"exec", "refill"}
Ops == StartOps \cup PausedOps \cup {"shutdown", "none"}

ASSUME FleetAssumption ==
  /\ Handlers \cap Refillers = {}
  /\ Templates # {}
  /\ Ram \in [Templates -> Nat]
  /\ Budget \in Nat
  /\ PoolTarget \in Nat \ {0}
  /\ NoVm \notin Vms
  /\ Requests \subseteq Ops \ {"refill", "none"}
  /\ IoFails \in BOOLEAN

VARIABLES
  minted,    \* ids handed out by the counter so far
  reg,       \* ids that have a registry entry
  tmpl,      \* tmpl[v]: the reference in v's entry
  pid,       \* ids whose entry records a nonzero pid
  control,   \* ids whose entry holds the daemon's end of the control channel
  kill,      \* ids whose kill flag (or one-shot client_gone flag) is raised
  pool,      \* pool[t]: ids of the warm workers of template t
  proc,      \* proc[v]: the worker process of v
  ready,     \* ids whose worker wrote the ready byte
  go,        \* ids whose worker was sent the go byte
  sup,       \* sup[v]: where the supervisor of v is
  pc,        \* pc[th]: where thread th is
  op,        \* op[th]: what it was asked to do
  ref,       \* ref[th]: the template it was asked for
  cur,       \* cur[th]: the id in its hands
  up         \* whether amberd is alive

entryVars == <<minted, reg, tmpl, pid, control>>
procVars == <<proc, ready, go, sup>>
threadVars == <<pc, op, ref, cur>>
vars == <<entryVars, kill, pool, procVars, threadVars, up>>

Pcs == {"idle", "pop", "reserve", "evict", "evict_dereg", "spawn", "record",
        "warm", "push", "release", "exec_wait", "serve", "check", "exit"}
ProcStates == {"none", "warming", "gated", "running", "dead"}
SupStates == {"none", "watch", "exited", "depool", "done"}

NoTemplate == CHOOSE t \in Templates : TRUE

Init ==
  /\ minted = {}
  /\ reg = {} /\ pid = {} /\ control = {} /\ kill = {}
  /\ ready = {} /\ go = {}
  /\ tmpl = [v \in Vms |-> NoTemplate]
  /\ pool = [t \in Templates |-> {}]
  /\ proc = [v \in Vms |-> "none"]
  /\ sup = [v \in Vms |-> "none"]
  /\ pc = [th \in Threads |-> "idle"]
  /\ op = [th \in Threads |-> "none"]
  /\ ref = [th \in Threads |-> NoTemplate]
  /\ cur = [th \in Threads |-> NoVm]
  /\ up = TRUE

Live(v) == proc[v] \in {"warming", "gated", "running"}

Goto(th, l) == pc' = [pc EXCEPT ![th] = l] /\ UNCHANGED <<op, ref, cur>>

\* The thread returns: the connection is answered and closed, or the
\* background thread ends.
Finish(th) ==
  /\ pc' = [pc EXCEPT ![th] = "idle"]
  /\ op' = [op EXCEPT ![th] = "none"]
  /\ ref' = [ref EXCEPT ![th] = NoTemplate]
  /\ cur' = [cur EXCEPT ![th] = NoVm]

\* Removing the entry also drops what it holds, the control channel with it.
Deregister(v) ==
  /\ reg' = reg \ {v}
  /\ pid' = pid \ {v}
  /\ control' = control \ {v}
  /\ UNCHANGED <<minted, tmpl>>

-----------------------------------------------------------------------------
(***************************************************************************)
(* Requests, admission and eviction.                                       *)
(***************************************************************************)

\* A connection is accepted and its request dispatched.
Accept(h, o, t) ==
  /\ up
  /\ pc[h] = "idle"
  /\ pc' = [pc EXCEPT ![h] = IF o \in ForkOps THEN "pop"
                             ELSE IF o = "shutdown" THEN "exit" ELSE "reserve"]
  /\ op' = [op EXCEPT ![h] = o]
  /\ ref' = [ref EXCEPT ![h] = t]
  /\ IF o = "shutdown" \* SIGKILL every entry with a pid, under the lock
     THEN proc' = [v \in Vms |-> IF v \in pid THEN "dead" ELSE proc[v]]
     ELSE UNCHANGED proc
  /\ UNCHANGED <<entryVars, kill, pool, ready, go, sup, cur, up>>

\* The RAM the entries of S are accounted at, as a set of (id, unit) pairs:
\* the number of pairs is the sum that `reserve` takes over the registry.
Units(S) == UNION {{v} \X (1..Ram[tmpl[v]]) : v \in S}
Used == Cardinality(Units(reg))

\* Mutant: the check leaves out the VM that is being admitted.
ReserveUncounted(th, v) ==
  /\ pc[th] = "reserve"
  /\ Used <= Budget
  /\ v \notin minted
  /\ minted' = minted \cup {v}
  /\ reg' = reg \cup {v}
  /\ tmpl' = [tmpl EXCEPT ![v] = ref[th]]
  /\ cur' = [cur EXCEPT ![th] = v]
  /\ pc' = [pc EXCEPT ![th] = "spawn"]
  /\ UNCHANGED <<pid, control, kill, pool, procVars, op, ref, up>>

\* reserve, under the registry lock: insert an entry with a fresh id, pid 0.
Reserve(th, v) ==
  /\ pc[th] = "reserve"
  /\ Used + Ram[ref[th]] <= Budget
  /\ v \notin minted
  /\ minted' = minted \cup {v}
  /\ reg' = reg \cup {v}
  /\ tmpl' = [tmpl EXCEPT ![v] = ref[th]]
  /\ cur' = [cur EXCEPT ![th] = v]
  /\ pc' = [pc EXCEPT ![th] = "spawn"]
  /\ UNCHANGED <<pid, control, kill, pool, procVars, op, ref, up>>

\* A refused run or detached start goes on to evict; a refused spawn_paused
\* fails its fork, exec or refill.
Refuse(th) ==
  /\ pc[th] = "reserve"
  /\ Used + Ram[ref[th]] > Budget
  /\ IF op[th] \in StartOps THEN Goto(th, "evict") ELSE Finish(th)
  /\ UNCHANGED <<entryVars, kill, pool, procVars, up>>

\* Mutant: the victim is looked up but stays in the pool.
EvictPeek(h, t, v) ==
  /\ pc[h] = "evict"
  /\ v \in pool[t]
  /\ cur' = [cur EXCEPT ![h] = v]
  /\ pc' = [pc EXCEPT ![h] = "evict_dereg"]
  /\ UNCHANGED <<entryVars, kill, pool, procVars, op, ref, up>>

\* evict_one_pooled, under the pool lock: take any pooled id, of any template.
EvictPop(h, t, v) ==
  /\ pc[h] = "evict"
  /\ v \in pool[t]
  /\ pool' = [pool EXCEPT ![t] = @ \ {v}]
  /\ cur' = [cur EXCEPT ![h] = v]
  /\ pc' = [pc EXCEPT ![h] = "evict_dereg"]
  /\ UNCHANGED <<entryVars, kill, procVars, op, ref, up>>

\* ... and with nothing to evict the client is told BudgetExceeded.
EvictNone(h) ==
  /\ pc[h] = "evict"
  /\ \A t \in Templates : pool[t] = {}
  /\ Finish(h)
  /\ UNCHANGED <<entryVars, kill, pool, procVars, up>>

\* Mutant: the entry goes but the supervisor is not told to kill.
EvictNoKill(h) ==
  /\ pc[h] = "evict_dereg"
  /\ Deregister(cur[h])
  /\ pc' = [pc EXCEPT ![h] = "reserve"]
  /\ cur' = [cur EXCEPT ![h] = NoVm]
  /\ UNCHANGED <<kill, pool, procVars, op, ref, up>>

\* evict_one_pooled, under the registry lock; reserve_with_evict then retries.
EvictDeregister(h) ==
  /\ pc[h] = "evict_dereg"
  /\ Deregister(cur[h])
  /\ kill' = IF cur[h] \in reg THEN kill \cup {cur[h]} ELSE kill
  /\ pc' = [pc EXCEPT ![h] = "reserve"]
  /\ cur' = [cur EXCEPT ![h] = NoVm]
  /\ UNCHANGED <<pool, procVars, op, ref, up>>

-----------------------------------------------------------------------------
(***************************************************************************)
(* Starting a worker process.                                              *)
(***************************************************************************)

\* A `?` between the reservation and the spawn (create_dir_all, File::create,
\* current_exe) returns the error with the entry still in the registry.
SpawnAbandoned(th) ==
  /\ IoFails
  /\ pc[th] = "spawn"
  /\ Finish(th)
  /\ UNCHANGED <<entryVars, kill, pool, procVars, up>>

\* attach_control or Command::spawn fails: the reservation is released.
SpawnFailed(th) ==
  /\ IoFails
  /\ pc[th] = "spawn"
  /\ Deregister(cur[th])
  /\ Finish(th)
  /\ UNCHANGED <<kill, pool, procVars, up>>

Spawn(th) ==
  /\ pc[th] = "spawn"
  /\ proc' = [proc EXCEPT ![cur[th]] =
                IF op[th] \in PausedOps THEN "warming" ELSE "running"]
  /\ Goto(th, "record")
  /\ UNCHANGED <<entryVars, kill, pool, ready, go, sup, up>>

\* The entry, if it is still there, learns the pid and the control channel.
RecordRuntime(v) ==
  IF v \in reg THEN pid' = pid \cup {v} /\ control' = control \cup {v}
               ELSE UNCHANGED <<pid, control>>

\* spawn_paused records the pid before it waits for the worker to warm.
RecordPid(th) ==
  /\ pc[th] = "record"
  /\ op[th] \in PausedOps
  /\ pid' = IF cur[th] \in reg THEN pid \cup {cur[th]} ELSE pid
  /\ Goto(th, "warm")
  /\ UNCHANGED <<minted, reg, tmpl, control, kill, pool, procVars, up>>

\* set_runtime records pid and control of a run or detached start, which is
\* supervised from then on: by a thread of its own, or by the handler itself.
SetRuntime(h) ==
  /\ pc[h] = "record"
  /\ op[h] \in StartOps
  /\ RecordRuntime(cur[h])
  /\ sup' = [sup EXCEPT ![cur[h]] = "watch"]
  /\ IF op[h] = "one_shot" THEN Goto(h, "serve") ELSE Finish(h)
  /\ UNCHANGED <<minted, reg, tmpl, kill, pool, proc, ready, go, up>>

\* run_one_shot cannot duplicate the client socket for a relay: it returns
\* with the child spawned and registered, and nobody to supervise it.
RelayAbandoned(h) ==
  /\ IoFails
  /\ pc[h] = "record"
  /\ op[h] = "one_shot"
  /\ RecordRuntime(cur[h])
  /\ Finish(h)
  /\ UNCHANGED <<minted, reg, tmpl, kill, pool, procVars, up>>

\* Where spawn_paused returns to once it has a warm worker.
AfterWarm(th) == IF op[th] = "refill" THEN "push" ELSE "release"

\* The ready byte came: the entry gets the control channel, the supervisor
\* thread starts, spawn_paused returns the id.
Register(th) ==
  /\ pc[th] = "warm"
  /\ cur[th] \in ready
  /\ RecordRuntime(cur[th])
  /\ sup' = [sup EXCEPT ![cur[th]] = "watch"]
  /\ Goto(th, AfterWarm(th))
  /\ UNCHANGED <<minted, reg, tmpl, kill, pool, proc, ready, go, up>>

\* Mutant: a worker that died warming keeps its reservation.
WarmFailedLeaks(th) ==
  /\ pc[th] = "warm"
  /\ proc[cur[th]] = "dead"
  /\ cur[th] \notin ready
  /\ Finish(th)
  /\ UNCHANGED <<entryVars, kill, pool, procVars, up>>

\* The channel closed before the ready byte: the worker died warming.
WarmFailed(th) ==
  /\ pc[th] = "warm"
  /\ proc[cur[th]] = "dead"
  /\ cur[th] \notin ready
  /\ Deregister(cur[th])
  /\ Finish(th)
  /\ UNCHANGED <<kill, pool, procVars, up>>

-----------------------------------------------------------------------------
(***************************************************************************)
(* Fork, exec and the refill of the pool.                                  *)
(***************************************************************************)

\* handle_fork, under the pool lock: take a warm worker of the template.
ForkPop(h, v) ==
  /\ pc[h] = "pop"
  /\ v \in pool[ref[h]]
  /\ pool' = [pool EXCEPT ![ref[h]] = @ \ {v}]
  /\ cur' = [cur EXCEPT ![h] = v]
  /\ pc' = [pc EXCEPT ![h] = "release"]
  /\ UNCHANGED <<entryVars, kill, procVars, op, ref, up>>

ForkMiss(h) ==
  /\ pc[h] = "pop"
  /\ pool[ref[h]] = {}
  /\ Goto(h, "reserve")
  /\ UNCHANGED <<entryVars, kill, pool, procVars, up>>

\* refill_pool starts a thread for the template.
StartRefill(r, h) ==
  /\ pc[r] = "idle"
  /\ pc' = [pc EXCEPT ![r] = "check", ![h] = "serve"]
  /\ op' = [op EXCEPT ![r] = "refill"]
  /\ ref' = [ref EXCEPT ![r] = ref[h]]
  /\ UNCHANGED cur

\* The go byte is written if the entry has a channel with a live peer.
CanRelease(v) == v \in control /\ Live(v)

\* Mutant: a released worker is offered to the pool again.
ForkRecycles(h, r) ==
  /\ pc[h] = "release"
  /\ op[h] \in ForkOps
  /\ CanRelease(cur[h])
  /\ go' = go \cup {cur[h]}
  /\ pool' = [pool EXCEPT ![ref[h]] = @ \cup {cur[h]}]
  /\ StartRefill(r, h)
  /\ UNCHANGED <<entryVars, kill, proc, ready, sup, up>>

\* handle_fork: release the worker, start a refill, and answer Started or
\* relay the console of an interactive fork.
ForkRelease(h, r) ==
  /\ pc[h] = "release"
  /\ op[h] \in ForkOps
  /\ CanRelease(cur[h])
  /\ go' = go \cup {cur[h]}
  /\ StartRefill(r, h)
  /\ UNCHANGED <<entryVars, kill, pool, proc, ready, sup, up>>

\* release returned false: the client is told, and nothing else is done.
ForkReleaseFailed(h) ==
  /\ pc[h] = "release"
  /\ op[h] \in ForkOps
  /\ ~CanRelease(cur[h])
  /\ Finish(h)
  /\ UNCHANGED <<entryVars, kill, pool, procVars, up>>

\* handle_exec waits for the agent whether or not the release worked.
ExecRelease(h) ==
  /\ pc[h] = "release"
  /\ op[h] = "exec"
  /\ go' = IF CanRelease(cur[h]) THEN go \cup {cur[h]} ELSE go
  /\ Goto(h, "exec_wait")
  /\ UNCHANGED <<entryVars, kill, pool, proc, ready, sup, up>>

\* The exec ended (exit frame, agent closed, or no agent in 15 s): the worker
\* is torn down through its kill flag.
ExecDone(h) ==
  /\ pc[h] = "exec_wait"
  /\ kill' = IF cur[h] \in reg THEN kill \cup {cur[h]} ELSE kill
  /\ Finish(h)
  /\ UNCHANGED <<entryVars, pool, procVars, up>>

\* The client of a run or of an interactive fork leaves and the relay notices:
\* run's client_gone, or the kill flag that relay_interactive raises.
ClientGone(h) ==
  /\ pc[h] = "serve"
  /\ op[h] \in {"one_shot", "fork_i"}
  /\ kill' = kill \cup {cur[h]}
  /\ IF op[h] = "fork_i" THEN Finish(h) ELSE UNCHANGED threadVars
  /\ UNCHANGED <<entryVars, pool, procVars, up>>

\* A detached fork is answered at once.  Otherwise the guest ended: the stdout
\* of an interactive fork closed, or the supervision of a one-shot run returned.
Served(h) ==
  /\ pc[h] = "serve"
  /\ \/ op[h] = "fork"
     \/ op[h] = "fork_i" /\ ~Live(cur[h])
     \/ op[h] = "one_shot" /\ sup[cur[h]] = "done"
  /\ Finish(h)
  /\ UNCHANGED <<entryVars, kill, pool, procVars, up>>

\* refill_pool's loop condition, under the pool lock.
RefillCheck(r) ==
  /\ pc[r] = "check"
  /\ IF Cardinality(pool[ref[r]]) < PoolTarget THEN Goto(r, "reserve")
                                               ELSE Finish(r)
  /\ UNCHANGED <<entryVars, kill, pool, procVars, up>>

RefillPush(r) ==
  /\ pc[r] = "push"
  /\ pool' = [pool EXCEPT ![ref[r]] = @ \cup {cur[r]}]
  /\ pc' = [pc EXCEPT ![r] = "check"]
  /\ cur' = [cur EXCEPT ![r] = NoVm]
  /\ UNCHANGED <<entryVars, kill, procVars, op, ref, up>>

-----------------------------------------------------------------------------
(***************************************************************************)
(* Supervisors, other requests, and the worker processes.                  *)
(***************************************************************************)

\* Mutant: the kill flag is not polled.
SuperviseNoFlag(v) ==
  /\ sup[v] = "watch"
  /\ proc[v] = "dead"
  /\ sup' = [sup EXCEPT ![v] = "exited"]
  /\ UNCHANGED <<entryVars, kill, pool, proc, ready, go, threadVars, up>>

\* supervise returns: the child was found exited, or it is killed and waited
\* for because its flag is raised.
Supervise(v) ==
  /\ sup[v] = "watch"
  /\ proc[v] = "dead" \/ v \in kill
  /\ proc' = [proc EXCEPT ![v] = "dead"]
  /\ sup' = [sup EXCEPT ![v] = "exited"]
  /\ kill' = kill \ {v} \* nobody reads the flag any more
  /\ UNCHANGED <<entryVars, pool, ready, go, threadVars, up>>

\* The supervisor deregisters; that of a paused fork also visits the pool.
SupDeregister(v) ==
  /\ sup[v] = "exited"
  /\ Deregister(v)
  /\ sup' = [sup EXCEPT ![v] = IF v \in ready THEN "depool" ELSE "done"]
  /\ UNCHANGED <<kill, pool, proc, ready, go, threadVars, up>>

SupDepool(v) ==
  /\ sup[v] = "depool"
  /\ pool' = [pool EXCEPT ![tmpl[v]] = @ \ {v}]
  /\ sup' = [sup EXCEPT ![v] = "done"]
  /\ UNCHANGED <<entryVars, kill, proc, ready, go, threadVars, up>>

\* Request::Kill raises the flag of a registered VM.
Kill(v) ==
  /\ v \in reg
  /\ kill' = kill \cup {v}
  /\ UNCHANGED <<entryVars, pool, procVars, threadVars, up>>

\* The daemon process ends, and its threads and maps with it.
Stop ==
  /\ up' = FALSE
  /\ reg' = {} /\ pid' = {} /\ control' = {} /\ kill' = {}
  /\ pool' = [t \in Templates |-> {}]
  /\ sup' = [v \in Vms |-> "none"]
  /\ pc' = [th \in Threads |-> "idle"]
  /\ op' = [th \in Threads |-> "none"]
  /\ ref' = [th \in Threads |-> NoTemplate]
  /\ cur' = [th \in Threads |-> NoVm]
  /\ minted' = {} /\ ready' = {} /\ go' = {}
  /\ tmpl' = [v \in Vms |-> NoTemplate]
  /\ UNCHANGED proc

\* The last line of Request::Shutdown.
Exit(h) == pc[h] = "exit" /\ Stop

\* amberd is killed or aborts.
Crash == up /\ Stop

\* The daemon's end of v's control channel is closed: nobody holds it.
Hangup(v) ==
  \/ ~up
  \/ /\ v \notin control
     /\ \A th \in Threads : cur[th] = v => pc[th] \notin {"record", "warm"}

\* A worker finished its restore, wrote the ready byte, waits at the gate.
Warmed(v) ==
  /\ proc[v] = "warming"
  /\ proc' = [proc EXCEPT ![v] = "gated"]
  /\ ready' = ready \cup {v}
  /\ UNCHANGED <<entryVars, kill, pool, go, sup, threadVars, up>>

\* The gate's read returns: a go byte, or end of file.
Ungate(v) ==
  /\ proc[v] = "gated"
  /\ v \in go \/ Hangup(v)
  /\ proc' = [proc EXCEPT ![v] = "running"]
  /\ UNCHANGED <<entryVars, kill, pool, ready, go, sup, threadVars, up>>

\* Mutant: the control reader ends at end of file and leaves the VM running.
HangupIgnored(v) == FALSE /\ UNCHANGED vars

\* The control reader of a running worker sees end of file and stops the VM.
HangupStop(v) ==
  /\ proc[v] = "running"
  /\ Hangup(v)
  /\ proc' = [proc EXCEPT ![v] = "dead"]
  /\ UNCHANGED <<entryVars, kill, pool, ready, go, sup, threadVars, up>>

\* A worker exits by itself: guest shutdown, fault, failed restore.
WorkerExit(v) ==
  /\ Live(v)
  /\ proc' = [proc EXCEPT ![v] = "dead"]
  /\ UNCHANGED <<entryVars, kill, pool, ready, go, sup, threadVars, up>>

-----------------------------------------------------------------------------
Starting(th) ==
  \/ \E v \in Vms : Reserve(th, v)
  \/ Refuse(th)
  \/ SpawnAbandoned(th) \/ SpawnFailed(th) \/ Spawn(th) \/ RecordPid(th)
  \/ Register(th) \/ WarmFailed(th)

Handler(h) ==
  \/ Starting(h)
  \/ \E t \in Templates : \E v \in pool[t] : EvictPop(h, t, v)
  \/ EvictNone(h) \/ EvictDeregister(h)
  \/ SetRuntime(h) \/ RelayAbandoned(h)
  \/ \E v \in pool[ref[h]] : ForkPop(h, v)
  \/ ForkMiss(h)
  \/ \E r \in Refillers : ForkRelease(h, r)
  \/ ForkReleaseFailed(h) \/ ExecRelease(h) \/ ExecDone(h) \/ Served(h)
  \/ Exit(h)

Refiller(r) == Starting(r) \/ RefillCheck(r) \/ RefillPush(r)

Supervisor(v) == Supervise(v) \/ SupDeregister(v) \/ SupDepool(v)

Client(h) ==
  \/ \E o \in Requests, t \in Templates : Accept(h, o, t)
  \/ ClientGone(h)

Worker(v) == Warmed(v) \/ Ungate(v) \/ HangupStop(v) \/ WorkerExit(v)

Next ==
  \/ \E h \in Handlers : Client(h) \/ Handler(h)
  \/ \E r \in Refillers : Refiller(r)
  \/ \E v \in Vms : Supervisor(v) \/ Kill(v) \/ Worker(v)
  \/ Crash

Spec == Init /\ [][Next]_vars

\* The daemon's threads run, a restore ends, and a worker notices end of file
\* on its control channel; clients, guests and failures owe nothing.
Fairness ==
  /\ \A h \in Handlers : WF_vars(Handler(h))
  /\ \A r \in Refillers : WF_vars(Refiller(r))
  /\ \A v \in Vms : /\ WF_vars(Supervisor(v))
                    /\ WF_vars(Warmed(v) \/ Ungate(v) \/ HangupStop(v))

FairSpec == Spec /\ Fairness

-----------------------------------------------------------------------------
(***************************************************************************)
(* Properties.                                                             *)
(***************************************************************************)

\* Every variable has its type; an entry's pid and channel go with the entry.
TypeOK ==
  /\ minted \subseteq Vms
  /\ reg \subseteq minted
  /\ tmpl \in [Vms -> Templates]
  /\ pid \subseteq reg
  /\ control \subseteq pid
  /\ kill \subseteq minted
  /\ pool \in [Templates -> SUBSET minted]
  /\ proc \in [Vms -> ProcStates]
  /\ ready \subseteq Vms
  /\ go \subseteq minted
  /\ sup \in [Vms -> SupStates]
  /\ pc \in [Threads -> Pcs]
  /\ op \in [Threads -> Ops]
  /\ ref \in [Threads -> Templates]
  /\ cur \in [Threads -> minted \cup {NoVm}]
  /\ up \in BOOLEAN

\* Admission (daemon.rs reserve): however runs, forks, execs, refills and
\* evictions interleave, the reservations never add up to more than the budget.
BudgetRespected == Used <= Budget

\* The pcs at which a thread alone decides what becomes of the id it holds.
Holding(th) ==
  pc[th] \in {"spawn", "record", "warm", "push", "release", "evict_dereg"}

\* A worker has one owner: no id is in two pools, in a pool and in a thread's
\* hands, or in the hands of two threads (handle_fork, evict_one_pooled and
\* refill_pool all take from or add to the pool).
OneOwner ==
  /\ \A t, u \in Templates : t # u => pool[t] \cap pool[u] = {}
  /\ \A th \in Threads : Holding(th) =>
       /\ cur[th] # NoVm
       /\ \A t \in Templates : cur[th] \notin pool[t]
       /\ \A other \in Threads \ {th} : Holding(other) => cur[other] # cur[th]

\* Budget pressure costs no client its VM: what eviction takes, and what the
\* pool offers it to take, was never sent the go byte.
EvictsOnlyUnreleased ==
  /\ \A t \in Templates : pool[t] \cap go = {}
  /\ \A h \in Handlers : pc[h] = "evict_dereg" => cur[h] \notin go

\* A worker process that lost its registry entry (so that Kill, List and
\* Shutdown no longer see it) is one its supervisor is about to kill.
UnlistedAreDoomed ==
  up => \A v \in Vms : Live(v) /\ v \notin reg => v \in kill /\ sup[v] = "watch"

\* Every registry entry is someone's: a thread is still starting the VM, or a
\* supervisor will remove the entry when the VM ends.
EntryOwned ==
  \A v \in reg : \/ sup[v] \in {"watch", "exited"}
                 \/ \E th \in Threads : cur[th] = v /\ Holding(th)

\* A pooled id names a worker that its supervisor has not buried: the
\* supervisor takes the id out of the pool when the worker is gone.
PooledNotBuried == \A t \in Templates : \A v \in pool[t] : sup[v] # "done"

\* A kill flag raised for a live worker (Kill, an eviction, the end of an exec,
\* a client that left) ends it and its registry entry, at whatever point of its
\* staging it is raised and whichever thread removes the entry first.
KilledGoes ==
  \A v \in Vms : (v \in kill /\ Live(v)) ~> (~up \/ (~Live(v) /\ v \notin reg))

\* When amberd is gone, shut down or crashed, every worker ends: those it did
\* not kill find their control channel closed.
WorkersFollowDaemon == ~up ~> \A v \in Vms : ~Live(v)
=============================================================================
