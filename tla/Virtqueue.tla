------------------------------ MODULE Virtqueue ------------------------------
(***************************************************************************)
(* One virtio-mmio device of one queue: the transport and its split        *)
(* virtqueue (virtio.rs VirtioMmio), with the handler of the block device, *)
(* the entropy source or a balloon queue behind it, the guest's driver in  *)
(* front, and the snapshot that captures both sides.                       *)
(*                                                                         *)
(* Guest memory is one variable per structure.  A request lives in one of  *)
(* the driver's slots; its chain of descriptors names the slot, so that a  *)
(* wrong walk of the rings reaches a wrong request.  A vcpu inside         *)
(* `process' serves one chain per step, while the other vcpus run guest    *)
(* code.                                                                   *)
(***************************************************************************)
EXTENDS Naturals, Sequences, FiniteSets

CONSTANTS
  Kinds,      \* the kinds of device, a subset of {"blk", "rng", "balloon"}
  QSZ,        \* the size of the queue
  IdxMod,     \* 2^16 in the code: ring indices are u16
  Tags,       \* the driver's request slots
  Sectors, Vals,
  None,
  Ordered,    \* whether plain stores reach the other vcpus in program order
  MaxResets,  \* bound: how often the driver resets the device
  MaxForks    \* bound: how many forks start from the snapshot

ASSUME QueueAssumption ==
  /\ QSZ \in Nat \ {0} /\ IdxMod \in Nat
  /\ QSZ < IdxMod /\ IdxMod % QSZ = 0
  /\ Kinds \subseteq {"blk", "rng", "balloon"} /\ Vals # {}
  /\ Ordered \in BOOLEAN /\ MaxResets \in Nat /\ MaxForks \in Nat

VARIABLES
  kind, writable, disk,
  req,        \* req[t]: the request the driver has in slot t
  ret,        \* ret[t]: the data and status buffers of slot t, as the device left them
  page,       \* page[t]: whether the guest page of slot t holds what the guest stored
  desc,       \* the descriptor table
  avail, availIdx,
  used, usedIdx,
  lastUsed,   \* the driver's position in the used ring
  kick,       \* the driver posted a chain and has not notified yet
  isr,        \* the driver is in its interrupt handler
  queue,      \* the transport's Queue
  interruptStatus,
  proc,       \* the locals of `process', or None when the virtio lock is free
  stores,     \* stores of the vcpu in `process' other vcpus do not see yet
  resets,
  running,    \* taking the snapshot stops the VM
  forks,
  saved       \* the snapshot, or None

driver == <<req, desc, avail, availIdx, lastUsed, kick, isr>>
shared == <<ret, used, usedIdx>>
backing == <<kind, writable, disk, page>>
device == <<queue, interruptStatus>>
life == <<resets, running, forks, saved>>
vars == <<driver, shared, backing, device, proc, stores, life>>

Slots == 0 .. QSZ - 1

Incr(i) == (i + 1) % IdxMod
Free == [tag |-> None, next |-> 0, more |-> FALSE]
NoQueue == [num |-> 0, ready |-> FALSE, lastAvail |-> 0]
Idle == [t \in Tags |-> None]
Answer(status, data) == [status |-> status, data |-> data]

RequestsOf(k) ==
  CASE k = "blk" -> [op : {"in"}, sector : Sectors]
                    \cup [op : {"out"}, sector : Sectors, val : Vals]
                    \cup [op : {"flush", "other"}]
    [] k = "rng" -> [op : {"fill"}]
    [] k = "balloon" -> [op : {"drop"}]

\* [header, data, status]; header and status; one buffer.
ChainLen(r) == CASE r.op \in {"in", "out"} -> 3
                 [] r.op \in {"flush", "other"} -> 2
                 [] OTHER -> 1

\* What the guest's driver, guest memory and a captured device can be.
Requests == UNION {RequestsOf(k) : k \in Kinds}
Replies == [status : {"ok", "ioerr", "unsupp"}, data : Vals \cup {None}]
Calls == [Tags -> Requests \cup {None}]
Rets == [Tags -> Replies \cup {None}]
Indices == 0 .. IdxMod - 1
Images ==
  [req : Calls, ret : Rets, page : [Tags -> BOOLEAN],
   desc : [Slots -> [tag : Tags \cup {None}, next : Slots, more : BOOLEAN]],
   avail : [Slots -> Slots], availIdx : Indices, used : [Slots -> Slots], usedIdx : Indices,
   lastUsed : Indices, kick : BOOLEAN, isr : BOOLEAN,
   queue : [num : {0, QSZ}, ready : BOOLEAN, lastAvail : Indices], interruptStatus : BOOLEAN]
Locals == [until : Indices, lastAvail : Indices, budget : Nat, progressed : BOOLEAN]

\* None is none of them.
ASSUME NoneAssumption ==
  None \notin Tags \cup Requests \cup Replies \cup Images \cup Locals \cup (Calls \X Rets)

AllFree == [i \in Slots |-> Free]
Zeroes == [i \in Slots |-> 0]

Init ==
  /\ kind \in Kinds
  /\ writable = (kind = "blk")
  /\ disk = [s \in Sectors |-> CHOOSE v \in Vals : TRUE]
  /\ req = Idle /\ ret = Idle /\ page = [t \in Tags |-> TRUE]
  /\ desc = AllFree /\ avail = Zeroes /\ used = Zeroes
  /\ availIdx = 0 /\ usedIdx = 0 /\ lastUsed = 0
  /\ kick = FALSE /\ isr = FALSE
  /\ queue = NoQueue /\ interruptStatus = FALSE
  /\ proc = None /\ stores = <<>>
  /\ resets = 0 /\ running = TRUE /\ forks = 0 /\ saved = None

\* The virtio lock is free; guest code runs on the other vcpus even when not.
LockFree == running /\ proc = None

-----------------------------------------------------------------------------
(***************************************************************************)
(* The transport.                                                          *)
(***************************************************************************)

\* The driver sets the queue up: QUEUE_NUM, the ring addresses, QUEUE_READY.
SetUpQueue ==
  /\ LockFree /\ ~queue.ready
  /\ queue' = [queue EXCEPT !.num = QSZ, !.ready = TRUE]
  /\ UNCHANGED <<driver, shared, backing, interruptStatus, proc, stores, life>>

\* The driver resets the device (STATUS = 0) and forgets its requests.
Reset ==
  /\ LockFree /\ queue.ready /\ resets < MaxResets
  /\ resets' = resets + 1
  /\ queue' = NoQueue /\ interruptStatus' = FALSE
  /\ req' = Idle /\ ret' = Idle /\ page' = [t \in Tags |-> TRUE]
  /\ desc' = AllFree /\ avail' = Zeroes /\ used' = Zeroes
  /\ availIdx' = 0 /\ usedIdx' = 0 /\ lastUsed' = 0
  /\ kick' = FALSE /\ isr' = FALSE
  /\ UNCHANGED <<kind, writable, disk, proc, stores, running, forks, saved>>

\* Descriptors c follow each other, up to one without a next, one whose next is
\* outside the table, or as many as the table has.
Linked(c) ==
  \A k \in 1 .. Len(c) - 1 : desc[c[k]].more /\ desc[c[k]].next = c[k + 1]
Stops(c) ==
  LET d == desc[c[Len(c)]] IN Len(c) = QSZ \/ ~d.more \/ d.next >= QSZ

\* The chain that starts at head, as a sequence of descriptor indices.
CollectChain(head) ==
  IF head >= QSZ THEN <<>>
  ELSE CHOOSE c \in UNION {[1 .. n -> Slots] : n \in 1 .. QSZ} :
         c[1] = head /\ Linked(c) /\ Stops(c)

\* Mutant: a notify serves one chain.
BudgetOne == 1

\* How many chains one notify may serve.
Budget == queue.num

\* The driver's notify, up to the read of the available index.
Notify ==
  /\ LockFree /\ kick
  /\ kick' = FALSE
  /\ proc' = IF queue.ready /\ queue.num # 0
             THEN [until |-> availIdx, lastAvail |-> queue.lastAvail,
                   budget |-> Budget, progressed |-> FALSE]
             ELSE None
  /\ UNCHANGED <<req, desc, avail, availIdx, lastUsed, isr, shared, backing, device,
                 stores, life>>

\* A store of answer in the buffers of slot tag, or of num in a ring.
StoreOf(to, tag, at, answer, num) ==
  [to |-> to, tag |-> tag, at |-> at, answer |-> answer, num |-> num]

\* The newest of the stores at the positions w.
Newest(w) == CHOOSE i \in w : \A j \in w : j <= i

\* Guest memory once the stores sts are visible; the vcpu in `process' reads
\* its own stores back.
UsedIdxAfter(sts) ==
  LET w == {i \in DOMAIN sts : sts[i].to = "usedIdx"}
  IN IF w = {} THEN usedIdx ELSE sts[Newest(w)].num
RetAfter(sts) ==
  [t \in Tags |-> LET w == {i \in DOMAIN sts : sts[i].tag = t}
                  IN IF w = {} THEN ret[t] ELSE sts[Newest(w)].answer]
UsedAfter(sts) ==
  [k \in Slots |-> LET w == {i \in DOMAIN sts : sts[i].to = "used" /\ sts[i].at = k}
                   IN IF w = {} THEN used[k] ELSE sts[Newest(w)].num]
OwnUsedIdx == UsedIdxAfter(stores)

\* The stores of push_used, in program order.
PushUsed(head) ==
  << StoreOf("used", None, OwnUsedIdx % QSZ, None, head),
     StoreOf("usedIdx", None, 0, None, Incr(OwnUsedIdx)) >>

\* What the block device may answer to r.
BlkOutcomes(r) ==
  CASE r.op = "in" -> {Answer("ok", disk[r.sector])}
    [] r.op = "out" -> {Answer("ioerr", None)}
                       \cup (IF writable THEN {Answer("ok", None)} ELSE {})
    [] r.op = "flush" -> {Answer("ok", None)}
                         \cup (IF writable THEN {Answer("ioerr", None)} ELSE {})
    [] OTHER -> {Answer("unsupp", None)}

\* The entropy source: random bytes, or none when its read fails.
RngOutcomes == {Answer("ok", v) : v \in Vals \cup {None}}

\* Mutant: a disk opened read-only takes writes.
WrittenAlways(r, status) ==
  IF r.op # "out" THEN {disk} ELSE {[disk EXCEPT ![r.sector] = r.val]}

\* The disk after r: a write that failed may have reached it.
Written(r, status) ==
  IF r.op # "out" \/ ~writable THEN {disk}
  ELSE {[disk EXCEPT ![r.sector] = r.val]} \cup (IF status = "ok" THEN {} ELSE {disk})

Apply(sts) ==
  /\ ret' = RetAfter(sts) /\ used' = UsedAfter(sts) /\ usedIdx' = UsedIdxAfter(sts)

\* The positions S in order.
InOrder(S) ==
  CHOOSE at \in [1 .. Cardinality(S) -> S] : \A i, j \in DOMAIN at : i < j => at[i] < at[j]

\* Which of the stores sts the other vcpus see now, and which later: a
\* store may overtake those before it to other places.
Surfacing(sts) ==
  LET place(i) == <<sts[i].to, sts[i].tag, sts[i].at>>
      pick(S) == [i \in 1 .. Cardinality(S) |-> sts[InOrder(S)[i]]]
  IN IF Ordered THEN {[now |-> sts, later |-> <<>>]}
     ELSE {[now |-> pick(S), later |-> pick(DOMAIN sts \ S)] :
             S \in {S \in SUBSET DOMAIN sts :
                      \A i \in S, j \in DOMAIN sts : j < i /\ place(j) = place(i) => j \in S}}

\* Mutant: the range dropped is longer than the guest gave.
DroppedMore(t) == Tags

\* The pages dropped for a balloon request in slot t.
Dropped(t) == {t}

\* The handler, on a chain whose header is in slot t: what it may answer.  The
\* block device ignores a chain without a status buffer.
Answers(t, chain) ==
  IF t = None \/ req[t] = None \/ (kind = "blk" /\ Len(chain) < 2) THEN {None}
  ELSE CASE kind = "blk" -> BlkOutcomes(req[t])
         [] kind = "rng" -> RngOutcomes
         [] kind = "balloon" -> {Answer("ok", None)}

Handle(t, a) ==
  IF a = None THEN UNCHANGED <<disk, page>>
  ELSE /\ disk' \in Written(req[t], a.status)
       /\ page' = IF req[t].op # "drop" THEN page
                  ELSE [p \in Tags |-> page[p] /\ p \notin Dropped(t)]

\* One turn of the loop of `process': walk the chain, handle it, push_used.
ServeChain ==
  /\ proc # None /\ proc.lastAvail # proc.until /\ proc.budget > 0
  /\ LET head == avail[proc.lastAvail % QSZ]
         chain == CollectChain(head)
         t == desc[head].tag
     IN \E a \in Answers(t, chain) :
          /\ Handle(t, a)
          /\ LET buffers == IF a = None THEN <<>>
                            ELSE << StoreOf("ret", desc[chain[Len(chain)]].tag, 0, a, 0) >>
             IN \E seen \in Surfacing(stores \o buffers \o PushUsed(head)) :
                  Apply(seen.now) /\ stores' = seen.later
  /\ proc' = [proc EXCEPT !.lastAvail = Incr(@), !.budget = @ - 1, !.progressed = TRUE]
  /\ UNCHANGED <<driver, kind, writable, device, life>>

\* The consumed index `process' leaves.
ServedUpTo == proc.lastAvail

\* `process' returns: the index is kept, the line raised, the lock dropped.
Served ==
  /\ proc # None /\ (proc.lastAvail = proc.until \/ proc.budget = 0)
  /\ queue' = [queue EXCEPT !.lastAvail = ServedUpTo]
  /\ interruptStatus' = (interruptStatus \/ proc.progressed)
  /\ proc' = None
  /\ Apply(stores) /\ stores' = <<>>
  /\ UNCHANGED <<driver, backing, life>>

-----------------------------------------------------------------------------
(***************************************************************************)
(* The guest's driver, which owns the descriptor table and the rings.      *)
(***************************************************************************)

\* Some n free descriptors.
FreeDescs == {i \in Slots : desc[i] = Free}
TakeFree(n) == CHOOSE at \in [1 .. n -> FreeDescs] : \A j, k \in 1 .. n : at[j] = at[k] => j = k

Post(t, r) ==
  /\ running /\ queue.ready /\ req[t] = None
  /\ Cardinality(FreeDescs) >= ChainLen(r)
  /\ LET n == ChainLen(r)
         at == TakeFree(n)
         place(i) == CHOOSE k \in 1 .. n : at[k] = i
     IN /\ desc' = [i \in Slots |->
                      IF \A k \in 1 .. n : at[k] # i THEN desc[i]
                      ELSE [tag |-> t, more |-> place(i) < n,
                            next |-> IF place(i) < n THEN at[place(i) + 1] ELSE 0]]
        /\ avail' = [avail EXCEPT ![availIdx % QSZ] = at[1]]
  /\ availIdx' = Incr(availIdx)
  /\ req' = [req EXCEPT ![t] = r]
  /\ kick' = TRUE
  /\ UNCHANGED <<lastUsed, isr, shared, backing, device, proc, stores, life>>

\* The interrupt: the driver acknowledges it, then drains the used ring.
IsrEnter ==
  /\ LockFree /\ interruptStatus /\ ~isr
  /\ interruptStatus' = FALSE /\ isr' = TRUE
  /\ UNCHANGED <<req, desc, avail, availIdx, lastUsed, kick, shared, backing, queue,
                 proc, stores, life>>

\* The driver takes one answer, and clears the ring entries it is done with.
Finish ==
  /\ running /\ isr /\ lastUsed # usedIdx
  /\ LET t == desc[used[lastUsed % QSZ]].tag
     IN /\ t # None
        /\ req' = [req EXCEPT ![t] = None] /\ ret' = [ret EXCEPT ![t] = None]
        /\ page' = [page EXCEPT ![t] = TRUE]
        /\ desc' = [i \in Slots |-> IF desc[i].tag = t THEN Free ELSE desc[i]]
  /\ avail' = [avail EXCEPT ![lastUsed % QSZ] = 0]
  /\ used' = [used EXCEPT ![lastUsed % QSZ] = 0]
  /\ lastUsed' = Incr(lastUsed)
  /\ UNCHANGED <<availIdx, kick, isr, usedIdx, kind, writable, disk, device,
                 proc, stores, life>>

IsrLeave ==
  /\ running /\ isr /\ lastUsed = usedIdx
  /\ isr' = FALSE
  /\ UNCHANGED <<req, desc, avail, availIdx, lastUsed, kick, shared, backing, device,
                 proc, stores, life>>

-----------------------------------------------------------------------------
(***************************************************************************)
(* The snapshot: every vcpu is out of the guest and out of the devices.    *)
(***************************************************************************)
\* What the snapshot holds: guest memory and registers, and the device.
Captured ==
  [req |-> req, ret |-> ret, page |-> page, desc |-> desc, avail |-> avail,
   availIdx |-> availIdx, used |-> used, usedIdx |-> usedIdx,
   lastUsed |-> lastUsed, kick |-> kick, isr |-> isr,
   queue |-> queue, interruptStatus |-> interruptStatus]

Capture ==
  /\ LockFree /\ saved = None /\ forks = 0
  /\ saved' = Captured
  /\ running' = FALSE
  /\ UNCHANGED <<driver, shared, backing, device, proc, stores, resets, forks>>

\* The queue registers a restored device gets.
RestoredQueue == saved.queue

\* A fork starts from the snapshot; it re-opens the disk read-only.
Restore ==
  /\ saved # None /\ proc = None /\ forks < MaxForks
  /\ forks' = forks + 1 /\ running' = TRUE
  \* guest memory and registers
  /\ req' = saved.req /\ ret' = saved.ret /\ page' = saved.page /\ desc' = saved.desc
  /\ avail' = saved.avail /\ availIdx' = saved.availIdx
  /\ used' = saved.used /\ usedIdx' = saved.usedIdx
  /\ lastUsed' = saved.lastUsed /\ kick' = saved.kick /\ isr' = saved.isr
  \* the device
  /\ queue' = RestoredQueue /\ interruptStatus' = saved.interruptStatus
  /\ writable' = FALSE
  /\ saved' = IF forks' = MaxForks THEN None ELSE saved
  /\ UNCHANGED <<kind, disk, proc, stores, resets>>

Next ==
  \/ SetUpQueue \/ Reset \/ Notify \/ ServeChain \/ Served
  \/ \E t \in Tags, r \in RequestsOf(kind) : Post(t, r)
  \/ IsrEnter \/ Finish \/ IsrLeave
  \/ Capture \/ Restore

Spec == Init /\ [][Next]_vars

-----------------------------------------------------------------------------
\* Vcpus go on: a driver that posted notifies, a handler that was entered
\* returns, a raised line is taken, an interrupt handler drains the ring.
Fairness ==
  /\ WF_vars(Notify) /\ WF_vars(ServeChain) /\ WF_vars(Served)
  /\ WF_vars(IsrEnter) /\ WF_vars(Finish) /\ WF_vars(IsrLeave)

FairSpec == Spec /\ Fairness

\* The types of the state: ring indices stay below the wrap.
TypeOK ==
  /\ kind \in Kinds /\ writable \in BOOLEAN /\ disk \in [Sectors -> Vals]
  /\ Captured \in Images
  /\ proc \in Locals \cup {None} /\ saved \in Images \cup {None}
  /\ \A t \in Tags : req[t] \in RequestsOf(kind) \cup {None}

\* The entries of the used ring the driver has not looked at.
Unseen == {(lastUsed + k) % IdxMod : k \in 0 .. ((usedIdx + IdxMod - lastUsed) % IdxMod) - 1}

\* Whatever the driver finds in the used ring (push_used) is the head of a
\* chain it posted, answered in full, and no chain is there twice.
UsedIsComplete ==
  running =>
    /\ \A i \in Unseen : LET t == desc[used[i % QSZ]].tag
                         IN t # None /\ ret[t] # None
    /\ \A i, j \in Unseen : used[i % QSZ] = used[j % QSZ] => i = j

\* The types hold, the used ring is complete, and the balloon drops a page only
\* while the guest has given it up (BalloonDevice::handle): never one the guest
\* stores in again, though a snapshot or a reset left its chain behind.
PagesKept ==
  /\ TypeOK /\ UsedIsComplete
  /\ \A t \in Tags : req[t] = None => page[t]

\* Every request returns to the guest, in the VM that made it and in the
\* forks that start with it in flight, unless the VM stops for the snapshot.
RequestsReturn == \A t \in Tags : req[t] # None ~> (req[t] = None \/ ~running)

\* Every request is carried out once, between its submission and its return,
\* whatever the rings, the interrupts and a snapshot do (VirtioMmio::process).
Store == INSTANCE BlockStore
           WITH call <- req, answer <- RetAfter(stores),
                kept <- IF saved = None THEN None ELSE <<saved.req, saved.ret>>
StoreSpec == Store!Spec
=============================================================================
