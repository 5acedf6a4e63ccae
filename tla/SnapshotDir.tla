----------------------------- MODULE SnapshotDir -----------------------------
(***************************************************************************)
(* A snapshot directory (snapshot.rs) and the VMs restored from it (vm.rs, *)
(* restore_from and the start of run).  `amber template` boots a VM,       *)
(* captures it and writes the directory one file after the other; it can   *)
(* be killed at any point and run again.  Restores read the files one by   *)
(* one, at any time, and map mem.bin copy-on-write, so that a running fork *)
(* goes on reading it.                                                     *)
(*                                                                         *)
(* A file is absent, cut to nothing while it is written, or whole; what    *)
(* it says is the attempt that wrote it and, for dev.json and meta.json,   *)
(* the machine it describes.                                               *)
(***************************************************************************)
EXTENDS Naturals, Sequences, FiniteSets

CONSTANTS
  Restores,      \* processes that restore: the forks of the template
  MaxVcpus,
  MaxAttempts,   \* how often the template is made
  None

GicKinds == {"v2", "v3"}
Machines ==
  [disk : BOOLEAN, data : 0..1, net : BOOLEAN, vsock : BOOLEAN, vcpus : 1..MaxVcpus, gic : GicKinds]
Hosts == [net : BOOLEAN, vsock : BOOLEAN, gic : GicKinds]

ASSUME SnapshotAssumption == MaxVcpus \in Nat \ {0} /\ MaxAttempts \in Nat

VARIABLES
  machine,   \* the template's VM
  dir,       \* dir[f]: the state of file f
  writer,    \* the attempt that is running: its number, the files left, what it does to the first
  attempts,
  fork,      \* fork[r]: a restore
  clash      \* history: an attempt over older files has met a restore, or a complete directory

vars == <<machine, dir, writer, attempts, fork, clash>>

Opt(present, d) == IF present THEN <<d>> ELSE <<>>

\* prepare: the order of the devices; a data disk is a disk too.
Devices(m) ==
  Opt(m.disk, "blk") \o Opt(m.data = 1, "blk") \o <<"rng">> \o Opt(m.net, "net")
    \o Opt(m.vsock, "vsock") \o <<"balloon">>

CpuFile(i) == <<"cpu", i>>
CpuFiles(n) == [i \in 1..n |-> CpuFile(i - 1)]
Files == {<<"dev", 0>>, <<"mem", 0>>, <<"gic", 0>>, <<"meta", 0>>} \cup {CpuFile(i) : i \in 0..MaxVcpus - 1}

\* (A wrong order of write: the memory last.)
WriteOrderLate(m) == <<<<"dev", 0>>, <<"gic", 0>>, <<"meta", 0>>>> \o CpuFiles(m.vcpus) \o <<<<"mem", 0>>>>

\* The order of write.
WriteOrder(m) == <<<<"dev", 0>>, <<"mem", 0>>, <<"gic", 0>>, <<"meta", 0>>>> \o CpuFiles(m.vcpus)

Absent == [st |-> "absent", by |-> 0]
NoFork == [pc |-> "new", host |-> None, meta |-> None, next |-> 0, cpus |-> <<>>, gic |-> None, dev |-> None,
           built |-> <<>>, ready |-> FALSE]

Init ==
  /\ machine \in Machines
  /\ dir = [f \in Files |-> Absent]
  /\ writer = None /\ attempts = 0
  /\ fork = [r \in Restores |-> NoFork]
  /\ clash = FALSE

-----------------------------------------------------------------------------
(***************************************************************************)
(* The template.                                                           *)
(***************************************************************************)
Complete == \A f \in {WriteOrder(machine)[i] : i \in DOMAIN WriteOrder(machine)} :
              dir[f].st = "whole" /\ dir[f].by = dir[<<"mem", 0>>].by

\* An attempt is running over what an earlier one left.
Again == writer # None /\ writer.by > 1

Reading(r) == fork[r].pc \notin {"new", "running", "refused"}

\* The snapshot point of run: the state is captured and write called.  Nothing
\* keeps an attempt away from a complete directory, or a second one and the
\* restores from each other; clash records that they have met.
Take ==
  /\ writer = None /\ attempts < MaxAttempts
  /\ attempts' = attempts + 1
  /\ writer' = [by |-> attempts + 1, left |-> WriteOrder(machine), open |-> FALSE]
  /\ clash' = (clash \/ Complete \/ (attempts > 0 /\ \E r \in Restores : Reading(r)))
  /\ UNCHANGED <<machine, dir, fork>>

\* fs::write: the file is made, or cut to nothing; then it is written.
WriteFile ==
  /\ writer # None
  /\ LET f == Head(writer.left)
     IN dir' = [dir EXCEPT ![f] = [st |-> IF writer.open THEN "whole" ELSE "cut", by |-> writer.by]]
  /\ writer' = CASE ~writer.open -> [writer EXCEPT !.open = TRUE]
                 [] writer.open /\ Len(writer.left) = 1 -> None
                 [] OTHER -> [writer EXCEPT !.open = FALSE, !.left = Tail(@)]
  /\ UNCHANGED <<machine, attempts, fork, clash>>

Killed ==
  /\ writer # None
  /\ writer' = None
  /\ UNCHANGED <<machine, dir, attempts, fork, clash>>

-----------------------------------------------------------------------------
(***************************************************************************)
(* A restore.                                                              *)
(***************************************************************************)
At(r, pc) == fork[r].pc = pc
Mem == dir[<<"mem", 0>>]

\* cmd_restore, with the backends and the interrupt controller of its host.
Begin(r, host) ==
  /\ At(r, "new")
  /\ fork' = [fork EXCEPT ![r] = [NoFork EXCEPT !.pc = "meta", !.host = host,
                                                !.ready = Complete /\ writer = None]]
  /\ clash' = (clash \/ Again)
  /\ UNCHANGED <<machine, dir, writer, attempts>>

Goes(r, f) == fork' = [fork EXCEPT ![r] = f] /\ UNCHANGED <<machine, dir, writer, attempts, clash>>
Refused(r) == [fork[r] EXCEPT !.pc = "refused"]

\* read, file by file: a JSON file that is not there or does not parse refuses.
Parses(f) == dir[f].st = "whole"

ReadMeta(r) ==
  /\ At(r, "meta")
  /\ Goes(r, IF Parses(<<"meta", 0>>) THEN [fork[r] EXCEPT !.pc = "cpus", !.meta = machine] ELSE Refused(r))

ReadCpu(r) ==
  /\ At(r, "cpus")
  /\ LET b == fork[r]
         f == CpuFile(b.next)
     IN Goes(r, IF ~Parses(f) THEN Refused(r)
                ELSE [b EXCEPT !.next = @ + 1, !.cpus = Append(@, dir[f].by),
                               !.pc = IF b.next + 1 < b.meta.vcpus THEN "cpus" ELSE "gic"])

\* gic.bin is bytes: cut short it is read all the same.
ReadGic(r) ==
  /\ At(r, "gic")
  /\ Goes(r, IF dir[<<"gic", 0>>].st = "absent" THEN Refused(r)
             ELSE [fork[r] EXCEPT !.pc = "dev", !.gic = dir[<<"gic", 0>>]])

\* dev.json may be missing, and then names no device.
ReadDev(r) ==
  /\ At(r, "dev")
  /\ LET d == dir[<<"dev", 0>>]
     IN Goes(r, CASE d.st = "cut" -> Refused(r)
                  [] d.st = "absent" -> [fork[r] EXCEPT !.pc = "map", !.dev = [by |-> 0, virtio |-> <<>>]]
                  [] OTHER -> [fork[r] EXCEPT !.pc = "map", !.dev = [by |-> d.by, virtio |-> Devices(machine)]])

\* from_snapshot_cow: the file is mapped, with the length it has.
MapMem(r) ==
  /\ At(r, "map")
  /\ Goes(r, IF Mem.st = "absent" THEN Refused(r) ELSE [fork[r] EXCEPT !.pc = "devices"])

\* (A wrong rebuild: vsock before net.)
RebuiltSwapped(m) ==
  Opt(m.disk, "blk") \o <<"rng">> \o Opt(m.vsock, "vsock") \o Opt(m.net, "net") \o <<"balloon">>

\* (A wrong rebuild, without the vsock device.)
RebuiltMute(m) == Opt(m.disk, "blk") \o <<"rng">> \o Opt(m.net, "net") \o <<"balloon">>

\* restore_from: the devices meta.json tells of.  It knows of no data disk.
Rebuilt(m) ==
  Opt(m.disk, "blk") \o <<"rng">> \o Opt(m.net, "net") \o Opt(m.vsock, "vsock") \o <<"balloon">>

\* It refuses without the backend of a device, or when the count differs.
Rebuild(r) ==
  /\ At(r, "devices")
  /\ LET b == fork[r]
     IN Goes(r, IF \/ b.meta.net /\ ~b.host.net
                   \/ b.meta.vsock /\ ~b.host.vsock
                   \/ Len(Rebuilt(b.meta)) # Len(b.dev.virtio)
                THEN Refused(r)
                ELSE [b EXCEPT !.pc = "run", !.built = Rebuilt(b.meta)])

GicFits(b) == b.meta.gic = b.host.gic

\* run: the kind of the interrupt controller is checked, then controller, vcpus
\* and devices get their state, the devices by position.
Resume(r) ==
  /\ At(r, "run")
  /\ Goes(r, IF GicFits(fork[r]) THEN [fork[r] EXCEPT !.pc = "running"] ELSE Refused(r))

Next ==
  \/ Take \/ WriteFile \/ Killed
  \/ \E r \in Restores : \/ \E host \in Hosts : Begin(r, host)
                         \/ ReadMeta(r) \/ ReadCpu(r) \/ ReadGic(r) \/ ReadDev(r)
                         \/ MapMem(r) \/ Rebuild(r) \/ Resume(r)

Spec == Init /\ [][Next]_vars

-----------------------------------------------------------------------------
(***************************************************************************)
(* Properties.                                                             *)
(***************************************************************************)
Running(r) == fork[r].pc = "running"

\* The types of the state; a restore reads no more vcpus than there are.
TypeOK ==
  /\ machine \in Machines /\ attempts \in 0..MaxAttempts
  /\ \A f \in Files : dir[f].st \in {"absent", "cut", "whole"} /\ dir[f].by \in 0..attempts
  /\ \A r \in Restores : fork[r].next \in 0..machine.vcpus /\ Len(fork[r].cpus) = fork[r].next

\* A running fork is one captured VM: its vcpus, interrupt controller, devices
\* and the memory it still reads are of one attempt and whole, whenever the
\* restore read them and whichever attempts were killed (the order of write;
\* read; from_snapshot_cow).  Where a second attempt meets a restore or a
\* complete directory it does not hold.
RestoredWhole ==
  /\ TypeOK
  /\ clash \/ \A r \in Restores : Running(r) =>
       /\ Mem.st = "whole" /\ fork[r].gic = [st |-> "whole", by |-> Mem.by]
       /\ fork[r].dev.by = Mem.by
       /\ Len(fork[r].cpus) = machine.vcpus
       /\ \A i \in DOMAIN fork[r].cpus : fork[r].cpus[i] = Mem.by

\* The state of every device goes to a device of its own kind ("recreate
\* exactly, or fail closed", restore_from), also for a VM with data disks, which
\* meta.json does not record; and that of the interrupt controller to its kind.
DevicesLineUp ==
  \A r \in Restores : Running(r) => fork[r].built = Devices(machine) /\ fork[r].host.gic = machine.gic

\* A restore of a complete directory, with the backends it needs, on the right
\* kind of host and of a VM without data disks, is not refused.
RefusedForCause ==
  clash \/ \A r \in Restores :
    LET b == fork[r]
    IN (b.pc = "refused" /\ b.ready) =>
         \/ machine.net /\ ~b.host.net
         \/ machine.vsock /\ ~b.host.vsock
         \/ machine.data > 0 \/ machine.gic # b.host.gic
=============================================================================
