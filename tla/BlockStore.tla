----------------------------- MODULE BlockStore -----------------------------
(***************************************************************************)
(* What a virtio device promises its driver: a request that is submitted   *)
(* is carried out once, at one moment between its submission and its       *)
(* return, and returns what that moment gave.  Resetting the device drops  *)
(* the requests; restoring a snapshot puts the requests back as they were  *)
(* when it was taken, over a disk that keeps its contents and accepts no   *)
(* write any more.                                                         *)
(***************************************************************************)
CONSTANTS
  Tags,     \* the driver's request slots
  Sectors,  \* the sectors of the disk
  Vals,     \* what a sector can hold
  Requests, \* the requests the device's driver makes
  None      \* no request, no answer, no snapshot

VARIABLES
  writable, \* whether the disk accepts writes
  disk,     \* disk[s]: the contents of sector s
  call,     \* call[t]: the request in slot t
  answer,   \* answer[t]: what carrying it out gave
  kept      \* the calls and answers in the snapshot

vars == <<writable, disk, call, answer, kept>>

Status == {"ok", "ioerr", "unsupp"}
Answer(status, data) == [status |-> status, data |-> data]
Answers == [status : Status, data : Vals \cup {None}]

\* What carrying out r may give.
Outcomes(r) ==
  CASE r.op = "in" -> {Answer("ok", disk[r.sector])}
    [] r.op = "out" -> IF writable THEN {Answer("ok", None), Answer("ioerr", None)}
                       ELSE {Answer("ioerr", None)}
    [] r.op = "flush" -> IF writable THEN {Answer("ok", None), Answer("ioerr", None)}
                         ELSE {Answer("ok", None)}
    [] r.op = "fill" -> {Answer("ok", v) : v \in Vals \cup {None}}
    [] r.op = "drop" -> {Answer("ok", None)}
    [] OTHER -> {Answer("unsupp", None)}

\* The disk after r: a write that failed may have reached it.
Written(r, status) ==
  IF r.op # "out" \/ ~writable THEN {disk}
  ELSE {[disk EXCEPT ![r.sector] = r.val]} \cup (IF status = "ok" THEN {} ELSE {disk})

Idle == [t \in Tags |-> None]

Init ==
  /\ writable \in BOOLEAN
  /\ disk \in [Sectors -> Vals]
  /\ call = Idle /\ answer = Idle /\ kept = None

Submit(t, r) ==
  /\ call[t] = None
  /\ call' = [call EXCEPT ![t] = r]
  /\ UNCHANGED <<writable, disk, answer, kept>>

Carry(t, a) ==
  /\ call[t] # None /\ answer[t] = None
  /\ a \in Outcomes(call[t])
  /\ answer' = [answer EXCEPT ![t] = a]
  /\ disk' \in Written(call[t], a.status)
  /\ UNCHANGED <<writable, call, kept>>

Return(t) ==
  /\ answer[t] # None
  /\ call' = [call EXCEPT ![t] = None]
  /\ answer' = [answer EXCEPT ![t] = None]
  /\ UNCHANGED <<writable, disk, kept>>

Reset ==
  /\ call' = Idle /\ answer' = Idle
  /\ UNCHANGED <<writable, disk, kept>>

Checkpoint ==
  /\ kept' = <<call, answer>>
  /\ UNCHANGED <<writable, disk, call, answer>>

Rollback ==
  /\ kept # None
  /\ call' = kept[1] /\ answer' = kept[2]
  /\ writable' = FALSE
  /\ kept' \in {kept, None}
  /\ UNCHANGED disk

Next ==
  \/ \E t \in Tags :
       \/ \E r \in Requests : Submit(t, r)
       \/ \E a \in Answers : Carry(t, a)
       \/ Return(t)
  \/ Reset \/ Checkpoint \/ Rollback

Spec == Init /\ [][Next]_vars
=============================================================================
