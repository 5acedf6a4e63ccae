------------------------------- MODULE UserNet -------------------------------
(***************************************************************************)
(* The user-mode network of one VM (amber-net, SmoltcpBackend), under the  *)
(* virtio-net device that carries its frames (net.rs NetDevice, virtio.rs  *)
(* pump_rx), between the guest's TCP and the sockets of the host.          *)
(*                                                                         *)
(* A connection of the guest is a guest port and the address it dials.     *)
(* The backend rewrites its frames to a port of the gateway, where a       *)
(* socket of its own TCP stack ends the connection, and copies bytes       *)
(* between that socket and a host stream.  A host connection to a          *)
(* forwarded port runs the other way.  TCP itself, the guest and the peers *)
(* are external: they are cut down to the segments that change a state     *)
(* (handshake, numbered units of data, the ends) over frames that are      *)
(* neither lost nor reordered below the device.                            *)
(***************************************************************************)
EXTENDS Naturals, Sequences, FiniteSets, SequencesExt, FiniteSetsExt

CONSTANTS
  Out,             \* connections the guest dials
  In,              \* connections host clients make to a forwarded port
  Queries,         \* DNS queries of the guest, one per endpoint that asks
  Scenarios,       \* which of those happen in one behaviour: a set of sets
  Port, Ext,       \* of a connection: its guest port; of a dialled one: its address
  Class,           \* of a dialled address: the range it is in
  AllowPrivate,    \* AMBER_NET_ALLOW_PRIVATE=1
  Dns,             \* the gateway's port 53
  None,
  MAX_FLOWS, MAX_PENDING_DNS,
  EphPorts,        \* how many ports next_eph cycles through (25536 in the code)
  TxBuf, ReadMax,  \* units in a socket's send buffer, and in one read of a host stream
  HostBuf,         \* units a host stream takes before a write would block
  Buffers, Rate,   \* receive buffers the guest posts; burst of the receive bucket
  Closers, Flaky,  \* connections whose ends close; whose dial may be refused
  HostUnits, GuestUnits, MaxRefused, MaxLost, MaxQueued   \* bounds on what the peers do

\* The ranges egress_blocked tells apart.
Ranges == {"loopback", "linklocal", "broadcast", "unspecified", "documentation", "private", "public"}

ASSUME NetAssumption ==
  /\ {MAX_FLOWS, MAX_PENDING_DNS, MaxRefused, MaxLost, MaxQueued} \subseteq Nat
  /\ HostUnits \in [Out \cup In -> Nat] /\ GuestUnits \in [Out \cup In -> Nat]
  /\ {EphPorts, TxBuf, ReadMax, HostBuf, Buffers, Rate} \subseteq Nat \ {0}
  /\ Out \cap In = {} /\ DOMAIN Port = Out \cup In /\ DOMAIN Ext = Out
  /\ Class \in [{Ext[c] : c \in Out} -> Ranges] /\ AllowPrivate \in BOOLEAN
  /\ \A c, d \in Out : Port[c] = Port[d] /\ Ext[c] = Ext[d] => c = d
  /\ Scenarios \subseteq SUBSET (Out \cup In \cup Queries)

VARIABLES
  active,   \* what this behaviour is about
  flows,    \* flows and inbound: the proxied connections with their sockets
  nextEph,
  accepted, \* connections the listener threads queued
  pending,  \* pending_dns: the queries in flight, in order
  tx,       \* frames of the stack for the guest (Bridge.tx)
  deferred, \* NetDevice.pending_rx: the frame the rate cap held back, or None
  tokens,   \* the receive bucket
  rx,       \* frames in used receive buffers the guest has not taken yet
  host,     \* the host stream of each connection and the peer behind it
  guest,    \* the guest's end of each connection
  asked,    \* the guest's side of each query
  faults    \* dials refused and answers lost so far

stack == <<flows, nextEph, accepted, pending, tx>>
dev == <<deferred, tokens, rx>>
vars == <<active, stack, dev, host, guest, asked, faults>>

Conns == Out \cup In

FlowStates == {"listen", "synsent", "synrcvd", "est", "closewait",
               "finwait", "finwait2", "closing", "lastack", "timewait", "closed"}

NoHost == [open |-> FALSE, wrote |-> 0, read |-> 0, eof |-> FALSE, got |-> 0, taken |-> 0]
NoGuest == [st |-> "idle", peer |-> None, got |-> <<>>, eof |-> FALSE,
            sent |-> 0, fin |-> FALSE, owes |-> FALSE]

Init ==
  /\ active \in Scenarios
  /\ flows = <<>> /\ nextEph = 0 /\ accepted = <<>> /\ pending = <<>> /\ tx = <<>>
  /\ deferred = None /\ tokens = Rate /\ rx = <<>>
  /\ host = [c \in Conns |-> NoHost] /\ guest = [c \in Conns |-> NoGuest]
  /\ asked = [q \in Queries |-> "idle"]
  /\ faults = [refused |-> 0, lost |-> 0]

-----------------------------------------------------------------------------
(***************************************************************************)
(* The sockets of the stack, and the flows that own them.  A flow has its  *)
(* connection, its gateway port, the state of the host connection, and its *)
(* socket: state, units the guest sent (rcv), units queued for the guest   *)
(* and not acknowledged (snd, after una acknowledged ones), and segments   *)
(* to emit (out).  host_done is not kept: a socket that was closed or      *)
(* aborted can never send again.                                           *)
(***************************************************************************)
Flow(c, eph, link, st, out) ==
  [c |-> c, eph |-> eph, link |-> link, st |-> st, rcv |-> 0,
   snd |-> <<>>, una |-> 0, out |-> out]

Seg(kind, n) == [kind |-> kind, n |-> n]

OutFlows(fs) == SelectSeq(fs, LAMBDA f : f.c \in Out)
HasFlow(fs, c) == \E i \in DOMAIN fs : fs[i].c = c

\* A segment of the guest acknowledges what the guest has, then says something.
Acked(f, g) ==
  [f EXCEPT !.snd = SubSeq(@, Len(g.got) - f.una + 1, Len(@)), !.una = Len(g.got),
            !.st = CASE @ = "synrcvd" -> "est"
                     [] @ = "finwait" /\ g.eof -> "finwait2"
                     [] @ = "closing" /\ g.eof -> "timewait"
                     [] @ = "lastack" /\ g.eof -> "closed"
                     [] OTHER -> @]

Ingest(f, kind, g) ==
  LET a == Acked(f, g)
  IN CASE kind = "syn" /\ f.st = "listen" -> [f EXCEPT !.st = "synrcvd", !.out = <<Seg("synack", 0)>>]
       [] kind = "synack" /\ f.st = "synsent" -> [f EXCEPT !.st = "est"]
       [] kind = "rst" -> [f EXCEPT !.st = "closed"]
       [] kind = "ack" -> a
       [] kind = "data" -> [a EXCEPT !.rcv = @ + 1]
       [] kind = "fin" -> [a EXCEPT !.st = CASE @ = "est" -> "closewait"
                                             [] @ = "finwait" -> "closing"
                                             [] @ = "finwait2" -> "timewait"
                                             [] OTHER -> @]
       [] OTHER -> f

CanSend(f) == f.st \in {"est", "closewait"} /\ Len(f.snd) < TxBuf

\* sock.close()
Closed(f) == [f EXCEPT !.st = IF @ = "est" THEN "finwait" ELSE "lastack",
                       !.out = Append(@, Seg("fin", 0))]

\* Mutant: one unit of what was read is queued, whatever was read.
TakenShort(f, r) == Min({r, 1})

\* What send_slice takes of the r units read from the host.
Taken(f, r) == Min({r, TxBuf - Len(f.snd)})

\* Mutant: a short write to the host stream is taken for a whole one.
BridgedShort(f, h) ==
  LET w == Min({f.rcv, HostBuf - (h.got - h.taken)})
      r == IF CanSend(f) THEN Min({ReadMax, h.wrote - h.read}) ELSE 0
      units == [k \in 1..Taken(f, r) |-> h.read + k]
      drained == [f EXCEPT !.link = "up", !.rcv = 0]
  IN [flow |-> IF CanSend(f) /\ r = 0 /\ h.eof THEN Closed(drained)
               ELSE [drained EXCEPT !.snd = @ \o units,
                                    !.out = @ \o [k \in DOMAIN units |-> Seg("data", units[k])]],
      host |-> [h EXCEPT !.got = @ + w, !.read = @ + r]]

\* bridge: guest bytes into the host stream, as many as it takes; then one
\* read of the host stream into the socket, or its end.
Bridged(f, h) ==
  LET w == Min({f.rcv, HostBuf - (h.got - h.taken)})
      r == IF CanSend(f) THEN Min({ReadMax, h.wrote - h.read}) ELSE 0
      units == [k \in 1..Taken(f, r) |-> h.read + k]
      drained == [f EXCEPT !.link = "up", !.rcv = @ - w]
  IN [flow |-> IF CanSend(f) /\ r = 0 /\ h.eof THEN Closed(drained)
               ELSE [drained EXCEPT !.snd = @ \o units,
                                    !.out = @ \o [k \in DOMAIN units |-> Seg("data", units[k])]],
      host |-> [h EXCEPT !.got = @ + w, !.read = @ + r]]

\* pump_flows and pump_inbound on one flow: a dial that is over is taken up, or
\* the socket aborted; the flow of a live host stream is bridged.
Pump(f, h) ==
  CASE f.link \in {"ok", "up"} -> Bridged(f, h)
    [] f.link = "err" -> [flow |-> [f EXCEPT !.st = "closed"], host |-> h]
    [] OTHER -> [flow |-> f, host |-> h]

Pumped(fs, S) ==
  [k \in DOMAIN fs |-> IF fs[k].c \in S THEN Pump(fs[k], host[fs[k].c])
                       ELSE [flow |-> fs[k], host |-> host[fs[k].c]]]

\* Mutant: a flow goes as soon as the guest has closed its half.
DeadEarly(f, S) == f.c \in S /\ f.st \in {"closed", "closewait"}

\* retain: closed flows of S go, with sockets, unsent segments and host streams.
Dead(f, S) == f.c \in S /\ f.st = "closed"
Live(ps, S) == LET live == SelectSeq(ps, LAMBDA p : ~Dead(p.flow, S))
               IN [k \in DOMAIN live |-> live[k].flow]
HostOf(ps, S, c) ==
  LET mine == {k \in DOMAIN ps : ps[k].flow.c = c}
  IN IF mine = {} THEN host[c]
     ELSE LET p == ps[Min(mine)] IN [p.host EXCEPT !.open = @ /\ ~Dead(p.flow, S)]

-----------------------------------------------------------------------------
(***************************************************************************)
(* Frames for the guest.  "of" is the socket a frame was made by; only the *)
(* properties look at it.                                                  *)
(***************************************************************************)
Frame(src, dport, seg, of) == [src |-> src, dport |-> dport, kind |-> seg.kind, n |-> seg.n, of |-> of]

FrameLen(fr) == IF fr.kind = "data" THEN 2 ELSE 1

\* poll_iface: the segments of every socket become frames, the DNS socket's first.
Emitted(fs) ==
  FlattenSeq([i \in DOMAIN fs |->
    [k \in DOMAIN fs[i].out |-> Frame(fs[i].eph, Port[fs[i].c], fs[i].out[k], fs[i].c)]])
Quiet(fs) == [i \in DOMAIN fs |-> [fs[i] EXCEPT !.out = <<>>]]

\* pump_dns: replies that came in are relayed, and failed sockets dropped.
Waiting(ps) == SelectSeq(ps, LAMBDA p : p.st \in {"out", "lost"})
Relayed(ps) ==
  LET in == SelectSeq(ps, LAMBDA p : p.st = "in")
  IN [i \in DOMAIN in |-> Frame(Dns, in[i].q, Seg("dns", 0), in[i].q)]

\* rewrite, of the source address and port.
Rewritten(fr, src) == [fr EXCEPT !.src = src]

\* Mutant: the flow of a reply is looked up by its guest port only.
DnatOutByPort(fr, fs) ==
  LET of == OutFlows(fs)
      match == {i \in DOMAIN of : Port[of[i].c] = fr.dport}
  IN IF match = {} THEN fr ELSE Rewritten(fr, Ext[of[Min(match)].c])

\* dnat_out: the source of a reply becomes the address the guest dialled.
DnatOut(fr, fs) ==
  LET of == OutFlows(fs)
      match == {i \in DOMAIN of : of[i].eph = fr.src /\ Port[of[i].c] = fr.dport}
  IN IF match = {} THEN fr ELSE Rewritten(fr, Ext[of[Min(match)].c])

NextEph(n) == (n + 1) % EphPorts

EgressBlocked(addr) ==
  IF Class[addr] = "private" THEN ~AllowPrivate ELSE Class[addr] # "public"

\* maybe_open_flow on a segment of connection c.
Opens(c, kind) ==
  /\ kind = "syn" /\ c \in Out
  /\ ~HasFlow(flows, c)
  /\ Len(OutFlows(flows)) < MAX_FLOWS
  /\ ~EgressBlocked(Ext[c])

\* The end of send and of poll: the flows of S and the queries qs are pumped,
\* and everything there is to say goes to the frame queue, after tx0.
Turn(fs, S, qs, tx0) ==
  {[flows |-> Quiet(Live(ps, S)), host |-> [c \in Conns |-> HostOf(ps, S, c)], pending |-> Waiting(qs),
    tx |-> tx0 \o Relayed(qs) \o Emitted(Live(ps, S))] : ps \in {Pumped(f, S) : f \in {fs}}}

Takes(t) == flows' = t.flows /\ host' = t.host /\ pending' = t.pending

\* dnat_in: the socket a segment of connection c is rewritten for, if there is one.
DnatIn(fs, c) == {k \in DOMAIN fs : fs[k].c = c}

\* The flow table and the sockets once the stack has the segment.
Fed(c, kind, g) ==
  LET open == IF Opens(c, kind) THEN Append(flows, Flow(c, NextEph(nextEph), "dialing", "listen", <<>>))
              ELSE flows
  IN [k \in DOMAIN open |-> IF k \in DnatIn(open, c) THEN Ingest(open[k], kind, g) ELSE open[k]]

\* send of a segment of connection c, of a guest end that is then g.
Send(c, kind, g) ==
  /\ \E fed \in {Fed(c, kind, g)} : \E t \in Turn(Quiet(fed), Out, pending, tx \o Emitted(fed)) :
       Takes(t) /\ tx' = t.tx
  /\ nextEph' = IF Opens(c, kind) THEN NextEph(nextEph) ELSE nextEph
  /\ UNCHANGED accepted

\* A notify of the transmit queue: the device hands the frame to the backend.
Transmit(c, kind, g) ==
  /\ Send(c, kind, g) /\ guest' = [guest EXCEPT ![c] = g]
  /\ UNCHANGED <<active, dev, asked, faults>>

\* Mutant: the last place in the table is never used.
ForwardedShort(q) ==
  IF Len(pending) + 1 < MAX_PENDING_DNS THEN Append(pending, [q |-> q, st |-> "out"]) ELSE pending

\* send of a query: forwarded to the resolver, unless too many are in flight.
Forwarded(q) ==
  IF Len(pending) < MAX_PENDING_DNS THEN Append(pending, [q |-> q, st |-> "out"]) ELSE pending

Ask(q) ==
  /\ q \in active \cap Queries /\ Len(tx) < MaxQueued
  /\ asked[q] \in {"idle", "asked"} /\ asked' = [asked EXCEPT ![q] = "asked"]
  /\ \E t \in Turn(flows, Out, Forwarded(q), tx) : Takes(t) /\ tx' = t.tx
  /\ UNCHANGED <<active, nextEph, accepted, dev, guest, faults>>

\* accept_inbound: the stack dials the guest for each connection queued.
Inbound ==
  [k \in DOMAIN accepted |->
     Flow(accepted[k], (nextEph + k) % EphPorts, "up", "synsent", <<Seg("syn", 0)>>)]

\* next_rx_capacity: the guest has a buffer posted; inject_one fills it.
Posted == Len(rx) < Buffers
Inject(fr) == rx' = Append(rx, fr)

\* A frame the bucket cannot cover waits in the device.
Deliver(fr) ==
  IF tokens >= FrameLen(fr)
  THEN Inject(fr) /\ tokens' = tokens - FrameLen(fr) /\ deferred' = None
  ELSE deferred' = fr /\ UNCHANGED <<rx, tokens>>

\* poll of the backend, and what the device does with the frame it may return.
Poll ==
  /\ \E t \in Turn(flows \o Inbound, Conns, pending, tx) :
       /\ Takes(t)
       /\ IF t.tx = <<>> THEN tx' = <<>> /\ UNCHANGED dev
          ELSE tx' = Tail(t.tx) /\ Deliver(DnatOut(Head(t.tx), t.flows))
  /\ nextEph' = (nextEph + Len(accepted)) % EphPorts /\ accepted' = <<>>

\* poll_rx: a deferred frame goes first.
PollRx == IF deferred # None THEN Deliver(deferred) /\ UNCHANGED <<stack, host>> ELSE Poll

\* Each receive buffer of pump_rx is one step: a pump ends when the guest has no
\* buffer posted, and it posts them singly.
PumpRx ==
  /\ Posted /\ PollRx
  /\ UNCHANGED <<active, guest, asked, faults>>

\* Time: the bucket refills, to one second of the rate at most.
Refill ==
  /\ tokens < Rate /\ tokens' = tokens + 1
  /\ UNCHANGED <<active, stack, deferred, rx, host, guest, asked, faults>>

-----------------------------------------------------------------------------
(***************************************************************************)
(* The threads and timers of the backend.                                  *)
(***************************************************************************)

\* The connect thread of flow i has its result.
Dialled(i) ==
  /\ i \in DOMAIN flows /\ flows[i].link = "dialing"
  /\ \/ /\ flows' = [flows EXCEPT ![i].link = "ok"]
        /\ host' = [host EXCEPT ![flows[i].c] = [NoHost EXCEPT !.open = TRUE]]
        /\ UNCHANGED faults
     \/ /\ flows[i].c \in Flaky /\ faults.refused < MaxRefused
        /\ faults' = [faults EXCEPT !.refused = @ + 1]
        /\ flows' = [flows EXCEPT ![i].link = "err"]
        /\ UNCHANGED host
  /\ UNCHANGED <<active, nextEph, accepted, pending, tx, dev, guest, asked>>

\* A host client connects to a forwarded port; the listener thread queues it.
Accept(c) ==
  /\ c \in active \cap In /\ host[c] = NoHost
  /\ host' = [host EXCEPT ![c].open = TRUE] /\ accepted' = Append(accepted, c)
  /\ UNCHANGED <<active, flows, nextEph, pending, tx, dev, guest, asked, faults>>

\* The resolver answers, or the datagram or its answer is lost, or the host
\* socket reports an error.
Resolve(i) ==
  /\ i \in DOMAIN pending /\ pending[i].st = "out"
  /\ \/ pending' = [pending EXCEPT ![i].st = "in"] /\ UNCHANGED faults
     \/ /\ faults.lost < MaxLost /\ faults' = [faults EXCEPT !.lost = @ + 1]
        /\ \E st \in {"lost", "err"} : pending' = [pending EXCEPT ![i].st = st]
  /\ UNCHANGED <<active, flows, nextEph, accepted, tx, dev, host, guest, asked>>

\* The wait of a socket in TIME-WAIT is over.
TimeWaitOver(i) ==
  /\ i \in DOMAIN flows /\ flows[i].st = "timewait"
  /\ flows' = [flows EXCEPT ![i].st = "closed"]
  /\ UNCHANGED <<active, nextEph, accepted, pending, tx, dev, host, guest, asked, faults>>

-----------------------------------------------------------------------------
(***************************************************************************)
(* The peer on the host side of connection c.                              *)
(***************************************************************************)
HostDoes(c, h) ==
  /\ host' = [host EXCEPT ![c] = h]
  /\ UNCHANGED <<active, stack, dev, guest, asked, faults>>

HostWrite(c) ==
  /\ host[c].open /\ ~host[c].eof /\ host[c].wrote < HostUnits[c]
  /\ HostDoes(c, [host[c] EXCEPT !.wrote = @ + 1])
HostClose(c) == c \in Closers /\ host[c].open /\ ~host[c].eof /\ HostDoes(c, [host[c] EXCEPT !.eof = TRUE])
HostTake(c) == host[c].taken < host[c].got /\ HostDoes(c, [host[c] EXCEPT !.taken = @ + 1])

(***************************************************************************)
(* The guest.                                                              *)
(***************************************************************************)

\* The connections whose socket a frame reaches in the guest.
Demux(fr) ==
  {c \in Out : guest[c].st # "idle" /\ Ext[c] = fr.src /\ Port[c] = fr.dport}
    \cup {c \in In : IF fr.kind = "syn" THEN fr.of = c
                     ELSE guest[c].peer = fr.src /\ Port[c] = fr.dport}

Received(g, fr) ==
  CASE fr.kind = "syn" /\ g.st = "idle" -> [g EXCEPT !.st = "asked", !.peer = fr.src]
    [] fr.kind = "synack" /\ g.st = "synsent" -> [g EXCEPT !.st = "open", !.owes = TRUE]
    [] fr.kind = "data" /\ g.st = "open" -> [g EXCEPT !.got = Append(@, fr.n), !.owes = TRUE]
    [] fr.kind = "fin" /\ g.st = "open" -> [g EXCEPT !.eof = TRUE, !.owes = TRUE]
    [] OTHER -> g

GuestTake ==
  /\ rx # <<>> /\ rx' = Tail(rx)
  /\ guest' = [c \in Conns |-> IF c \in Demux(Head(rx)) THEN Received(guest[c], Head(rx)) ELSE guest[c]]
  /\ asked' = [q \in Queries |-> IF Head(rx).kind = "dns" /\ Head(rx).dport = q THEN "answered" ELSE asked[q]]
  /\ UNCHANGED <<active, stack, deferred, tokens, host, faults>>

\* A SYN, sent again for as long as nothing answers it.
GuestDial(c) ==
  /\ c \in active \cap Out /\ guest[c].st \in {"idle", "synsent"}
  /\ Transmit(c, "syn", [guest[c] EXCEPT !.st = "synsent"])

\* The guest takes or refuses a forwarded connection.
GuestAnswer(c) ==
  /\ guest[c].st = "asked"
  /\ \/ Transmit(c, "synack", [guest[c] EXCEPT !.st = "open"])
     \/ Transmit(c, "rst", [guest[c] EXCEPT !.st = "refused"])

GuestAck(c) == guest[c].owes /\ Transmit(c, "ack", [guest[c] EXCEPT !.owes = FALSE])
GuestWrite(c) ==
  /\ guest[c].st = "open" /\ ~guest[c].fin /\ guest[c].sent < GuestUnits[c]
  /\ Transmit(c, "data", [guest[c] EXCEPT !.sent = @ + 1, !.owes = FALSE])
GuestClose(c) ==
  /\ c \in Closers /\ guest[c].st = "open" /\ ~guest[c].fin
  /\ Transmit(c, "fin", [guest[c] EXCEPT !.fin = TRUE, !.owes = FALSE])

-----------------------------------------------------------------------------
Next ==
  \/ PumpRx \/ Refill \/ GuestTake
  \/ \E i \in 1..MAX_FLOWS + Cardinality(In) : Dialled(i) \/ TimeWaitOver(i)
  \/ \E i \in 1..MAX_PENDING_DNS : Resolve(i)
  \/ \E q \in Queries : Ask(q)
  \/ \E c \in Out : GuestDial(c)
  \/ \E c \in In : Accept(c) \/ GuestAnswer(c)
  \/ \E c \in Conns : \/ HostWrite(c) \/ HostClose(c) \/ HostTake(c)
                      \/ GuestAck(c) \/ GuestWrite(c) \/ GuestClose(c)

Spec == Init /\ [][Next]_vars

\* What happens by itself: the run loop of the primary vcpu pumps every device
\* on every turn, time passes, a connect thread has a timeout, the resolver and
\* the peers answer and read, and the guest takes frames, acknowledges them and
\* repeats what nobody answered.  Nobody has to write or close.
Progress ==
  \/ PumpRx \/ Refill \/ GuestTake
  \/ \E i \in 1..MAX_FLOWS + Cardinality(In) : Dialled(i) \/ TimeWaitOver(i)
  \/ \E i \in 1..MAX_PENDING_DNS : Resolve(i)
  \/ \E q \in Queries : asked[q] = "asked" /\ Ask(q)
  \/ \E c \in Conns : \/ guest[c].st = "synsent" /\ GuestDial(c)
                      \/ GuestAnswer(c) \/ GuestAck(c) \/ HostTake(c)

FairSpec == Spec /\ WF_vars(Progress)

-----------------------------------------------------------------------------
\* The types of the state, and the sizes of the buffers.
TypeOK ==
  /\ active \in Scenarios
  /\ \A i \in DOMAIN flows :
       /\ flows[i].c \in Conns /\ flows[i].eph \in 0..EphPorts - 1
       /\ flows[i].link \in {"dialing", "ok", "err", "up"} /\ flows[i].st \in FlowStates
       /\ flows[i].rcv \in 0..GuestUnits[flows[i].c] /\ Len(flows[i].snd) <= TxBuf /\ flows[i].out = <<>>
  /\ \A i \in DOMAIN pending : pending[i].q \in Queries /\ pending[i].st \in {"out", "in", "lost", "err"}
  /\ tokens \in 0..Rate /\ Len(rx) <= Buffers
  /\ \A c \in Conns : /\ host[c].taken <= host[c].got /\ host[c].got <= host[c].taken + HostBuf
                      /\ host[c].read <= host[c].wrote /\ host[c].wrote <= HostUnits[c]

\* The guest makes the host hold no more sockets than the caps, and the host
\* dials no address the egress policy refuses.
Contained ==
  /\ Len(OutFlows(flows)) <= MAX_FLOWS /\ Len(pending) <= MAX_PENDING_DNS
  /\ \A c \in Out : HasFlow(flows, c) \/ host[c] # NoHost =>
       Class[Ext[c]] \in {"public"} \cup (IF AllowPrivate THEN {"private"} ELSE {})

\* What the guest takes for a frame of one of its connections was sent by the
\* socket that stands in for that connection: two connections from one guest
\* port differ in the dialled address only, which no socket of the stack sees
\* and dnat_out restores from the flow table.  The types and caps hold as well.
NatTruthful ==
  /\ TypeOK /\ Contained
  /\ \A i \in DOMAIN rx : \A c \in Demux(rx[i]) : rx[i].of = c

\* The guest reads what the host peer wrote: the units in order, none missing
\* and none twice, and the end of the stream only after the last of them,
\* through socket, frame queue, rate cap and receive buffers.
StreamIntact ==
  \A c \in Conns :
    /\ \A k \in DOMAIN guest[c].got : guest[c].got[k] = k
    /\ guest[c].eof => host[c].eof /\ Len(guest[c].got) = host[c].wrote

\* What the peer reads was written by the guest, and a host stream goes away
\* only once both sides are through, or the guest refused it: a retry of a SYN,
\* a late acknowledgement or a refused dial never tears down a live connection.
NoTeardown ==
  \A c \in Conns :
    /\ host[c].got <= guest[c].sent
    /\ (~host[c].open /\ host[c] # NoHost) => guest[c].st = "refused" \/ (guest[c].eof /\ guest[c].fin)

\* Again and again all that the host peers wrote has been read, their ends have
\* reached the guest, and no frame waits: none in the frame queue, the device's
\* deferred slot or the receive buffers.  (That the frames carried the right
\* bytes is StreamIntact.)  And again and again everything the guest wrote is with
\* the peers that have not closed; what it wrote before a dial was refused is with
\* nobody.
BytesReach ==
  /\ []<>(/\ tx = <<>> /\ deferred = None /\ rx = <<>>
          /\ \A c \in Conns : \/ host[c].read = host[c].wrote /\ host[c].eof = guest[c].eof
                              \/ guest[c].st = "refused")
  /\ []<>(\A c \in Conns : \/ host[c].taken = guest[c].sent \/ host[c].eof
                           \/ host[c] = NoHost /\ ~HasFlow(flows, c))

\* A query is answered in the end, when fewer answers are lost than the table
\* of queries in flight has places.
QueriesAnswered == []<>(\A q \in Queries : asked[q] # "asked")
=============================================================================
