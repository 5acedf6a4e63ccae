-------------------------------- MODULE Vsock --------------------------------
(***************************************************************************)
(* One stream connection of the virtio-vsock device (vsock.rs), from either *)
(* end's dial to its removal: the device's Conn, the packets queued for the *)
(* guest, the guest driver and the host peer on its Unix socket.           *)
(*                                                                         *)
(* Connections share nothing but the rx queue.  Payload is counted in      *)
(* bytes, and the credit counters wrap as the code's u32 do.  The guest     *)
(* posts one receive buffer at a time, so that a call of pump_rx takes one  *)
(* packet, and it takes transmit packets one by one.                       *)
(***************************************************************************)
EXTENDS Naturals, Sequences

CONSTANTS
  Wrap,        \* the counters wrap at this value, 2^32 in the code
  BUF_ALLOC,   \* the window the device advertises
  GuestBuf,    \* the window the guest advertises
  MaxPayload,  \* payload that fits the guest's receive buffer
  GuestBytes,  \* bound: bytes the guest sends
  HostBytes,   \* bound: bytes the host peer sends
  MaxTx,       \* bound: packets in the guest's transmit queue
  MaxAsks,     \* bound: credit requests of the guest
  Nothing      \* no packet

ASSUME VsockAssumption ==
  /\ {Wrap, BUF_ALLOC, GuestBuf, MaxPayload, GuestBytes, HostBytes, MaxTx,
      MaxAsks} \subseteq Nat \ {0}
  /\ BUF_ALLOC < Wrap /\ GuestBuf < Wrap

\* The packets for the guest, and the guest's.
Packets(ops, top) == [op : ops, len : 0..top, fwd : 0..(Wrap - 1)]
ToGuest == Packets({"REQUEST", "RESPONSE", "RST", "SHUTDOWN", "RW", "CREDIT_UPDATE"},
                   MaxPayload)
FromGuest == Packets({"REQUEST", "RESPONSE", "SHUTDOWN", "RW", "CREDIT_UPDATE",
                      "CREDIT_REQUEST"}, BUF_ALLOC)

\* Nothing is no packet.
ASSUME NothingAssumption == Nothing \notin ToGuest

VARIABLES
  up, host_done, to_host,             \* the Conn's fields
  fwd_cnt, tx_cnt, peer_fwd_cnt, peer_buf_alloc,
  conn,     \* whether the device has the Conn
  rx,       \* packets queued for the guest
  inbox,    \* the packet in the guest's receive buffer
  txq,      \* packets the guest sent that the device has not taken
  gst,      \* the guest's socket: idle, dialing, open, closed, ended by the peer
  grecv,    \* payload the guest driver holds for the application
  gfwd,     \* the guest's own fwd_cnt
  gtx,      \* the guest's own tx_cnt
  gpeer,    \* the fwd_cnt of the device the guest saw last
  gleft,    \* bytes the guest application has yet to send
  gasks,    \* credit requests the guest may still make
  waiting,  \* whether the host peer is queued for accept
  hst,      \* the host peer's socket: idle, open, closed
  hbuf,     \* bytes the host peer wrote that the device has not read
  hleft     \* bytes the host peer has yet to write

connVars == <<conn, up, host_done, to_host, fwd_cnt, tx_cnt, peer_fwd_cnt,
              peer_buf_alloc>>
guestVars == <<inbox, gst, grecv, gfwd, gtx, gpeer, gleft, gasks>>
hostVars == <<waiting, hst, hbuf, hleft>>
vars == <<connVars, rx, txq, guestVars, hostVars>>

Init ==
  /\ conn = FALSE /\ up = FALSE /\ host_done = FALSE /\ to_host = 0
  /\ fwd_cnt = 0 /\ tx_cnt = 0 /\ peer_fwd_cnt = 0 /\ peer_buf_alloc = 0
  /\ rx = <<>> /\ inbox = Nothing /\ txq = <<>>
  /\ gst = "idle" /\ grecv = 0 /\ gfwd = 0 /\ gtx = 0 /\ gpeer = 0
  /\ gleft = GuestBytes /\ gasks = MaxAsks
  /\ waiting = FALSE /\ hst = "idle" /\ hbuf = 0 /\ hleft = HostBytes

\* wrapping_add and wrapping_sub, for an n of at most Wrap.
WrappingAdd(a, n) == IF a + n < Wrap THEN a + n ELSE (a + n) - Wrap
WrappingSub(a, b) == IF a >= b THEN a - b ELSE (a + Wrap) - b
Least(a, b) == IF a <= b THEN a ELSE b

Packet(op, len, fwd) == [op |-> op, len |-> len, fwd |-> fwd]

\* VsockDevice::send.
Send(op, fwd) == rx' = Append(rx, Packet(op, 0, fwd))

-----------------------------------------------------------------------------
(***************************************************************************)
(* on_guest_packet: the device takes the next packet of the transmit queue. *)
(***************************************************************************)

Taking(op) == txq # <<>> /\ Head(txq).op = op /\ txq' = Tail(txq)

\* Any packet of a known connection refreshes the peer's window.
Refresh ==
  /\ peer_fwd_cnt' = IF conn THEN Head(txq).fwd ELSE peer_fwd_cnt
  /\ peer_buf_alloc' = IF conn THEN GuestBuf ELSE peer_buf_alloc

\* The guest dials and the backend's dial succeeds.
OnRequest ==
  /\ Taking("REQUEST")
  /\ conn' = TRUE /\ up' = TRUE /\ host_done' = FALSE /\ to_host' = 0
  /\ fwd_cnt' = 0 /\ tx_cnt' = 0
  /\ peer_fwd_cnt' = Head(txq).fwd /\ peer_buf_alloc' = GuestBuf
  /\ Send("RESPONSE", 0)
  /\ hst' = "open"
  /\ UNCHANGED <<guestVars, waiting, hbuf, hleft>>

\* ... or nobody listens.
OnRequestRefused ==
  /\ Taking("REQUEST")
  /\ Send("RST", 0)
  /\ UNCHANGED <<connVars, guestVars, hostVars>>

OnResponse ==
  /\ Taking("RESPONSE")
  /\ Refresh
  /\ up' = (conn \/ up)
  /\ UNCHANGED <<conn, host_done, to_host, fwd_cnt, tx_cnt, rx, guestVars, hostVars>>

\* Mutant: the last byte of the window is refused.
OnRwShort ==
  /\ Taking("RW")
  /\ Refresh
  /\ IF ~conn THEN UNCHANGED <<up, host_done, to_host, rx>>
     ELSE IF to_host + Head(txq).len >= BUF_ALLOC
     THEN up' = FALSE /\ host_done' = TRUE /\ Send("RST", 0) /\ UNCHANGED to_host
     ELSE to_host' = to_host + Head(txq).len /\ UNCHANGED <<up, host_done, rx>>
  /\ UNCHANGED <<conn, fwd_cnt, tx_cnt, guestVars, hostVars>>

\* Payload is kept for the host, or the connection reset if it overruns.
OnRw ==
  /\ Taking("RW")
  /\ Refresh
  /\ IF ~conn THEN UNCHANGED <<up, host_done, to_host, rx>>
     ELSE IF to_host + Head(txq).len > BUF_ALLOC
     THEN up' = FALSE /\ host_done' = TRUE /\ Send("RST", 0) /\ UNCHANGED to_host
     ELSE to_host' = to_host + Head(txq).len /\ UNCHANGED <<up, host_done, rx>>
  /\ UNCHANGED <<conn, fwd_cnt, tx_cnt, guestVars, hostVars>>

OnCreditRequest ==
  /\ Taking("CREDIT_REQUEST")
  /\ Refresh
  /\ Send("CREDIT_UPDATE", IF conn THEN fwd_cnt ELSE 0)
  /\ UNCHANGED <<conn, up, host_done, to_host, fwd_cnt, tx_cnt, guestVars, hostVars>>

OnCreditUpdate ==
  /\ Taking("CREDIT_UPDATE")
  /\ Refresh
  /\ UNCHANGED <<conn, up, host_done, to_host, fwd_cnt, tx_cnt, rx, guestVars, hostVars>>

\* SHUTDOWN or RST: the Conn goes once what it holds is flushed.
OnShutdown ==
  /\ Taking("SHUTDOWN")
  /\ Refresh
  /\ host_done' = (conn \/ host_done)
  /\ up' = (up /\ ~conn)
  /\ UNCHANGED <<conn, to_host, fwd_cnt, tx_cnt, rx, guestVars, hostVars>>

-----------------------------------------------------------------------------
(***************************************************************************)
(* poll_rx: the next packet for a posted receive buffer.                   *)
(***************************************************************************)

\* The buffer gets the first packet of q, the others stay queued.
Deliver(q) ==
  IF q = <<>> THEN rx' = q /\ UNCHANGED inbox
              ELSE rx' = Tail(q) /\ inbox' = Head(q)

PollRx ==
  /\ inbox = Nothing /\ rx # <<>>
  /\ Deliver(rx)
  /\ UNCHANGED <<connVars, txq, gst, grecv, gfwd, gtx, gpeer, gleft, gasks, hostVars>>

\* pump, with a host peer waiting to be accepted: a REQUEST to the guest.
PumpAccept ==
  /\ inbox = Nothing /\ rx = <<>>
  /\ waiting /\ waiting' = FALSE
  /\ conn' = TRUE /\ up' = FALSE /\ host_done' = FALSE /\ to_host' = 0
  /\ fwd_cnt' = 0 /\ tx_cnt' = 0 /\ peer_fwd_cnt' = 0 /\ peer_buf_alloc' = 0
  /\ Deliver(<<Packet("REQUEST", 0, 0)>>)
  /\ UNCHANGED <<txq, gst, grecv, gfwd, gtx, gpeer, gleft, gasks, hst, hbuf, hleft>>

\* Conn::guest_window: what may still be sent under the guest's credit.
GuestWindow ==
  LET inflight == WrappingSub(tx_cnt, peer_fwd_cnt)
  IN  IF inflight <= peer_buf_alloc THEN peer_buf_alloc - inflight ELSE 0

\* The bytes of to_host that the stream takes: the host peer's socket has room
\* for w of them, and for none once the peer has closed.
Drained(w) == IF hst = "open" THEN w ELSE 0

\* Mutant: draining is not told to the guest.
CreditUpdateNever(w, fwd) == <<>>

\* Draining is told to the guest while the connection is up.
CreditUpdate(w, fwd) ==
  IF up /\ Drained(w) > 0 THEN <<Packet("CREDIT_UPDATE", 0, fwd)>> ELSE <<>>

\* What is read from the stream: all there is, under the window.
Taken == IF up THEN Least(GuestWindow, hbuf) ELSE 0

\* ... in packets that each fit the receive buffer.
DataPackets(fwd) ==
  [i \in 1..((Taken + (MaxPayload - 1)) \div MaxPayload) |->
     Packet("RW", Least(MaxPayload, Taken - ((i - 1) * MaxPayload)), fwd)]

\* Mutant: an empty window is taken for the end of the stream.
StreamEndedEarly == up /\ hst = "closed" /\ Taken <= GuestWindow

\* The read after the last byte finds the stream closed.  It is not made when
\* the window is used up.
StreamEnded == up /\ hst = "closed" /\ Taken < GuestWindow

\* Writing to a closed stream fails.
WriteFailed == hst = "closed" /\ to_host > 0

\* Reap a Conn that is done and flushed, and tell the guest.
Pump(w) ==
  /\ inbox = Nothing /\ rx = <<>>
  /\ conn
  /\ w <= to_host
  /\ LET fwd == WrappingAdd(fwd_cnt, Drained(w))
         done == host_done \/ WriteFailed \/ StreamEnded
         dead == done /\ to_host - Drained(w) = 0
     IN  /\ to_host' = to_host - Drained(w)
         /\ fwd_cnt' = fwd
         /\ tx_cnt' = WrappingAdd(tx_cnt, Taken)
         /\ hbuf' = hbuf - Taken
         /\ host_done' = done
         /\ conn' = ~dead
         /\ hst' = IF dead THEN "closed" ELSE hst
         /\ Deliver(CreditUpdate(w, fwd) \o DataPackets(fwd)
                    \o IF dead THEN <<Packet("SHUTDOWN", 0, fwd)>> ELSE <<>>)
  /\ UNCHANGED <<up, peer_fwd_cnt, peer_buf_alloc, txq, gst, grecv, gfwd, gtx,
                 gpeer, gleft, gasks, waiting, hleft>>

-----------------------------------------------------------------------------
(***************************************************************************)
(* The guest driver and its application.                                   *)
(***************************************************************************)

\* Every packet of the guest carries its fwd_cnt.
GuestSends(op, len, fwd) == txq' = Append(txq, Packet(op, len, fwd))
TxRoom == Len(txq) < MaxTx

GuestDial ==
  /\ gst = "idle" /\ hst = "idle" /\ TxRoom
  /\ gst' = "dialing"
  /\ GuestSends("REQUEST", 0, gfwd)
  /\ UNCHANGED <<connVars, rx, inbox, grecv, gfwd, gtx, gpeer, gleft, gasks, hostVars>>

\* The driver takes the packet out of its receive buffer and posts it again.
GuestReceive ==
  /\ inbox # Nothing
  /\ inbox.op = "REQUEST" => TxRoom
  /\ inbox' = Nothing
  /\ gpeer' = inbox.fwd
  /\ gst' = CASE inbox.op = "RESPONSE" /\ gst = "dialing" -> "open"
              [] inbox.op = "REQUEST" /\ gst = "idle" -> "open"
              [] inbox.op \in {"SHUTDOWN", "RST"} /\ gst # "closed" -> "ended"
              [] OTHER -> gst
  /\ grecv' = IF gst = "open" THEN grecv + inbox.len ELSE grecv
  /\ IF inbox.op = "REQUEST" THEN GuestSends("RESPONSE", 0, gfwd) ELSE UNCHANGED txq
  /\ UNCHANGED <<connVars, rx, gfwd, gtx, gleft, gasks, hostVars>>

\* The application reads, and the driver advertises the room.
GuestRead ==
  /\ gst = "open" /\ grecv > 0 /\ TxRoom
  /\ grecv' = 0
  /\ gfwd' = WrappingAdd(gfwd, grecv)
  /\ GuestSends("CREDIT_UPDATE", 0, WrappingAdd(gfwd, grecv))
  /\ UNCHANGED <<connVars, rx, inbox, gst, gtx, gpeer, gleft, gasks, hostVars>>

\* What the guest may still send under the credit it has seen.
GuestCredit == BUF_ALLOC - WrappingSub(gtx, gpeer)

GuestSend(n) ==
  /\ gst = "open" /\ TxRoom
  /\ n <= gleft /\ n <= GuestCredit
  /\ gtx' = WrappingAdd(gtx, n)
  /\ gleft' = gleft - n
  /\ GuestSends("RW", n, gfwd)
  /\ UNCHANGED <<connVars, rx, inbox, gst, grecv, gfwd, gpeer, gasks, hostVars>>

\* Out of credit, the guest may ask for an update.
GuestAsks ==
  /\ gst = "open" /\ txq = <<>> /\ gleft > 0 /\ GuestCredit = 0
  /\ gasks > 0 /\ gasks' = gasks - 1
  /\ GuestSends("CREDIT_REQUEST", 0, gfwd)
  /\ UNCHANGED <<connVars, rx, inbox, gst, grecv, gfwd, gtx, gpeer, gleft, hostVars>>

GuestClose ==
  /\ gst = "open" /\ TxRoom
  /\ gst' = "closed"
  /\ GuestSends("SHUTDOWN", 0, gfwd)
  /\ UNCHANGED <<connVars, rx, inbox, grecv, gfwd, gtx, gpeer, gleft, gasks, hostVars>>

-----------------------------------------------------------------------------
(***************************************************************************)
(* The host peer.                                                          *)
(***************************************************************************)

\* Connect the base socket and send CONNECT: queued for the device.
HostDial ==
  /\ hst = "idle" /\ gst = "idle"
  /\ hst' = "open" /\ waiting' = TRUE
  /\ UNCHANGED <<connVars, rx, txq, guestVars, hbuf, hleft>>

HostWrite ==
  /\ hst = "open" /\ hleft > 0
  /\ hbuf' = hbuf + 1
  /\ hleft' = hleft - 1
  /\ UNCHANGED <<connVars, rx, txq, guestVars, waiting, hst>>

HostClose ==
  /\ hst = "open"
  /\ hst' = "closed"
  /\ UNCHANGED <<connVars, rx, txq, guestVars, waiting, hbuf, hleft>>

-----------------------------------------------------------------------------
HandleTx ==
  \/ OnRequest \/ OnRequestRefused \/ OnResponse \/ OnRw
  \/ OnCreditRequest \/ OnCreditUpdate \/ OnShutdown

PumpRx == PollRx \/ PumpAccept \/ \E w \in 0..BUF_ALLOC : Pump(w)

Guest ==
  \/ GuestDial \/ GuestReceive \/ GuestRead \/ GuestAsks \/ GuestClose
  \/ \E n \in 1..BUF_ALLOC : GuestSend(n)

Host == HostDial \/ HostWrite \/ HostClose

Next == HandleTx \/ PumpRx \/ Guest \/ Host

Spec == Init /\ [][Next]_vars

\* The run loop goes on servicing the queues; the guest takes its packets and
\* reads and writes as credit allows; the host peer goes on reading.
Fairness ==
  /\ WF_vars(HandleTx) /\ WF_vars(PumpRx)
  /\ WF_vars(GuestReceive) /\ SF_vars(GuestRead)
  /\ SF_vars(\E n \in 1..BUF_ALLOC : GuestSend(n))
  /\ SF_vars(\E w \in 1..BUF_ALLOC : Pump(w))

FairSpec == Spec /\ Fairness

-----------------------------------------------------------------------------
(***************************************************************************)
(* Properties.                                                             *)
(***************************************************************************)

\* Every variable has its type.
TypeOK ==
  /\ {conn, up, host_done, waiting} \subseteq BOOLEAN
  /\ to_host \in 0..BUF_ALLOC
  /\ {fwd_cnt, tx_cnt, peer_fwd_cnt, gfwd, gtx, gpeer} \subseteq 0..(Wrap - 1)
  /\ peer_buf_alloc \in {0, GuestBuf}
  /\ rx \in Seq(ToGuest) /\ inbox \in ToGuest \cup {Nothing}
  /\ txq \in Seq(FromGuest)
  /\ gst \in {"idle", "dialing", "open", "closed", "ended"}
  /\ grecv \in Nat /\ gleft \in 0..GuestBytes /\ gasks \in 0..MaxAsks
  /\ hst \in {"idle", "open", "closed"}
  /\ hbuf \in 0..HostBytes /\ hleft \in 0..HostBytes

\* Flow control (guest_window, on_rw): the device never has the guest hold more
\* than the window it advertised; and a guest that keeps within the credit it was
\* given never makes to_host overrun, and is never reset for it.
CreditRespected ==
  /\ TypeOK
  /\ grecv <= GuestBuf
  /\ conn => \A i \in 1..Len(rx) : rx[i].op # "RST"

\* The guest is told that the stream ended after all the host peer wrote.
HostBytesDelivered == gst = "ended" => hbuf = 0

\* What the guest has to send gets to a host peer that stays, and what the host
\* peer wrote gets to a guest that stays, even if the peer left.
BytesFlow ==
  /\ gst = "open" ~> \/ gleft = 0 /\ to_host = 0
                     \/ gst # "open" \/ hst = "closed"
  /\ (gst = "open" /\ hbuf > 0) ~> (gst # "open" \/ hbuf = 0)

\* A connection whose host peer left is dropped.
HostGoneDropped == (conn /\ hst = "closed") ~> ~conn
=============================================================================
