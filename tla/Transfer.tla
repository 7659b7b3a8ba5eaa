------------------------------ MODULE Transfer -------------------------------
(***************************************************************************)
(* Stream data from one endpoint to the other over an unreliable network:  *)
(* the sending half of streams (core/stream.c), connection flow control    *)
(* (core/flow_control.c), the STREAM frames of nxp_conn_send and           *)
(* process_frames (core/connection.c), the tracking of sent and received   *)
(* packets and of loss (core/ack.c), and the receiving half of streams.    *)
(*                                                                         *)
(* A byte is identified by the offset at which the application wrote it,   *)
(* so ring buffer cells and frames carry offsets, and a byte read by the   *)
(* peer is right when it equals its position.  Packet numbers are the      *)
(* indices of pkts, the packets sent so far.  The network may delay,       *)
(* reorder and duplicate packets: any packet ever sent may be delivered at *)
(* any time, and a packet that is never delivered was lost.  The same      *)
(* holds for acknowledgements, which are snapshots of the set of packet    *)
(* numbers received (module AckRanges models their encoding).              *)
(*                                                                         *)
(* Time is abstracted to its effect: a packet is lost by the time          *)
(* threshold no later than any packet sent after it.                       *)
(***************************************************************************)
EXTENDS Naturals, Sequences, FiniteSets

CONSTANTS
  Streams,        \* streams opened by the sender
  Cap,            \* NXP_STREAM_BUF_SIZE, the size of both ring buffers
  MaxStreamData,  \* initial_max_stream_data of both endpoints
  MaxData,        \* peer_max_data of the sender's connection
  Rooms,          \* bytes that may be left for stream data in a packet
  MaxFrames,      \* NXP_MAX_STREAM_FRAMES_PER_PKT
  Thresh,         \* NXP_PACKET_REORDER_THRESH
  NoByte,         \* content of a cell never written
  MaxPkts         \* bound: packets sent

ASSUME SizesAssumption ==
  /\ Cap \in Nat \ {0}
  /\ Rooms \subseteq 0..Cap
  /\ MaxStreamData \in Nat
  /\ MaxData \in Nat
  /\ MaxFrames \in Nat \ {0}
  /\ Thresh \in Nat \ {0}
  /\ MaxPkts \in Nat
ASSUME NoByteAssumption == NoByte \notin Nat

VARIABLES
  \* send half of each stream: nxp_stream_s.send and the scheduler flag
  write_offset, sent_offset, acked_offset, fin, fin_sent, fin_acked,
  sstate, sendbuf, scheduled,
  data_sent,      \* conn_flow.data_sent
  building,       \* frames of the packet nxp_conn_send is building
  pkts,           \* packets sent, indexed by packet number
  tracked,        \* ack.sent: packet numbers neither acked nor declared lost
  loss_timer,     \* ack.loss_time # UINT64_MAX
  send_ping,
  \* receive half of each stream: nxp_stream_s.recv
  read_offset, recv_offset, fin_received, fin_offset, rstate, recvbuf,
  inbox,          \* frames of the received packet not processed yet
  received,       \* packet numbers recorded by nxp_ack_on_pkt_recv
  ack_needed,
  acks,           \* acknowledgements sent
  \* history
  got,            \* offsets stored by nxp_stream_on_recv
  intact          \* every byte the application read was the right one

sendVars == <<write_offset, sent_offset, acked_offset, fin, fin_sent, fin_acked,
              sstate, sendbuf, scheduled>>
pktVars == <<data_sent, building, pkts, tracked, loss_timer, send_ping>>
recvVars == <<read_offset, recv_offset, fin_received, fin_offset, rstate, recvbuf,
              got, intact>>
netVars == <<inbox, received, ack_needed, acks>>
vars == <<sendVars, pktVars, recvVars, netVars>>

Least(a, b) == IF a < b THEN a ELSE b
Largest(S) == CHOOSE x \in S : \A y \in S : y <= x
Smallest(S) == CHOOSE x \in S : \A y \in S : x <= y

-----------------------------------------------------------------------------
(* State *)

Offsets == 0..MaxStreamData
Cells == 0..(Cap - 1)
Frames == [s : Streams, off : Offsets, len : 0..Cap, fin : BOOLEAN,
           data : Seq(Nat \cup {NoByte})]

TypeOK ==
  /\ write_offset \in [Streams -> Offsets]
  /\ sent_offset \in [Streams -> Offsets]
  /\ acked_offset \in [Streams -> Offsets]
  /\ fin \in [Streams -> BOOLEAN]
  /\ fin_sent \in [Streams -> BOOLEAN]
  /\ fin_acked \in [Streams -> BOOLEAN]
  /\ sstate \in [Streams -> {"OPEN", "HALF_CLOSED_LOCAL"}]
  /\ sendbuf \in [Streams -> [Cells -> Nat \cup {NoByte}]]
  /\ scheduled \in [Streams -> BOOLEAN]
  /\ data_sent \in 0..MaxData
  /\ building \in Seq(Frames) /\ Len(building) <= MaxFrames
  /\ pkts \in Seq(Seq(Frames)) /\ Len(pkts) <= MaxPkts
  /\ tracked \in SUBSET (1..Len(pkts))
  /\ loss_timer \in BOOLEAN
  /\ send_ping \in BOOLEAN
  /\ read_offset \in [Streams -> Offsets]
  /\ recv_offset \in [Streams -> Offsets]
  /\ fin_received \in [Streams -> BOOLEAN]
  /\ fin_offset \in [Streams -> Offsets]
  /\ rstate \in [Streams -> {"OPEN", "HALF_CLOSED_REMOTE"}]
  /\ recvbuf \in [Streams -> [Cells -> Nat \cup {NoByte}]]
  /\ inbox \in Seq(Frames)
  /\ received \in SUBSET (1..Len(pkts))
  /\ ack_needed \in BOOLEAN
  /\ acks \in SUBSET SUBSET (1..Len(pkts))
  /\ got \in [Streams -> SUBSET Nat]
  /\ intact \in [Streams -> BOOLEAN]

\* nxp_stream_create on both sides, nxp_ack_init, nxp_flow_init.
Init ==
  /\ write_offset = [s \in Streams |-> 0]
  /\ sent_offset = [s \in Streams |-> 0]
  /\ acked_offset = [s \in Streams |-> 0]
  /\ fin = [s \in Streams |-> FALSE]
  /\ fin_sent = [s \in Streams |-> FALSE]
  /\ fin_acked = [s \in Streams |-> FALSE]
  /\ sstate = [s \in Streams |-> "OPEN"]
  /\ sendbuf = [s \in Streams |-> [c \in Cells |-> NoByte]]
  /\ scheduled = [s \in Streams |-> FALSE]
  /\ data_sent = 0
  /\ building = <<>>
  /\ pkts = <<>>
  /\ tracked = {}
  /\ loss_timer = FALSE
  /\ send_ping = FALSE
  /\ read_offset = [s \in Streams |-> 0]
  /\ recv_offset = [s \in Streams |-> 0]
  /\ fin_received = [s \in Streams |-> FALSE]
  /\ fin_offset = [s \in Streams |-> 0]
  /\ rstate = [s \in Streams |-> "OPEN"]
  /\ recvbuf = [s \in Streams |-> [c \in Cells |-> NoByte]]
  /\ inbox = <<>>
  /\ received = {}
  /\ ack_needed = FALSE
  /\ acks = {}
  /\ got = [s \in Streams |-> {}]
  /\ intact = [s \in Streams |-> TRUE]

\* The ring buffer buf after len bytes are copied to logical position pos,
\* byte i being src[i + 1].
Copied(buf, pos, len, src) ==
  [c \in Cells |->
     IF \E i \in 0..(len - 1) : (pos + i) % Cap = c
     THEN src[1 + CHOOSE i \in 0..(len - 1) : (pos + i) % Cap = c]
     ELSE buf[c]]

-----------------------------------------------------------------------------
(* Sender: application writes *)

\* Faulty variants of Acceptable: the stream window, or the buffer, is ignored.
AcceptableNoWindow(s) == Cap - (write_offset[s] - acked_offset[s])
AcceptableNoBuffer(s) == MaxStreamData - write_offset[s]

\* Bytes nxp_stream_write accepts: limited by the unacknowledged data in the
\* send buffer and by the peer's stream window.
Acceptable(s) ==
  LET buffered == write_offset[s] - acked_offset[s] IN
  Least(IF Cap > buffered THEN Cap - buffered ELSE 0,
        MaxStreamData - write_offset[s])

\* Faulty variant of StreamSend: the stream is not scheduled.
StreamSendUnlinked(s, len, f) ==
  LET n == Least(len, Acceptable(s)) IN
  /\ building = <<>>
  /\ sstate[s] = "OPEN"
  /\ ~fin[s]
  /\ n > 0 \/ f
  /\ sendbuf' = [sendbuf EXCEPT ![s] =
                   Copied(@, write_offset[s], n,
                          [i \in 1..n |-> write_offset[s] + i - 1])]
  /\ write_offset' = [write_offset EXCEPT ![s] = @ + n]
  /\ fin' = [fin EXCEPT ![s] = f]
  /\ UNCHANGED <<sent_offset, acked_offset, fin_sent, fin_acked, sstate, scheduled>>
  /\ UNCHANGED <<pktVars, recvVars, netVars>>

\* nxp_conn_stream_send: write up to len bytes, possibly with FIN.  FIN is
\* queued even when fewer than len bytes are accepted, and the stream is
\* scheduled only if some byte is.
StreamSend(s, len, f) ==
  LET n == Least(len, Acceptable(s)) IN
  /\ building = <<>>
  /\ sstate[s] = "OPEN"
  /\ ~fin[s]
  /\ n > 0 \/ f
  /\ sendbuf' = [sendbuf EXCEPT ![s] =
                   Copied(@, write_offset[s], n,
                          [i \in 1..n |-> write_offset[s] + i - 1])]
  /\ write_offset' = [write_offset EXCEPT ![s] = @ + n]
  /\ fin' = [fin EXCEPT ![s] = f]
  /\ scheduled' = [scheduled EXCEPT ![s] = @ \/ n > 0]
  /\ UNCHANGED <<sent_offset, acked_offset, fin_sent, fin_acked, sstate>>
  /\ UNCHANGED <<pktVars, recvVars, netVars>>

-----------------------------------------------------------------------------
(* Sender: nxp_conn_send *)

Unsent(s) ==
  IF sent_offset[s] >= write_offset[s] THEN 0 ELSE write_offset[s] - sent_offset[s]
HasWork(s) == Unsent(s) > 0 \/ (fin[s] /\ ~fin_sent[s])

\* A frame that ends at end carries the FIN, and what sent_offset becomes.
\* Faulty variant: FIN on whatever frame comes next.
FinDueEarly(s, end) == fin[s] /\ ~fin_sent[s]
FinDue(s, end) == fin[s] /\ ~fin_sent[s] /\ end = write_offset[s]
Advance(s, len) == sent_offset[s] + len

\* An iteration of the STREAM loop for a scheduled stream s that has work and
\* may use room bytes of the packet: nxp_stream_fill_frame, limited by the
\* connection window and by the end of the ring buffer.
FillFrame(s, room) ==
  LET off == sent_offset[s]
      max_data == Least(room, MaxData - data_sent)
      len == Least(Least(Unsent(s), max_data), Cap - (off % Cap))
      f == FinDue(s, off + len)
      frame == [s |-> s, off |-> off, len |-> len, fin |-> f,
                data |-> [i \in 1..len |-> sendbuf[s][(off + i - 1) % Cap]]]
  IN
  /\ Len(pkts) < MaxPkts
  /\ Len(building) < MaxFrames
  /\ scheduled[s]
  /\ HasWork(s)
  /\ Unsent(s) > 0 => data_sent < MaxData
  /\ building' = Append(building, frame)
  /\ sent_offset' = [sent_offset EXCEPT ![s] = Advance(s, len)]
  /\ fin_sent' = [fin_sent EXCEPT ![s] = @ \/ f]
  /\ data_sent' = data_sent + len
  /\ UNCHANGED <<write_offset, acked_offset, fin, fin_acked, sstate, sendbuf, scheduled>>
  /\ UNCHANGED <<pkts, tracked, loss_timer, send_ping, recvVars, netVars>>

\* An iteration that meets a stream without work: nxp_sched_next unlinks it.
Unlink(s) ==
  /\ scheduled[s]
  /\ ~HasWork(s)
  /\ scheduled' = [scheduled EXCEPT ![s] = FALSE]
  /\ UNCHANGED <<write_offset, sent_offset, acked_offset, fin, fin_sent, fin_acked,
                 sstate, sendbuf, pktVars, recvVars, netVars>>

\* The packet is complete: STREAM frames, a PING if one is due, or both.  It
\* is given the next packet number and tracked.
FinishPacket ==
  /\ building # <<>> \/ send_ping
  /\ Len(pkts) < MaxPkts
  /\ pkts' = Append(pkts, building)
  /\ tracked' = tracked \cup {Len(pkts) + 1}
  /\ building' = <<>>
  /\ send_ping' = FALSE
  /\ UNCHANGED <<sendVars, data_sent, loss_timer, recvVars, netVars>>

-----------------------------------------------------------------------------
(* Sender: acknowledgements and loss *)

\* The frames of the packets pns, and those of stream s among them.
FramesIn(pns) == UNION {{pkts[pn][k] : k \in DOMAIN pkts[pn]} : pn \in pns}
FramesOf(pns, s) == {f \in FramesIn(pns) : f.s = s}

\* nxp_ack_on_ack_recv and detect_lost_packets: on_packet_acked for the
\* packets acked, then on_packet_lost for the packets lost, applied to their
\* frames by nxp_stream_on_ack and nxp_stream_on_loss.
AckAndLose(acked, lost) ==
  LET A(s) == FramesOf(acked, s)
      L(s) == FramesOf(lost, s)
  IN
  /\ tracked' = tracked \ (acked \cup lost)
  /\ acked_offset' = [s \in Streams |->
        Largest({acked_offset[s]} \cup {f.off + f.len : f \in A(s)})]
  /\ fin_acked' = [s \in Streams |-> fin_acked[s] \/ \E f \in A(s) : f.fin]
  /\ sstate' = [s \in Streams |->
        IF \E f \in A(s) : f.fin THEN "HALF_CLOSED_LOCAL" ELSE sstate[s]]
  /\ sent_offset' = [s \in Streams |->
        Smallest({sent_offset[s]} \cup {f.off : f \in L(s)})]
  /\ fin_sent' = [s \in Streams |-> fin_sent[s] /\ ~\E f \in L(s) : f.fin]
  /\ scheduled' = [s \in Streams |-> scheduled[s] \/ L(s) # {}]
  /\ UNCHANGED <<write_offset, fin, sendbuf>>

\* Packets of pns at or below cut: the time threshold has passed for a prefix
\* of the packets, and the reordering threshold applies to a prefix too.
UpTo(pns, cut) == {pn \in pns : pn <= cut}

\* An ACK frame arrives.  cut is the last packet lost: by reordering it is at
\* least largest - Thresh, by time it is at most largest.  The loss timer is
\* set when packets older than the largest acknowledged remain.
RecvAck(ack, cut) ==
  LET largest == Largest(ack)
      rest == tracked \ ack
  IN
  /\ building = <<>>
  /\ cut <= largest /\ largest <= cut + Thresh
  /\ AckAndLose(tracked \cap ack, UpTo(rest, cut))
  /\ loss_timer' = (UpTo(rest, largest) \ UpTo(rest, cut) # {})
  /\ UNCHANGED <<data_sent, building, pkts, send_ping, recvVars, netVars>>

\* nxp_ack_on_loss_timeout when the loss time has come: the time threshold
\* has passed for the oldest tracked packet at least.  The code takes the
\* largest packet it still tracks for the largest acknowledged one.
LossTimeout(cut) ==
  LET largest == Largest(tracked) IN
  /\ building = <<>>
  /\ loss_timer
  /\ tracked # {}
  /\ Smallest(tracked) <= cut
  /\ cut <= largest /\ largest <= cut + Thresh
  /\ AckAndLose({}, UpTo(tracked, cut))
  /\ loss_timer' = (tracked # UpTo(tracked, cut))
  /\ UNCHANGED <<data_sent, building, pkts, send_ping, recvVars, netVars>>

\* Faulty variant of ProbeTimeout: the PING is forgotten.
ProbeTimeoutSilent ==
  /\ building = <<>>
  /\ ~loss_timer
  /\ tracked # {}
  /\ UNCHANGED <<vars>>

\* The probe timeout: a PING is sent in the next packet.
ProbeTimeout ==
  /\ building = <<>>
  /\ ~loss_timer
  /\ tracked # {}
  /\ send_ping' = TRUE
  /\ UNCHANGED <<sendVars, data_sent, building, pkts, tracked, loss_timer>>
  /\ UNCHANGED <<recvVars, netVars>>

-----------------------------------------------------------------------------
(* Receiver *)

\* nxp_conn_recv: the packet number is recorded, then the frames processed,
\* again if the packet was received before.
RecvPacket(pn) ==
  /\ inbox = <<>>
  /\ inbox' = pkts[pn]
  /\ received' = received \cup {pn}
  /\ ack_needed' = (ack_needed \/ pn \notin received)
  /\ UNCHANGED <<sendVars, pktVars, recvVars, acks>>

\* nxp_stream_on_recv accepts the frame.
Accepts(f) == rstate[f.s] = "OPEN" /\ f.off + f.len <= MaxStreamData

\* Bytes of the frame that the application has read already.  Faulty variant:
\* they are stored again.
SkipNone(f) == 0
Skip(f) == IF f.off < read_offset[f.s] THEN read_offset[f.s] - f.off ELSE 0

\* The STREAM case of process_frames: store the bytes not yet read, move
\* recv_offset, note the FIN.
ProcessFrame ==
  LET f == Head(inbox)
      s == f.s
      end == f.off + f.len
      skip == Skip(f)
      store == f.len > 0 /\ end > read_offset[s]
  IN
  /\ inbox # <<>>
  /\ Accepts(f)
  /\ inbox' = Tail(inbox)
  /\ recvbuf' = IF store
                THEN [recvbuf EXCEPT ![s] =
                        Copied(@, f.off + skip, f.len - skip,
                               [i \in 1..(f.len - skip) |-> f.data[i + skip]])]
                ELSE recvbuf
  /\ recv_offset' = [recv_offset EXCEPT ![s] = IF store /\ end > @ THEN end ELSE @]
  /\ fin_received' = [fin_received EXCEPT ![s] = @ \/ f.fin]
  /\ fin_offset' = [fin_offset EXCEPT ![s] = IF f.fin THEN end ELSE @]
  /\ rstate' = [rstate EXCEPT ![s] = IF f.fin THEN "HALF_CLOSED_REMOTE" ELSE @]
  /\ got' = [got EXCEPT ![s] = @ \cup {f.off + i : i \in 0..(f.len - 1)}]
  /\ UNCHANGED <<read_offset, intact, sendVars, pktVars, received, ack_needed, acks>>

\* nxp_stream_on_recv returns an error: process_frames returns it, and the
\* rest of the packet is not processed.
RejectFrame ==
  /\ inbox # <<>>
  /\ ~Accepts(Head(inbox))
  /\ inbox' = <<>>
  /\ UNCHANGED <<sendVars, pktVars, recvVars, received, ack_needed, acks>>

\* Faulty variant of SendAck: a packet is acknowledged before its frames are
\* processed.
SendAckEarly ==
  /\ ack_needed
  /\ ack_needed' = FALSE
  /\ acks' = acks \cup {received}
  /\ UNCHANGED <<sendVars, pktVars, recvVars, inbox, received>>

\* nxp_conn_send at the receiver puts an ACK frame into its next packet.
SendAck ==
  /\ inbox = <<>>
  /\ ack_needed
  /\ ack_needed' = FALSE
  /\ acks' = acks \cup {received}
  /\ UNCHANGED <<sendVars, pktVars, recvVars, inbox, received>>

\* nxp_conn_stream_recv: the application reads up to len bytes.
StreamRecv(s, len) ==
  LET n == Least(len, recv_offset[s] - read_offset[s]) IN
  /\ inbox = <<>>
  /\ n > 0
  /\ read_offset' = [read_offset EXCEPT ![s] = @ + n]
  /\ intact' = [intact EXCEPT ![s] = @ /\
        \A i \in 0..(n - 1) :
           recvbuf[s][(read_offset[s] + i) % Cap] = read_offset[s] + i]
  /\ UNCHANGED <<recv_offset, fin_received, fin_offset, rstate, recvbuf, got>>
  /\ UNCHANGED <<sendVars, pktVars, netVars>>

-----------------------------------------------------------------------------

Next ==
  \/ \E s \in Streams :
        \/ \E len \in 0..Cap, f \in BOOLEAN : StreamSend(s, len, f)
        \/ \E room \in Rooms : FillFrame(s, room)
        \/ Unlink(s)
        \/ \E len \in 1..Cap : StreamRecv(s, len)
  \/ FinishPacket
  \/ \E ack \in acks, cut \in 0..MaxPkts : RecvAck(ack, cut)
  \/ \E cut \in 0..MaxPkts : LossTimeout(cut)
  \/ ProbeTimeout
  \/ \E pn \in 1..Len(pkts) : RecvPacket(pn)
  \/ ProcessFrame
  \/ RejectFrame
  \/ SendAck

Spec == Init /\ [][Next]_vars

-----------------------------------------------------------------------------
(* Properties *)

AllFrames == FramesIn(DOMAIN pkts) \cup {building[k] : k \in DOMAIN building}

\* The send window: whatever is acknowledged or declared lost, in any order,
\* the three offsets of the send buffer never pass what the application wrote,
\* and no more than the buffer holds is unacknowledged, so that "buffered" and
\* "avail" in nxp_stream_write never wrap around.
SendWindow ==
  \A s \in Streams : /\ acked_offset[s] <= write_offset[s]
                      /\ sent_offset[s] <= write_offset[s]
                      /\ write_offset[s] - acked_offset[s] <= Cap

\* The final size of a stream is unique: every frame with FIN, including each
\* retransmission, ends where the application stopped writing, no frame goes
\* beyond it, and the receiver's fin_offset and recv_offset agree with it.
FinalSize ==
  /\ \A f \in AllFrames :
        /\ f.off + f.len <= write_offset[f.s]
        /\ f.fin => fin[f.s] /\ f.off + f.len = write_offset[f.s]
  /\ \A s \in Streams :
        /\ recv_offset[s] <= write_offset[s]
        /\ fin_received[s] => fin[s] /\ fin_offset[s] = write_offset[s]

\* A correct sender never makes nxp_stream_on_recv fail with
\* NXP_ERR_FLOW_CONTROL: a frame is rejected only because its stream is closed.
FlowRespected ==
  inbox # <<>> => Head(inbox).off + Head(inbox).len <= MaxStreamData

\* "Contiguous received up to here" (connection_internal.h:155): every byte
\* below recv_offset has been received.
RecvContiguous ==
  \A s \in Streams : 0..(recv_offset[s] - 1) \subseteq got[s]

\* A frame in flight or being built carries the bytes that were written at
\* its offset: the cells of the send buffer "can be reclaimed" (stream.c:125)
\* only when they are no longer needed.
FrameIntegrity ==
  \A f \in AllFrames : \A i \in 1..f.len : f.data[i] = f.off + i - 1

\* "Ordered, reliable (like TCP)" (nxp_types.h:48): the bytes the application
\* reads are the bytes written, in order.
ReadsAreIntact == \A s \in Streams : intact[s]

\* A packet that is acknowledged has been processed to its end: each of its
\* frames was given to its stream.  "Reliable" (nxp_types.h:48) rests on it,
\* because the sender forgets an acknowledged packet.  So every byte below
\* acked_offset, "contiguous acked up to here" (connection_internal.h:144), has
\* been received.
AckedIsProcessed ==
  /\ \A s \in Streams : 0..(acked_offset[s] - 1) \subseteq got[s]
  /\ \A ack \in acks : \A pn \in ack : \A k \in DOMAIN pkts[pn] :
       LET f == pkts[pn][k] IN
       /\ {f.off + i : i \in 0..(f.len - 1)} \subseteq got[f.s]
       /\ f.fin => fin_received[f.s]
=============================================================================
