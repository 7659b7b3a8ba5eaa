----------------------------- MODULE MCTransfer ------------------------------
(***************************************************************************)
(* Model checking of stream transfer, over the unreliable network of       *)
(* Transfer and over a gentler one that loses some packets and duplicates  *)
(* and delays others, but never lets a byte overtake an earlier byte of    *)
(* its stream.                                                             *)
(***************************************************************************)
EXTENDS Transfer, TLC

CONSTANT Lost   \* numbers of the packets that the gentle network loses

Sym == Permutations(Streams)

\* A frame leaves no hole behind it, and the receive buffer has room for it.
Fits(f) ==
  /\ f.off <= recv_offset[f.s]
  /\ f.off + f.len <= read_offset[f.s] + Cap

Deliverable(pn) ==
  pn \notin Lost /\ \A k \in DOMAIN pkts[pn] : Fits(pkts[pn][k])

\* Nothing is on its way: the probe timer is longer than a round trip.
Settled ==
  /\ inbox = <<>>
  /\ ~ack_needed
  /\ \A pn \in 1..Len(pkts) : Deliverable(pn) => pn \in received
  /\ tracked \cap UNION acks = {}

\* What the gentle network and the probe timer allow a step to do.
Gentle ==
  /\ received' \cap Lost = {}
  /\ inbox = <<>> => \A k \in DOMAIN inbox' : Fits(inbox'[k])
  /\ send_ping' => send_ping \/ Settled

\* The event loop keeps calling nxp_conn_send and nxp_conn_recv at both ends
\* and their timers, the network delivers each packet that it does not lose,
\* and the receiving application keeps reading.
GentleSpec ==
  /\ Init /\ [][Next /\ Gentle]_vars
  /\ \A s \in Streams : /\ WF_vars(\E room \in Rooms : FillFrame(s, room))
                        /\ SF_vars(StreamRecv(s, Cap))
  /\ WF_vars(FinishPacket)
  /\ SF_vars(\E pn \in (1..Len(pkts)) \ received : RecvPacket(pn) /\ Gentle)
  /\ WF_vars(ProcessFrame \/ RejectFrame)
  /\ SF_vars(SendAck)
  /\ WF_vars(\E ack \in acks, cut \in 0..MaxPkts : RecvAck(ack, cut))
  /\ SF_vars(\E cut \in 0..MaxPkts : LossTimeout(cut))
  /\ SF_vars(ProbeTimeout /\ Gentle)

\* The bound on packets is reached: what happens next is not modelled.
OutOfPackets == Len(pkts) = MaxPkts

\* Over such a network every byte nxp_stream_write accepts is eventually read
\* by the peer's application, lost packets notwithstanding.
WrittenIsRead ==
  \A s \in Streams :
     read_offset[s] < write_offset[s] ~> read_offset[s] = write_offset[s] \/ OutOfPackets

\* No packet stays in nxp_ack_state.sent for ever: each is acknowledged or
\* declared lost, and the list becomes empty.
FlightDrains == tracked # {} ~> tracked = {} \/ OutOfPackets
=============================================================================
