-------------------------------- MODULE Wire --------------------------------
(* The formats of the wire, each with its own endpoints: packet numbers
   (PacketNumber), the ACK ranges (AckRanges), datagrams of header and frames
   (Datagram over Frame and Varint), messages over TCP and WebSocket (Framing).
   The parts share no state; a behaviour exercises one of them.              *)
EXTENDS PacketNumber, Sequences

CONSTANTS MaxRanges, AckMaxRanges, MaxInFlight, MaxAckPn,
  W, TokenLen, PathLen, MaxCidLen, MaxRangesInFrame, Room, MaxFrames,
  B, LenBits, AppCap, MaxSends

VARIABLES part,
  recv_ranges, ack_largest, ack_needed, received, in_flight, acked,
  room, hdr, sent, bytes, stage, got, todo, cut,
  t_sent, t_torn, t_wire, t_buf, t_got,
  w_state, w_sent, w_wire, w_buf, w_got, w_dropped, w_said, w_torn, w_out,
  probe

ack_vars == <<recv_ranges, ack_largest, ack_needed, received, in_flight, acked>>
dgram_vars == <<room, hdr, sent, bytes, stage, got, todo, cut>>
tcp_vars == <<t_sent, t_torn, t_wire, t_buf, t_got>>
ws_vars == <<w_state, w_sent, w_wire, w_buf, w_got, w_dropped, w_said, w_torn, w_out>>

-----------------------------------------------------------------------------
(* Samples: lengths and numbers on both sides of every boundary.              *)

Pairs == {<<0, 64>>, <<16384, 63>>}
Data == {<<>>, <<0, 255>>}
Text(n) == [i \in 1..n |-> i % B]
Path == [i \in 1..PathLen |-> 9 - i]
Tok == [i \in 1..TokenLen |-> i]

Payloads ==
  {[type |-> 0, count |-> 3]} \cup {[type |-> t] : t \in {1, 30}}
  \cup {[type |-> 2, largest_acked |-> 70, ack_delay |-> 64, first_ack_range |-> 0, has_ecn |-> FALSE, ranges |-> r] :
          r \in {<<>>, <<<<1, 2>>, <<64, 0>>>>}}
  \cup {[type |-> 3, largest_acked |-> 70, ack_delay |-> 1, first_ack_range |-> 5, has_ecn |-> TRUE,
         ranges |-> <<<<2, 3>>>>, ecn |-> <<0, 64, 1>>]}
  \cup {[type |-> 4, stream_id |-> p[1], error_code |-> p[2], final_size |-> 64] : p \in Pairs}
  \cup {[type |-> 5, stream_id |-> p[1], error_code |-> p[2]] : p \in Pairs}
  \cup {[type |-> 6, offset |-> 64, data |-> d] : d \in Data}
  \cup {[type |-> t, data |-> <<0, 255>>] : t \in {7, 34}}
  \cup {[type |-> 8, has_offset |-> o # 0, offset |-> o, stream_id |-> 64, fin |-> b, data |-> d] :
          o \in {0, 64}, b \in BOOLEAN, d \in Data}
  \cup {[type |-> t, max_data |-> 16384] : t \in {16, 20}}
  \cup {[type |-> t, stream_id |-> 0, max_stream_data |-> 64] : t \in {17, 21}}
  \cup {[type |-> t, max_streams |-> 64, is_bidi |-> t \in {18, 22}] : t \in {18, 19, 22, 23}}
  \cup {[type |-> 24, seq_num |-> 1, retire_prior_to |-> 64, cid |-> c, token |-> Tok] : c \in {<<>>, <<5>>, Text(MaxCidLen + 1)}}
  \cup {[type |-> 25, seq_num |-> 63]}
  \cup {[type |-> t, data |-> Path] : t \in {26, 27}}
  \cup {[type |-> 28, is_app |-> FALSE, error_code |-> 64, frame_type |-> 2, data |-> d] : d \in Data}
  \cup {[type |-> 29, is_app |-> TRUE, error_code |-> 64, data |-> <<8>>]}
  \cup {[type |-> 32, timestamp_us |-> 16383]}
  \cup {[type |-> 33, stream_id |-> 64, priority |-> 255]}

Headers ==
  {[type |-> "SHORT", dcid |-> <<1, 2>>, spin_bit |-> TRUE, key_phase |-> FALSE, pkt_num |-> 300, pn_len |-> 2],
   [type |-> "INITIAL", version |-> 66051, dcid |-> <<1, 2, 3>>, scid |-> <<7>>, token |-> <<0, 9>>,
    payload_len |-> 70, pkt_num |-> 65538, pn_len |-> 3]}
  \cup {[type |-> t, version |-> 1, dcid |-> <<>>, scid |-> <<1>>, payload_len |-> 1, pkt_num |-> 255, pn_len |-> 1] :
          t \in {"HANDSHAKE", "ZERO_RTT"}}

TcpMessages == {Text(n) : n \in {1, B + 1, B * B - 2, B * B - 1}}
WsMessages == {Text(n) : n \in {1, 2, B * B}}
Keys == {<<3, 0, 1, 2>>}

\* With bytes of four bits the 8-byte form of an integer is within reach.
Numbers == UNION {{2^k - 1, 2^k, 2^k + 1} : k \in {1, 2, 4, 6, 8, 10, 14, 16, 20, 24, 30}} \cup {0, 2147483647}

A == INSTANCE AckRanges WITH MaxPn <- MaxAckPn, largest_recv_pn <- ack_largest
D == INSTANCE Datagram
F == INSTANCE Framing
V == INSTANCE Varint WITH W <- 4

-----------------------------------------------------------------------------
WireInit ==
  /\ part \in {"packet numbers", "ack", "datagram", "tcp", "websocket", "varint"}
  /\ Init /\ A!Init /\ F!TcpInit /\ F!WsInit
  /\ D!Init /\ (part # "datagram" => room = 0)
  /\ probe \in IF part = "varint" THEN Numbers \X (0..9) ELSE {<<0, 0>>}

WireNext ==
  /\ UNCHANGED <<part, probe>>
  /\ \/ /\ part = "packet numbers" /\ TameNext
        /\ UNCHANGED <<ack_vars, dgram_vars, tcp_vars, ws_vars>>
     \/ /\ part = "ack" /\ A!Next
        /\ UNCHANGED <<vars, dgram_vars, tcp_vars, ws_vars>>
     \/ /\ part = "datagram" /\ D!Next
        /\ UNCHANGED <<vars, ack_vars, tcp_vars, ws_vars>>
     \/ /\ part = "tcp" /\ F!TcpNext
        /\ UNCHANGED <<vars, ack_vars, dgram_vars, ws_vars>>
     \/ /\ part = "websocket" /\ F!WsNext
        /\ UNCHANGED <<vars, ack_vars, dgram_vars, tcp_vars>>

WireSpec == WireInit /\ [][WireNext]_<<part, probe, vars, ack_vars, dgram_vars, tcp_vars, ws_vars>>

-----------------------------------------------------------------------------
\* AckRanges: in whatever order packets arrive the ranges are separate and
\* descending, and the frame nxp_ack_build_frame writes is read by
\* nxp_ack_on_ack_recv as exactly the packets recorded, all of them received.
AckFramesAreExact == A!RangesAreMaximal /\ A!AcksOnlyReceived /\ A!FrameIsExact
\* Framing: tcp_recv and ws_recv return the messages that were sent however the
\* stream is cut, the server reads what the client masked, and a full receive
\* buffer can be emptied but for one length.
MessagesSurvive ==
  /\ F!TcpKeepsMessages /\ F!TcpWedgesOnlyOnLongest
  /\ F!WsKeepsMessages /\ F!WsPeerReadsFrames

\* Varint: at both sides of every boundary an integer is written in the
\* shortest form that holds it or refused for want of room, is read back, and
\* no cut of it is read as another number (nxp_varint_encode, _decode).
VarintExact ==
  LET v == probe[1]
      e == V!nxp_varint_encode(v, probe[2])
      fitting == {n \in {1, 2, 4, 8} : v < 2^(4 * n - 2)}
  IN  part = "varint" =>
        IF e = <<>> THEN \A n \in fitting : \E m \in fitting : m <= n /\ probe[2] < m
        ELSE /\ Len(e) \in fitting /\ \A n \in fitting : Len(e) <= n
             /\ V!nxp_varint_decode(e) = [n |-> Len(e), value |-> v]
             /\ \A k \in 1..(Len(e) - 1) : V!nxp_varint_decode(SubSeq(e, 1, k)).n = 0

\* Datagram: every header and pair of frames is read as it was written, integers
\* included, no encoder writes past the space it is given, and of a datagram cut
\* off anywhere only frames that were sent are read.
FramesReadBack ==
  D!ReadsWhatWasWritten /\ D!NeverOverflows /\ D!CutNeverInvents /\ VarintExact
=============================================================================
