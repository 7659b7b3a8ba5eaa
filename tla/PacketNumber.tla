----------------------------- MODULE PacketNumber -----------------------------
(***************************************************************************)
(* Packet numbers on the wire (core/packet.c): a short header carries the  *)
(* low pn_len bytes of the packet number, nxp_pkt_num_len chooses pn_len,  *)
(* and nxp_pkt_decode_pkt_num reconstructs the number from the largest one *)
(* received.  The two endpoints send to each other over a network that     *)
(* loses, delays, reorders and duplicates packets (core/connection.c).     *)
(***************************************************************************)
EXTENDS Naturals

CONSTANTS
  Base,      \* values of a byte (256 in the code)
  Limit,     \* packet numbers are below Limit (2^62 in the code)
  MaxPn      \* bound: packets an endpoint sends

ASSUME BaseAssumption == Base \in Nat /\ Base >= 4 /\ Base % 2 = 0
ASSUME LimitAssumption == Limit \in Nat /\ MaxPn \in 0..Limit

VARIABLES
  next_pkt_num,      \* of each endpoint
  largest_recv_pn,   \* largest packet number recorded, 0 at first
  any_recv,          \* some packet number has been recorded
  wire,              \* packets sent by each endpoint that may still arrive
  misread            \* some packet's number was reconstructed wrongly

vars == <<next_pkt_num, largest_recv_pn, any_recv, wire, misread>>

Endpoints == {"client", "server"}
Peer(e) == IF e = "client" THEN "server" ELSE "client"

-----------------------------------------------------------------------------
(* The encoding *)

\* pn_win: numbers that pn_len bytes tell apart.
Win(pn_len) ==
  CASE pn_len = 1 -> Base
    [] pn_len = 2 -> Base * Base
    [] pn_len = 3 -> Base * Base * Base
    [] pn_len = 4 -> Base * Base * Base * Base

\* nxp_pkt_num_len; the unsigned difference is huge when pkt_num is below
\* largest_acked.
PktNumLen(pkt_num, largest_acked) ==
  LET below(bound) == pkt_num >= largest_acked /\ pkt_num - largest_acked < bound IN
  IF below(Win(1) \div 2) THEN 1
  ELSE IF below(Win(2) \div 2) THEN 2
  ELSE IF below(Win(3) \div 2) THEN 3 ELSE 4

\* Faulty variant of Truncated: the high bytes are kept.
NotTruncated(pkt_num, win) == pkt_num
\* nxp_pkt_encode_short_header keeps the low bytes.
Truncated(pkt_num, win) == pkt_num % win

\* Faulty variant of Decode: the number never wraps upwards.
DecodeDown(largest, truncated_pn, win) ==
  LET expected == largest + 1
      candidate == expected - (expected % win) + truncated_pn
  IN
  IF candidate > expected + (win \div 2) /\ candidate >= win THEN candidate - win
  ELSE candidate

\* nxp_pkt_decode_pkt_num, for a window of win numbers.
Decode(largest, truncated_pn, win) ==
  LET expected == largest + 1
      hwin == win \div 2
      candidate == expected - (expected % win) + truncated_pn
  IN
  IF candidate + hwin <= expected /\ candidate + win < Limit THEN candidate + win
  ELSE IF candidate > expected + hwin /\ candidate >= win THEN candidate - win
  ELSE candidate

-----------------------------------------------------------------------------
(* The endpoints *)

Init ==
  /\ next_pkt_num = [e \in Endpoints |-> 0]
  /\ largest_recv_pn = [e \in Endpoints |-> 0]
  /\ any_recv = [e \in Endpoints |-> FALSE]
  /\ wire = [e \in Endpoints |-> {}]
  /\ misread = FALSE

\* nxp_conn_send: the length of the packet number is chosen from the largest
\* packet number this endpoint has received.
Send(e) ==
  LET pn == next_pkt_num[e]
      pn_len == PktNumLen(pn, largest_recv_pn[e])
  IN
  /\ pn < MaxPn
  /\ wire' = [wire EXCEPT ![e] = @ \cup {[pn |-> pn, pn_len |-> pn_len,
                                          bits |-> Truncated(pn, Win(pn_len))]}]
  /\ next_pkt_num' = [next_pkt_num EXCEPT ![e] = @ + 1]
  /\ UNCHANGED <<largest_recv_pn, any_recv, misread>>

\* largest_recv_pn of e after full_pn is recorded.
LargestRecorded(e, full_pn) ==
  IF ~any_recv[e] \/ full_pn > largest_recv_pn[e] THEN full_pn ELSE largest_recv_pn[e]

\* nxp_conn_recv: reconstruct the number and record it, before the packet is
\* decrypted.  The packet may arrive again.
Receive(e, p) ==
  LET full_pn == Decode(largest_recv_pn[e], p.bits, Win(p.pn_len)) IN
  /\ largest_recv_pn' = [largest_recv_pn EXCEPT ![e] = LargestRecorded(e, full_pn)]
  /\ any_recv' = [any_recv EXCEPT ![e] = TRUE]
  /\ misread' = (misread \/ full_pn # p.pn)
  /\ UNCHANGED <<next_pkt_num, wire>>

Next ==
  \E e \in Endpoints : Send(e) \/ \E p \in wire[Peer(e)] : Receive(e, p)

Spec == Init /\ [][Next]_vars

\* A network of bounded disorder: of the packets of an endpoint it loses fewer
\* than half a window in a row, and none arrives half a window late.
Half == Base \div 2

TameNext ==
  \E e \in Endpoints :
     \/ next_pkt_num[e] <= largest_recv_pn[Peer(e)] + Half /\ Send(e)
     \/ \E p \in wire[Peer(e)] : next_pkt_num[Peer(e)] < p.pn + Half /\ Receive(e, p)

TameSpec == Init /\ [][TameNext]_vars

-----------------------------------------------------------------------------
(* Properties *)

\* "such that the receiver (knowing largest_acked) can reconstruct it"
\* (packet.c:342): every packet that arrives is given the number it was sent
\* with.  A packet that is not cannot be decrypted, and a number that was
\* never sent is acknowledged.
ReadsAreRight == ~misread

\* Numbers recorded at one endpoint were used by the other.
RecordedWasSent ==
  \A e \in Endpoints : any_recv[e] => largest_recv_pn[e] < next_pkt_num[Peer(e)]
=============================================================================
