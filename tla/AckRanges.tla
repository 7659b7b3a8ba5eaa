------------------------------ MODULE AckRanges -------------------------------
(***************************************************************************)
(* The acknowledgement of packets (core/ack.c): the ranges in which an     *)
(* endpoint records the packet numbers it receives (nxp_ack_on_pkt_recv),  *)
(* the ACK frame built from them (nxp_ack_build_frame), and what the peer  *)
(* reads in that frame (nxp_ack_on_ack_recv).                              *)
(*                                                                         *)
(* Packets arrive in any order and more than once.  An ACK frame may stay  *)
(* in flight while further packets arrive, and may be delivered or not.    *)
(***************************************************************************)
EXTENDS Integers, SequencesExt

CONSTANTS
  MaxPn,         \* bound: packet numbers are 0..MaxPn
  MaxRanges,     \* NXP_MAX_RECV_RANGES
  AckMaxRanges,  \* NXP_ACK_MAX_RANGES
  MaxInFlight    \* bound: ACK frames in flight at once

VARIABLES
  recv_ranges,      \* ranges received, by descending packet number
  largest_recv_pn,
  ack_needed,
  received,         \* history: packet numbers given to nxp_ack_on_pkt_recv
  in_flight,        \* ACK frames on their way, with the ranges they were built from
  acked             \* packet numbers the peer has found in an ACK frame

vars == <<recv_ranges, largest_recv_pn, ack_needed, received, in_flight, acked>>

PktNums == 0..MaxPn
Ranges == [start : PktNums, end : PktNums]

\* The packet numbers in a sequence of ranges.
Covered(rs) == UNION {rs[i].start .. rs[i].end : i \in DOMAIN rs}

-----------------------------------------------------------------------------
(* Receiving packets *)

\* pn continues range i upwards; the range is merged with the one above it
\* when the two now touch.
ExtendEnd(rs, i, pn) ==
  IF i > 1 /\ rs[i - 1].start = pn + 1
  THEN RemoveAt([rs EXCEPT ![i - 1].start = rs[i].start], i)
  ELSE [rs EXCEPT ![i].end = pn]

\* pn continues range i downwards; the range is merged with the one below it
\* when the two now touch.
ExtendStart(rs, i, pn) ==
  IF i < Len(rs) /\ rs[i + 1].end + 1 = pn
  THEN RemoveAt([rs EXCEPT ![i].start = rs[i + 1].start], i + 1)
  ELSE [rs EXCEPT ![i].start = pn]

\* pn becomes a range of its own, unless the table is full.
InsertRange(rs, pn) ==
  LET above == {i \in DOMAIN rs : rs[i].start > pn} IN
  IF Len(rs) < MaxRanges
  THEN InsertAt(rs, Cardinality(above) + 1, [start |-> pn, end |-> pn])
  ELSE rs

\* The ranges after the first range that pn extends is extended.
Recorded(rs, pn) ==
  LET next_to == {i \in DOMAIN rs : pn = rs[i].end + 1 \/ pn + 1 = rs[i].start}
      i == CHOOSE j \in next_to : \A k \in next_to : j <= k
  IN
  IF next_to = {} THEN InsertRange(rs, pn)
  ELSE IF pn = rs[i].end + 1 THEN ExtendEnd(rs, i, pn) ELSE ExtendStart(rs, i, pn)

\* largest_recv_pn after pn is recorded.
LargestPn(pn) ==
  IF recv_ranges = <<>> \/ pn > largest_recv_pn THEN pn ELSE largest_recv_pn

\* nxp_ack_on_pkt_recv; the caller, nxp_conn_recv, takes every packet to be
\* ack-eliciting.
OnPktRecv(pn) ==
  /\ received' = received \cup {pn}
  /\ IF pn \in Covered(recv_ranges)
     THEN UNCHANGED <<recv_ranges, largest_recv_pn, ack_needed>>
     ELSE /\ largest_recv_pn' = LargestPn(pn)
          /\ recv_ranges' = Recorded(recv_ranges, pn)
          /\ ack_needed' = TRUE
  /\ UNCHANGED <<in_flight, acked>>

-----------------------------------------------------------------------------
(* The ACK frame *)

\* The number of ranges after the first that go into the frame: the loop of
\* nxp_ack_build_frame stops at the limit and at a range that touches the one
\* before it.
ExtraRanges(rs) ==
  LET fits(n) == /\ n <= AckMaxRanges
                 /\ \A i \in 2..(n + 1) : rs[i - 1].start >= rs[i].end + 2
  IN CHOOSE n \in 0..(Len(rs) - 1) :
        fits(n) /\ \A m \in 0..(Len(rs) - 1) : fits(m) => m <= n

\* The gap between two ranges of the frame.  Faulty variant: off by one.
GapPlusOne(prev_start, this_end) == prev_start - this_end - 1
Gap(prev_start, this_end) == prev_start - this_end - 2

\* nxp_ack_build_frame: gaps and lengths below the largest packet number.
BuildFrame(rs) ==
  [largest_acked   |-> rs[1].end,
   first_ack_range |-> rs[1].end - rs[1].start,
   ranges          |-> [i \in 1..ExtraRanges(rs) |->
                          [gap       |-> Gap(rs[i].start, rs[i + 1].end),
                           ack_range |-> rs[i + 1].end - rs[i + 1].start]]]

\* The lowest packet number of each range of the frame, as nxp_ack_on_ack_recv
\* computes it; -1 from the range on at which the loop stops.
LowEnds(frame) ==
  LET low[r \in 0..Len(frame.ranges)] ==
        IF r = 0 THEN frame.largest_acked - frame.first_ack_range
        ELSE LET g == frame.ranges[r].gap + 2
                 a == frame.ranges[r].ack_range
             IN IF low[r - 1] < g THEN -1
                ELSE IF low[r - 1] - g >= a THEN low[r - 1] - g - a ELSE 0
  IN low

\* The packet numbers nxp_ack_on_ack_recv takes to be acknowledged.
AckedBy(frame) ==
  LET low == LowEnds(frame) IN
  (low[0] .. frame.largest_acked) \cup
  UNION {low[r] .. (low[r - 1] - frame.ranges[r].gap - 2) :
           r \in {q \in 1..Len(frame.ranges) : low[q] >= 0}}

\* nxp_conn_send puts an ACK frame into the packet.
SendAck ==
  /\ ack_needed
  /\ recv_ranges # <<>>
  /\ in_flight' = in_flight \cup {[frame |-> BuildFrame(recv_ranges), of |-> recv_ranges]}
  /\ ack_needed' = FALSE
  /\ UNCHANGED <<recv_ranges, largest_recv_pn, received, acked>>

\* nxp_ack_on_ack_recv at the peer; frames arrive in any order.
OnAckRecv(ack) ==
  /\ in_flight' = in_flight \ {ack}
  /\ acked' = acked \cup AckedBy(ack.frame)
  /\ UNCHANGED <<recv_ranges, largest_recv_pn, ack_needed, received>>

\* The network loses the packet with the frame.
LoseAck(ack) ==
  /\ in_flight' = in_flight \ {ack}
  /\ UNCHANGED <<recv_ranges, largest_recv_pn, ack_needed, received, acked>>

Init ==
  /\ recv_ranges = <<>>
  /\ largest_recv_pn = 0
  /\ ack_needed = FALSE
  /\ received = {}
  /\ in_flight = {}
  /\ acked = {}

Next ==
  \/ \E pn \in PktNums : OnPktRecv(pn)
  \/ Cardinality(in_flight) < MaxInFlight /\ SendAck
  \/ \E ack \in in_flight : OnAckRecv(ack) \/ LoseAck(ack)

Spec == Init /\ [][Next]_vars

-----------------------------------------------------------------------------
(* Properties *)

\* In whatever order packets arrive, the ranges are non-empty, descending and
\* separated by at least one packet number: no two of them overlap or should
\* have been merged, and they fit the table.  nxp_ack_build_frame relies on it, its gap would otherwise
\* be negative.
RangesAreMaximal ==
  /\ Len(recv_ranges) <= MaxRanges
  /\ \A i \in DOMAIN recv_ranges : recv_ranges[i].start <= recv_ranges[i].end
  /\ \A i \in 2..Len(recv_ranges) : recv_ranges[i].end + 1 < recv_ranges[i - 1].start

\* Only packets that were received are recorded, and the peer never takes a
\* packet to be acknowledged that was not received: it would drop data the
\* receiver does not have.
AcksOnlyReceived == Covered(recv_ranges) \subseteq received /\ acked \subseteq received

\* What the peer reads in an ACK frame is exactly what was recorded when the
\* frame was built: the gap encoding of nxp_ack_build_frame and the walk of
\* nxp_ack_on_ack_recv are inverse to each other.
FrameIsExact == \A ack \in in_flight : AckedBy(ack.frame) = Covered(ack.of)
=============================================================================
