-------------------------- MODULE PacketNumberProofs --------------------------
(***************************************************************************)
(* Packet numbers are reconstructed rightly, for bytes of any even number  *)
(* of values, as long as the network keeps the disorder within half the    *)
(* window of the shortest encoding.                                        *)
(***************************************************************************)
EXTENDS PacketNumber, TLAPS

\* Division with remainder.
LEMMA DivMod ==
  ASSUME NEW w \in Nat \ {0}, NEW a \in Nat
  PROVE  /\ a \div w \in Nat /\ a % w \in 0..(w - 1)
         /\ a = w * (a \div w) + (a % w)
<1>1. a % w \in 0..(w - 1)
  OBVIOUS
<1>2. a \div w \in Nat
  OBVIOUS
<1>3. a = w * (a \div w) + (a % w)
  OBVIOUS
<1> QED BY <1>1, <1>2, <1>3

\* Multiples of w that differ by less than 2 w are equal or neighbours.
LEMMA Neighbours ==
  ASSUME NEW w \in Nat \ {0}, NEW p \in Nat, NEW q \in Nat,
         w * p < w * q + 2 * w, w * q < w * p + 2 * w
  PROVE  w * p = w * q \/ w * p = w * q + w \/ w * q = w * p + w
<1>1. p <= q + 1
  <2> SUFFICES ASSUME p >= q + 2 PROVE FALSE
    OBVIOUS
  <2>1. PICK d \in Nat : p = q + 2 + d
    OBVIOUS
  <2>2. w * p = w * q + 2 * w + w * d
    BY <2>1
  <2>3. w * d >= 0
    OBVIOUS
  <2> QED BY <2>2, <2>3
<1>2. q <= p + 1
  <2> SUFFICES ASSUME q >= p + 2 PROVE FALSE
    OBVIOUS
  <2>1. PICK d \in Nat : q = p + 2 + d
    OBVIOUS
  <2>2. w * q = w * p + 2 * w + w * d
    BY <2>1
  <2>3. w * d >= 0
    OBVIOUS
  <2> QED BY <2>2, <2>3
<1>3. p = q \/ p = q + 1 \/ q = p + 1
  BY <1>1, <1>2
<1>4. CASE p = q + 1
  BY <1>4
<1>5. CASE q = p + 1
  BY <1>5
<1> QED BY <1>3, <1>4, <1>5

\* nxp_pkt_decode_pkt_num inverts the truncation of a number that lies within
\* half a window of the expected one.
LEMMA DecodeInverts ==
  ASSUME NEW h \in Nat \ {0}, NEW w, w = 2 * h,
         NEW largest \in Nat, NEW pn \in Nat,
         pn <= largest + 1 + h, largest + 1 < pn + h, pn < Limit
  PROVE  Decode(largest, Truncated(pn, w), w) = pn
<1> USE LimitAssumption
<1> DEFINE e == largest + 1
           ew == w * (e \div w)
           pw == w * (pn \div w)
           t == pn % w
           candidate == e - (e % w) + t
<1>1. w \in Nat \ {0} /\ w \div 2 = h
  OBVIOUS
<1>2. /\ e = ew + (e % w) /\ e % w \in 0..(w - 1) /\ e \div w \in Nat
      /\ pn = pw + t /\ t \in 0..(w - 1) /\ pn \div w \in Nat
  <2>1. e \in Nat
    OBVIOUS
  <2>2. e = ew + (e % w) /\ e % w \in 0..(w - 1) /\ e \div w \in Nat
    BY <1>1, <2>1, DivMod
  <2>3. pn = pw + t /\ t \in 0..(w - 1) /\ pn \div w \in Nat
    BY <1>1, DivMod
  <2> QED BY <2>2, <2>3
<1>3. ew \in Nat /\ pw \in Nat
  BY <1>1, <1>2
<1>4. pw = ew \/ pw = ew + w \/ ew = pw + w
  <2>1. pw < ew + 2 * w /\ ew < pw + 2 * w
    <3>1. e \in Nat /\ e % w \in 0..(w - 1) /\ pn <= e + h /\ e < pn + h /\ h <= w
      BY <1>1, <1>2
    <3> HIDE DEF ew, pw, t, e
    <3>2. pw < ew + 2 * w
      BY <1>1, <1>2, <1>3, <3>1
    <3>3. ew < pw + 2 * w
      BY <1>1, <1>2, <1>3, <3>1
    <3> QED BY <3>2, <3>3
  <2> DEFINE q == pn \div w
             r == e \div w
  <2>2. q \in Nat /\ r \in Nat /\ w * q < w * r + 2 * w /\ w * r < w * q + 2 * w
    BY <1>2, <2>1
  <2> HIDE DEF q, r
  <2>3. w * q = w * r \/ w * q = w * r + w \/ w * r = w * q + w
    BY <1>1, <2>2, Neighbours
  <2> QED BY <2>3 DEF q, r
<1>5. Decode(largest, Truncated(pn, w), w) =
        IF candidate + h <= e /\ candidate + w < Limit THEN candidate + w
        ELSE IF candidate > e + h /\ candidate >= w THEN candidate - w
        ELSE candidate
  BY <1>1 DEF Decode, Truncated
<1>6. candidate = ew + t
  <2> HIDE DEF ew, t
  <2> QED BY <1>2, <1>3
<1> HIDE DEF candidate, ew, pw, t
<1>7. CASE pw = ew
  BY <1>1, <1>2, <1>3, <1>5, <1>6, <1>7
<1>8. CASE pw = ew + w
  BY <1>1, <1>2, <1>3, <1>5, <1>6, <1>8
<1>9. CASE ew = pw + w
  BY <1>1, <1>2, <1>3, <1>5, <1>6, <1>9
<1> QED BY <1>4, <1>7, <1>8, <1>9

-----------------------------------------------------------------------------
(* The inductive invariant *)

\* Every packet on the wire was numbered by its sender, carries the low bytes
\* of that number, and is at most half a window ahead of its receiver.
WireOK ==
  \A e \in Endpoints : \A p \in wire[e] :
     /\ p.pn \in Nat /\ p.pn < next_pkt_num[e] /\ p.pn_len \in 1..4
     /\ p.bits = Truncated(p.pn, Win(p.pn_len))
     /\ p.pn <= largest_recv_pn[Peer(e)] + Half

CountersOK ==
  /\ next_pkt_num \in [Endpoints -> 0..MaxPn]
  /\ largest_recv_pn \in [Endpoints -> Nat]
  /\ any_recv \in [Endpoints -> BOOLEAN]
  /\ \A e \in Endpoints : ~any_recv[e] => largest_recv_pn[e] = 0
  /\ DOMAIN wire = Endpoints

IInv == CountersOK /\ WireOK /\ RecordedWasSent /\ ReadsAreRight

\* Each window is twice a half window that is at least that of one byte.
LEMMA Windows ==
  ASSUME NEW len \in 1..4
  PROVE  \E h \in Nat \ {0} : Win(len) = 2 * h /\ Half <= h
<1> USE BaseAssumption
<1>1. Half \in Nat \ {0} /\ Base = 2 * Half
  BY DEF Half
<1> HIDE DEF Half
<1>2. ASSUME NEW k \in Nat \ {0}
      PROVE  k * Half \in Nat \ {0} /\ Half <= k * Half
  BY <1>1
<1>3. CASE len = 1
  BY <1>1, <1>3 DEF Win
<1>4. CASE len = 2
  <2>1. Win(len) = 2 * (Base * Half)
    BY <1>1, <1>4 DEF Win
  <2> QED BY <1>2, <2>1
<1>5. CASE len = 3
  <2>1. Win(len) = 2 * ((Base * Base) * Half)
    <3>1. Win(len) = (Base * Base) * Base
      BY <1>5 DEF Win
    <3>2. Base * Base \in Nat
      OBVIOUS
    <3> QED BY <1>1, <3>1, <3>2
  <2>2. Base * Base \in Nat \ {0}
    OBVIOUS
  <2> QED BY <1>2, <2>1, <2>2
<1>6. CASE len = 4
  <2>1. Base * Base * Base \in Nat \ {0}
    OBVIOUS
  <2>2. Win(len) = 2 * ((Base * Base * Base) * Half)
    <3>1. Win(len) = (Base * Base * Base) * Base
      BY <1>6 DEF Win
    <3> QED BY <1>1, <2>1, <3>1
  <2> QED BY <1>2, <2>1, <2>2
<1> QED BY <1>3, <1>4, <1>5, <1>6

\* The two ends are each other's peer.
LEMMA PeerPeer ==
  \A e \in Endpoints : Peer(e) \in Endpoints /\ Peer(Peer(e)) = e /\ Peer(e) # e
BY DEF Endpoints, Peer

\* A packet sent keeps the invariant.
LEMMA SendStep ==
  ASSUME IInv, NEW e \in Endpoints,
         next_pkt_num[e] <= largest_recv_pn[Peer(e)] + Half, Send(e)
  PROVE  IInv'
<1> USE LimitAssumption
<1> DEFINE pn == next_pkt_num[e]
           pn_len == PktNumLen(pn, largest_recv_pn[e])
           p == [pn |-> pn, pn_len |-> pn_len, bits |-> Truncated(pn, Win(pn_len))]
<1>1. pn \in Nat /\ pn < MaxPn
  BY DEF IInv, CountersOK, Send
<1>2. pn_len \in 1..4
  BY DEF PktNumLen
<1>3. /\ wire' = [wire EXCEPT ![e] = @ \cup {p}]
      /\ next_pkt_num' = [next_pkt_num EXCEPT ![e] = pn + 1]
      /\ UNCHANGED <<largest_recv_pn, any_recv, misread>>
  BY DEF Send
<1> HIDE DEF pn_len
<1>4. CountersOK'
  <2>1. next_pkt_num' \in [Endpoints -> 0..MaxPn]
    BY <1>1, <1>3 DEF IInv, CountersOK
  <2> QED BY <1>3, <2>1 DEF IInv, CountersOK
<1>5. \A d \in Endpoints : next_pkt_num[d] \in Nat /\ next_pkt_num'[d] \in Nat
                           /\ next_pkt_num[d] <= next_pkt_num'[d]
  BY <1>1, <1>3 DEF IInv, CountersOK
<1>6. WireOK'
  <2> SUFFICES ASSUME NEW d \in Endpoints, NEW q \in wire'[d]
               PROVE  /\ q.pn \in Nat /\ q.pn < next_pkt_num'[d] /\ q.pn_len \in 1..4
                      /\ q.bits = Truncated(q.pn, Win(q.pn_len))
                      /\ q.pn <= largest_recv_pn[Peer(d)] + Half
    BY <1>3 DEF WireOK
  <2>1. CASE q \in wire[d]
    BY <1>5, <2>1 DEF IInv, WireOK
  <2>2. CASE q \notin wire[d]
    <3>1. d = e /\ q = p
      BY <1>3, <2>2 DEF IInv, CountersOK
    <3>2. next_pkt_num'[e] = pn + 1
      BY <1>3 DEF IInv, CountersOK
    <3> QED BY <1>1, <1>2, <3>1, <3>2
  <2> QED BY <2>1, <2>2
<1>7. RecordedWasSent'
  BY <1>3, <1>5, PeerPeer DEF IInv, CountersOK, RecordedWasSent
<1>8. ReadsAreRight'
  BY <1>3 DEF IInv, ReadsAreRight
<1> QED BY <1>4, <1>6, <1>7, <1>8 DEF IInv

\* A packet received keeps the invariant.
LEMMA ReceiveStep ==
  ASSUME IInv, NEW e \in Endpoints, NEW p \in wire[Peer(e)],
         next_pkt_num[Peer(e)] < p.pn + Half, Receive(e, p)
  PROVE  IInv'
<1> USE LimitAssumption, BaseAssumption
<1> DEFINE L == largest_recv_pn[e]
           full_pn == Decode(L, p.bits, Win(p.pn_len))
<1>1. /\ Peer(e) \in Endpoints /\ Peer(Peer(e)) = e
      /\ L \in Nat /\ next_pkt_num[Peer(e)] \in 0..MaxPn
  BY PeerPeer DEF IInv, CountersOK
<1>2. /\ p.pn \in Nat /\ p.pn < next_pkt_num[Peer(e)] /\ p.pn_len \in 1..4
      /\ p.bits = Truncated(p.pn, Win(p.pn_len))
      /\ p.pn <= L + Half
  BY <1>1 DEF IInv, WireOK
<1>3. L + 1 <= next_pkt_num[Peer(e)]
  <2>1. CASE any_recv[e]
    BY <1>1, <2>1 DEF IInv, RecordedWasSent
  <2>2. CASE ~any_recv[e]
    <3>1. L = 0
      BY <2>2 DEF IInv, CountersOK
    <3> QED BY <1>1, <1>2, <3>1
  <2> QED BY <2>1, <2>2
<1>4. PICK h \in Nat \ {0} : Win(p.pn_len) = 2 * h /\ Half <= h
  BY <1>2, Windows
<1>5. Half \in Nat
  BY DEF Half
<1>6. full_pn = p.pn
  <2>1. p.pn <= L + 1 + h /\ L + 1 < p.pn + h /\ p.pn < Limit
    BY <1>1, <1>2, <1>3, <1>4, <1>5
  <2> QED BY <1>1, <1>2, <1>4, <2>1, DecodeInverts
<1> HIDE DEF full_pn
<1>7. /\ largest_recv_pn' = [largest_recv_pn EXCEPT ![e] =
                               IF ~any_recv[e] \/ p.pn > L THEN p.pn ELSE L]
      /\ any_recv' = [any_recv EXCEPT ![e] = TRUE]
      /\ misread' = (misread \/ p.pn # p.pn)
      /\ UNCHANGED <<next_pkt_num, wire>>
  BY <1>6 DEF Receive, LargestRecorded, full_pn
<1>8. /\ largest_recv_pn'[e] \in Nat /\ L <= largest_recv_pn'[e]
      /\ largest_recv_pn'[e] < next_pkt_num[Peer(e)]
  <2>1. ~any_recv[e] => L = 0
    BY DEF IInv, CountersOK
  <2>2. largest_recv_pn'[e] = IF ~any_recv[e] \/ p.pn > L THEN p.pn ELSE L
    BY <1>7 DEF IInv, CountersOK
  <2> QED BY <1>1, <1>2, <1>3, <2>1, <2>2
<1>9. \A d \in Endpoints : d # e => largest_recv_pn'[d] = largest_recv_pn[d]
                                    /\ any_recv'[d] = any_recv[d]
  BY <1>7 DEF IInv, CountersOK
<1>10. CountersOK'
  <2>1. largest_recv_pn' \in [Endpoints -> Nat]
    BY <1>7, <1>1, <1>2 DEF IInv, CountersOK
  <2>2. any_recv' \in [Endpoints -> BOOLEAN] /\ any_recv'[e] = TRUE
    BY <1>7 DEF IInv, CountersOK
  <2>3. \A d \in Endpoints : ~any_recv'[d] => largest_recv_pn'[d] = 0
    BY <1>9, <2>2 DEF IInv, CountersOK
  <2> QED BY <1>7, <2>1, <2>2, <2>3 DEF IInv, CountersOK
<1>11. \A d \in Endpoints : largest_recv_pn[d] \in Nat /\ largest_recv_pn'[d] \in Nat
                            /\ largest_recv_pn[d] <= largest_recv_pn'[d]
  BY <1>8, <1>9 DEF IInv, CountersOK
<1>12. WireOK'
  <2> SUFFICES ASSUME NEW d \in Endpoints, NEW q \in wire[d]
               PROVE  /\ q.pn \in Nat /\ q.pn < next_pkt_num[d] /\ q.pn_len \in 1..4
                      /\ q.bits = Truncated(q.pn, Win(q.pn_len))
                      /\ q.pn <= largest_recv_pn'[Peer(d)] + Half
    BY <1>7 DEF WireOK
  <2>1. /\ q.pn \in Nat /\ q.pn < next_pkt_num[d] /\ q.pn_len \in 1..4
        /\ q.bits = Truncated(q.pn, Win(q.pn_len))
        /\ q.pn <= largest_recv_pn[Peer(d)] + Half
    BY DEF IInv, WireOK
  <2>2. Peer(d) \in Endpoints
    BY PeerPeer
  <2> QED BY <1>5, <1>11, <2>1, <2>2
<1>13. RecordedWasSent'
  BY <1>7, <1>8, <1>9 DEF IInv, RecordedWasSent
<1>14. ReadsAreRight'
  BY <1>7 DEF IInv, ReadsAreRight
<1> QED BY <1>10, <1>12, <1>13, <1>14 DEF IInv

\* The invariant is inductive under the tame steps.
LEMMA Inductive == IInv /\ [TameNext]_vars => IInv'
<1> SUFFICES ASSUME IInv, [TameNext]_vars PROVE IInv'
  OBVIOUS
<1>1. CASE UNCHANGED vars
  BY <1>1 DEF IInv, CountersOK, WireOK, RecordedWasSent, ReadsAreRight, vars
<1>2. CASE TameNext
  BY <1>2, SendStep, ReceiveStep DEF TameNext
<1> QED BY <1>1, <1>2

\* The invariant holds before the first packet.
LEMMA InitIInv == Init => IInv
BY LimitAssumption
   DEF Init, IInv, CountersOK, WireOK, RecordedWasSent, ReadsAreRight

\* On a network that loses fewer than half a window (128 packets) in a row and
\* delays none by that much, nxp_conn_recv reconstructs every packet number.
THEOREM ReadsStayRight == TameSpec => []ReadsAreRight
<1>1. IInv => ReadsAreRight
  BY DEF IInv
<1> QED BY <1>1, InitIInv, Inductive, PTL DEF TameSpec

\* On such a network no endpoint records, and so none acknowledges, a packet
\* number that its peer has not used.
THEOREM RecordsAreSent == TameSpec => []RecordedWasSent
<1>1. IInv => RecordedWasSent
  BY DEF IInv
<1> QED BY <1>1, InitIInv, Inductive, PTL DEF TameSpec
=============================================================================
