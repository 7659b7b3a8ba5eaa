---------------------------- MODULE TransferProofs ---------------------------
(***************************************************************************)
(* Proofs about stream transfer, for any set of streams, any buffer and    *)
(* window sizes, and every order in which the network delivers, repeats or *)
(* loses packets and acknowledgements.                                     *)
(***************************************************************************)
EXTENDS Transfer, WellFoundedInduction, TLAPS

\* A non-empty set of naturals has a smallest element.
LEMMA SmallestIn ==
  ASSUME NEW S \in SUBSET Nat, S # {}
  PROVE  Smallest(S) \in S /\ \A y \in S : Smallest(S) <= y
<1> DEFINE R == {ss \in Nat \X Nat : ss[1] < ss[2]}
<1>1. IsWellFoundedOn(R, Nat)
  BY NatLessThanWellFounded DEF OpToRel
<1>2. PICK x \in S : \A y \in S : ~(<<y, x>> \in R)
  <2> HIDE DEF R
  <2> QED BY <1>1, WFMin
<1>3. ASSUME NEW y \in S
      PROVE  x <= y
  <2>1. x \in Nat /\ y \in Nat
    OBVIOUS
  <2>2. y < x => <<y, x>> \in R
    BY <2>1
  <2> QED BY <1>2, <2>1, <2>2
<1> QED BY <1>3 DEF Smallest

\* A non-empty bounded set of naturals has a largest element.
LEMMA LargestIn ==
  ASSUME NEW n \in Nat, NEW S \in SUBSET (0..n), S # {}
  PROVE  Largest(S) \in S /\ \A y \in S : y <= Largest(S)
<1> DEFINE T == {n - x : x \in S}
<1>1. T \in SUBSET Nat
  OBVIOUS
<1>a. PICK e \in S : TRUE
  OBVIOUS
<1>b. n - e \in T
  OBVIOUS
<1>2. Smallest(T) \in T /\ \A y \in T : Smallest(T) <= y
  BY <1>1, <1>b, SmallestIn
<1>3. PICK m \in S : Smallest(T) = n - m
  BY <1>2
<1>4. ASSUME NEW y \in S
      PROVE  y <= m
  <2>1. n - y \in T
    OBVIOUS
  <2>2. n - m <= n - y
    BY <1>2, <1>3, <2>1
  <2>3. y \in 0..n /\ m \in 0..n
    OBVIOUS
  <2> QED BY <2>2, <2>3
<1> QED BY <1>4 DEF Largest

-----------------------------------------------------------------------------
(* The inductive invariant *)

\* What holds of every frame that was ever built: it stays within what the
\* application wrote, and its FIN marks the end.
FrameOK(f) ==
  /\ Len(f.data) = f.len
  /\ f.off + f.len <= write_offset[f.s]
  /\ f.fin => fin[f.s] /\ f.off + f.len = write_offset[f.s]

BuildingOK == \A k \in DOMAIN building : FrameOK(building[k])
PktsOK == \A pn \in DOMAIN pkts : \A k \in DOMAIN pkts[pn] : FrameOK(pkts[pn][k])
InboxOK == \A k \in DOMAIN inbox : FrameOK(inbox[k])

RecvOK ==
  \A s \in Streams :
     /\ recv_offset[s] <= write_offset[s]
     /\ fin_received[s] => fin[s] /\ fin_offset[s] = write_offset[s]

IInv == TypeOK /\ SendWindow /\ BuildingOK /\ PktsOK /\ InboxOK /\ RecvOK

Byte == Nat \cup {NoByte}

\* An offset taken modulo the capacity is a cell of the buffer.
LEMMA ModRange == \A a \in Nat : a % Cap \in Cells
BY SizesAssumption DEF Cells

\* Offsets are natural numbers.
LEMMA OffsetsAreNat == \A x \in Offsets : x \in Nat
BY SizesAssumption DEF Offsets

\* What ends within a stream's window is an offset of it.
LEMMA WithinWindow ==
  ASSUME NEW a \in Nat, NEW b \in Nat, NEW w \in Offsets, a + b <= w
  PROVE  a + b \in Offsets
BY SizesAssumption DEF Offsets

\* Copying bytes into a ring buffer yields a ring buffer.
LEMMA CopiedType ==
  ASSUME NEW buf \in [Cells -> Byte], NEW pos \in Nat, NEW len \in Nat,
         NEW src \in [1..len -> Byte]
  PROVE  Copied(buf, pos, len, src) \in [Cells -> Byte]
<1>1. ASSUME NEW c \in Cells, \E i \in 0..(len - 1) : (pos + i) % Cap = c
      PROVE  src[1 + CHOOSE i \in 0..(len - 1) : (pos + i) % Cap = c] \in Byte
  <2> DEFINE j == CHOOSE i \in 0..(len - 1) : (pos + i) % Cap = c
  <2>1. j \in 0..(len - 1)
    BY <1>1
  <2> HIDE DEF j
  <2>2. 1 + j \in 1..len
    BY <2>1
  <2>3. src[1 + j] \in Byte
    BY <2>2
  <2> QED BY <2>3 DEF j
<1> QED BY <1>1 DEF Copied

\* A frame remains within what was written as long as the sent part of the
\* stream is not rewritten.
LEMMA FrameStable ==
  ASSUME NEW f, FrameOK(f), UNCHANGED <<write_offset, fin>>
  PROVE  FrameOK(f)'
BY DEF FrameOK

\* While nothing is written, the frames on their way stay right.
LEMMA FrameStableAll ==
  ASSUME BuildingOK, PktsOK, InboxOK, RecvOK, UNCHANGED <<write_offset, fin>>
  PROVE  /\ UNCHANGED building => BuildingOK'
         /\ UNCHANGED pkts => PktsOK'
         /\ UNCHANGED inbox => InboxOK'
         /\ UNCHANGED <<recv_offset, fin_received, fin_offset>> => RecvOK'
BY FrameStable DEF BuildingOK, PktsOK, InboxOK, RecvOK

\* nxp_conn_stream_send keeps the invariant: frames that carry a FIN belong
\* to streams on which nothing can be written any more.
LEMMA StreamSendStep ==
  ASSUME IInv, NEW s \in Streams, NEW len \in 0..Cap, NEW f \in BOOLEAN,
         StreamSend(s, len, f)
  PROVE  IInv'
<1> USE SizesAssumption
<1> DEFINE n == Least(len, Acceptable(s))
<1>1. /\ write_offset[s] \in Nat /\ acked_offset[s] \in Nat
      /\ write_offset[s] <= MaxStreamData
      /\ acked_offset[s] <= write_offset[s]
      /\ write_offset[s] - acked_offset[s] <= Cap
  BY DEF IInv, TypeOK, SendWindow, Offsets
<1>2. /\ n \in Nat /\ n <= len
      /\ write_offset[s] + n <= MaxStreamData
      /\ write_offset[s] + n - acked_offset[s] <= Cap
  BY <1>1 DEF Acceptable, Least
<1> HIDE DEF n
<1>3. /\ write_offset' = [write_offset EXCEPT ![s] = @ + n]
      /\ fin' = [fin EXCEPT ![s] = f]
      /\ ~fin[s]
  BY DEF StreamSend, n
<1>4. write_offset' \in [Streams -> Offsets] /\ fin' \in [Streams -> BOOLEAN]
  <2>1. write_offset[s] + n \in Offsets
    BY <1>1, <1>2 DEF Offsets
  <2>2. write_offset' \in [Streams -> Offsets]
    BY <1>3, <2>1 DEF IInv, TypeOK
  <2>3. fin' \in [Streams -> BOOLEAN]
    BY <1>3 DEF IInv, TypeOK
  <2> QED BY <2>2, <2>3
<1>5. sendbuf' \in [Streams -> [Cells -> Byte]]
  <2>1. sendbuf \in [Streams -> [Cells -> Byte]]
    BY DEF IInv, TypeOK, Byte
  <2>2. [i \in 1..n |-> write_offset[s] + i - 1] \in [1..n -> Byte]
    BY <1>1, <1>2 DEF Byte
  <2>3. Copied(sendbuf[s], write_offset[s], n,
               [i \in 1..n |-> write_offset[s] + i - 1]) \in [Cells -> Byte]
    BY <1>1, <1>2, <2>1, <2>2, CopiedType
  <2> QED BY <2>1, <2>3 DEF StreamSend, n
<1>6. scheduled' \in [Streams -> BOOLEAN]
  BY DEF StreamSend, IInv, TypeOK
<1>7. TypeOK'
  BY <1>4, <1>5, <1>6
     DEF StreamSend, IInv, TypeOK, Byte, pktVars, recvVars, netVars
<1>8. SendWindow'
  BY <1>1, <1>2, <1>3 DEF StreamSend, IInv, TypeOK, SendWindow, Offsets
<1>9. ASSUME NEW g, g \in Frames, FrameOK(g)
      PROVE  FrameOK(g)'
  <2>1. g.s \in Streams /\ g.off \in Nat /\ g.len \in Nat
    BY <1>9 DEF Frames, Offsets
  <2>2. CASE g.s = s
    <3>1. Len(g.data) = g.len /\ g.off + g.len <= write_offset[s] /\ ~g.fin
      BY <1>3, <1>9, <2>2 DEF FrameOK
    <3>2. write_offset'[s] = write_offset[s] + n
      BY <1>3 DEF IInv, TypeOK
    <3>3. g.off + g.len <= write_offset'[s]
      BY <1>1, <1>2, <2>1, <3>1, <3>2
    <3> QED BY <2>2, <3>1, <3>3 DEF FrameOK
  <2>3. CASE g.s # s
    BY <1>3, <1>9, <2>1, <2>3 DEF FrameOK, IInv, TypeOK
  <2> QED BY <2>2, <2>3
<1>10. UNCHANGED <<building, pkts, inbox, recv_offset, fin_received, fin_offset>>
  BY DEF StreamSend, pktVars, recvVars, netVars
<1>11. BuildingOK' /\ InboxOK'
  BY <1>9, <1>10 DEF IInv, TypeOK, BuildingOK, InboxOK
<1>12. PktsOK'
  <2>1. ASSUME NEW pn \in DOMAIN pkts, NEW k \in DOMAIN pkts[pn]
        PROVE  pkts[pn][k] \in Frames /\ FrameOK(pkts[pn][k])
    <3>1. pkts[pn] \in Seq(Frames)
      BY DEF IInv, TypeOK
    <3> QED BY <3>1 DEF IInv, PktsOK
  <2> QED BY <1>9, <1>10, <2>1 DEF PktsOK
<1>13. RecvOK'
  <2> SUFFICES ASSUME NEW t \in Streams
               PROVE  /\ recv_offset[t] <= write_offset'[t]
                      /\ fin_received[t] => fin'[t] /\ fin_offset[t] = write_offset'[t]
    BY <1>10 DEF RecvOK
  <2>1. /\ recv_offset[t] <= write_offset[t] /\ recv_offset[t] \in Nat
        /\ fin_received[t] => fin[t] /\ fin_offset[t] = write_offset[t]
    BY DEF IInv, TypeOK, RecvOK, Offsets
  <2>2. CASE t = s
    BY <1>1, <1>2, <1>3, <2>1, <2>2 DEF IInv, TypeOK
  <2>3. CASE t # s
    BY <1>3, <2>1, <2>3 DEF IInv, TypeOK
  <2> QED BY <2>2, <2>3
<1> QED BY <1>7, <1>8, <1>11, <1>12, <1>13 DEF IInv

\* nxp_stream_fill_frame builds a frame that satisfies FrameOK.
LEMMA FillFrameStep ==
  ASSUME IInv, NEW s \in Streams, NEW room \in Rooms, FillFrame(s, room)
  PROVE  IInv'
<1> USE SizesAssumption
<1> DEFINE off == sent_offset[s]
           len == Least(Least(Unsent(s), Least(room, MaxData - data_sent)),
                        Cap - (off % Cap))
           f == fin[s] /\ ~fin_sent[s] /\ off + len = write_offset[s]
           data == [i \in 1..len |-> sendbuf[s][(off + i - 1) % Cap]]
           frame == [s |-> s, off |-> off, len |-> len, fin |-> f, data |-> data]
<1>1. /\ off \in Nat /\ write_offset[s] \in Nat /\ off <= write_offset[s]
      /\ write_offset[s] <= MaxStreamData
      /\ data_sent \in Nat /\ data_sent <= MaxData
      /\ room \in 0..Cap
  BY DEF IInv, TypeOK, SendWindow, Offsets
<1>2. Unsent(s) \in Nat /\ off + Unsent(s) = write_offset[s]
  BY <1>1 DEF Unsent
<1>3. Cap - (off % Cap) \in 1..Cap
  <2>1. off % Cap \in 0..(Cap - 1)
    BY <1>1, ModRange DEF Cells
  <2> QED BY <2>1
<1>4. /\ len \in Nat /\ len <= Cap /\ off + len <= write_offset[s]
      /\ data_sent + len <= MaxData
  BY <1>1, <1>2, <1>3 DEF Least
<1>5. /\ building' = Append(building, frame)
      /\ sent_offset' = [sent_offset EXCEPT ![s] = off + len]
      /\ fin_sent' = [fin_sent EXCEPT ![s] = @ \/ f]
      /\ data_sent' = data_sent + len
      /\ UNCHANGED <<write_offset, acked_offset, fin, fin_acked, sstate, sendbuf,
                     scheduled, pkts, tracked, loss_timer, send_ping,
                     recvVars, netVars>>
      /\ Len(building) < MaxFrames
  BY DEF FillFrame, FinDue, Advance
<1>6. data \in Seq(Byte)
  <2>1. sendbuf[s] \in [Cells -> Byte]
    BY DEF IInv, TypeOK, Byte
  <2>2. ASSUME NEW i \in 1..len
        PROVE  sendbuf[s][(off + i - 1) % Cap] \in Byte
    <3>1. off + i - 1 \in Nat
      BY <1>1, <1>4
    <3> QED BY <2>1, <3>1, ModRange
  <2> QED BY <1>4, <2>2
<1>7. f \in BOOLEAN
  OBVIOUS
<1> HIDE DEF len, f, data
<1>8. frame \in Frames
  <2>1. off \in Offsets /\ len \in 0..Cap
    BY <1>1, <1>4 DEF Offsets
  <2> QED BY <1>6, <1>7, <2>1 DEF Frames, Byte
<1>9. FrameOK(frame)
  <2>1. Len(data) = len
    BY <1>4 DEF data
  <2> QED BY <1>1, <1>4, <2>1 DEF FrameOK, f
<1>10. /\ building' \in Seq(Frames) /\ Len(building') <= MaxFrames
       /\ \A k \in DOMAIN building' : FrameOK(building'[k])
  <2>1. building \in Seq(Frames)
    BY DEF IInv, TypeOK
  <2>2. \A k \in DOMAIN building : FrameOK(building[k])
    BY DEF IInv, BuildingOK
  <2> HIDE DEF frame
  <2> QED BY <1>5, <1>8, <1>9, <2>1, <2>2
<1>11. sent_offset' \in [Streams -> Offsets]
  <2>1. off + len \in Offsets
    BY <1>1, <1>4 DEF Offsets
  <2> QED BY <1>5, <2>1 DEF IInv, TypeOK
<1>12. fin_sent' \in [Streams -> BOOLEAN]
  BY <1>5 DEF IInv, TypeOK
<1>13. data_sent' \in 0..MaxData
  BY <1>1, <1>4, <1>5
<1>14. TypeOK'
  BY <1>5, <1>10, <1>11, <1>12, <1>13 DEF IInv, TypeOK, recvVars, netVars
<1>15. SendWindow'
  BY <1>1, <1>4, <1>5 DEF IInv, TypeOK, SendWindow, Offsets
<1>16. BuildingOK'
  BY <1>5, <1>10 DEF BuildingOK, FrameOK
<1>17. PktsOK' /\ InboxOK' /\ RecvOK'
  BY <1>5, FrameStableAll DEF IInv, recvVars, netVars
<1> QED BY <1>14, <1>15, <1>16, <1>17 DEF IInv

\* nxp_sched_next unlinking an idle stream.
LEMMA UnlinkStep ==
  ASSUME IInv, NEW s \in Streams, Unlink(s)
  PROVE  IInv'
<1>1. scheduled' \in [Streams -> BOOLEAN]
  BY DEF IInv, TypeOK, Unlink
<1>2. TypeOK'
  BY <1>1 DEF IInv, TypeOK, Unlink, pktVars, recvVars, netVars
<1>3. SendWindow'
  BY DEF IInv, SendWindow, Unlink
<1>4. BuildingOK' /\ PktsOK' /\ InboxOK' /\ RecvOK'
  BY FrameStableAll DEF IInv, Unlink, pktVars, recvVars, netVars
<1> QED BY <1>2, <1>3, <1>4 DEF IInv

\* A finished packet enters the history with the frames it was built of.
LEMMA FinishPacketStep ==
  ASSUME IInv, FinishPacket
  PROVE  IInv'
<1> USE SizesAssumption
<1>1. /\ pkts \in Seq(Seq(Frames)) /\ building \in Seq(Frames)
      /\ Len(pkts) < MaxPkts
      /\ pkts' = Append(pkts, building) /\ building' = <<>>
      /\ tracked' = tracked \cup {Len(pkts) + 1}
      /\ send_ping' = FALSE
      /\ UNCHANGED <<sendVars, data_sent, loss_timer, recvVars, netVars>>
  BY DEF IInv, TypeOK, FinishPacket
<1>2. /\ pkts' \in Seq(Seq(Frames)) /\ Len(pkts') = Len(pkts) + 1
      /\ Len(pkts) \in Nat /\ Len(pkts') <= MaxPkts
      /\ DOMAIN pkts' = 1..(Len(pkts) + 1)
      /\ \A pn \in 1..Len(pkts) : pkts'[pn] = pkts[pn]
      /\ pkts'[Len(pkts) + 1] = building
  BY <1>1
<1>3. 1..Len(pkts) \subseteq 1..Len(pkts')
  BY <1>2
<1>4. /\ tracked' \in SUBSET (1..Len(pkts'))
      /\ received' \in SUBSET (1..Len(pkts'))
      /\ acks' \in SUBSET SUBSET (1..Len(pkts'))
  <2>1. tracked' \in SUBSET (1..Len(pkts'))
    <3>1. tracked \subseteq 1..Len(pkts)
      BY DEF IInv, TypeOK
    <3>2. Len(pkts) + 1 \in 1..Len(pkts')
      BY <1>2
    <3> QED BY <1>1, <1>3, <3>1, <3>2
  <2>2. received' \in SUBSET (1..Len(pkts'))
    BY <1>1, <1>3 DEF IInv, TypeOK, netVars
  <2>3. acks' \in SUBSET SUBSET (1..Len(pkts'))
    BY <1>1, <1>3 DEF IInv, TypeOK, netVars
  <2> QED BY <2>1, <2>2, <2>3
<1>5. building' \in Seq(Frames) /\ Len(building') <= MaxFrames
  BY <1>1
<1>6. TypeOK'
  BY <1>1, <1>2, <1>4, <1>5 DEF IInv, TypeOK, sendVars, recvVars, netVars
<1>7. SendWindow'
  BY <1>1 DEF IInv, SendWindow, sendVars
<1>8. BuildingOK'
  BY <1>1 DEF BuildingOK
<1>9. InboxOK' /\ RecvOK'
  BY <1>1, FrameStableAll DEF IInv, sendVars, recvVars, netVars
<1>10. PktsOK'
  <2>1. ASSUME NEW pn \in 1..(Len(pkts) + 1), NEW k \in DOMAIN pkts'[pn]
        PROVE  FrameOK(pkts'[pn][k])
    <3>1. CASE pn \in 1..Len(pkts)
      BY <1>1, <1>2, <3>1 DEF IInv, PktsOK
    <3>2. CASE pn = Len(pkts) + 1
      BY <1>2, <3>2 DEF IInv, BuildingOK
    <3> QED BY <1>2, <3>1, <3>2
  <2>2. DOMAIN pkts' = 1..(Len(pkts) + 1) /\ UNCHANGED <<write_offset, fin>>
    BY <1>1 DEF sendVars
  <2> QED BY <2>1, <2>2 DEF PktsOK, FrameOK
<1> QED BY <1>6, <1>7, <1>8, <1>9, <1>10 DEF IInv

\* What nxp_stream_on_ack and nxp_stream_on_loss leave of the offsets and
\* flags, whichever packets are acknowledged and declared lost.
LEMMA AckAndLoseKeeps ==
  ASSUME IInv, NEW acked \in SUBSET tracked, NEW lost \in SUBSET tracked,
         AckAndLose(acked, lost)
  PROVE  /\ acked_offset' \in [Streams -> Offsets]
         /\ sent_offset' \in [Streams -> Offsets]
         /\ fin_acked' \in [Streams -> BOOLEAN]
         /\ fin_sent' \in [Streams -> BOOLEAN]
         /\ scheduled' \in [Streams -> BOOLEAN]
         /\ sstate' \in [Streams -> {"OPEN", "HALF_CLOSED_LOCAL"}]
         /\ tracked' \in SUBSET (1..Len(pkts))
         /\ SendWindow'
<1> USE SizesAssumption
<1>1. ASSUME NEW pns \in SUBSET tracked, NEW s \in Streams, NEW f \in FramesOf(pns, s)
      PROVE  f.off \in Nat /\ f.len \in Nat /\ f.off + f.len <= write_offset[s]
  <2>1. PICK pn \in pns : f \in {pkts[pn][k] : k \in DOMAIN pkts[pn]}
    BY DEF FramesOf, FramesIn
  <2>2. PICK k \in DOMAIN pkts[pn] : f = pkts[pn][k]
    BY <2>1
  <2>3. pn \in DOMAIN pkts /\ pkts[pn] \in Seq(Frames)
    BY DEF IInv, TypeOK
  <2>4. f \in Frames /\ FrameOK(f) /\ f.s = s
    BY <2>2, <2>3 DEF IInv, PktsOK, FramesOf
  <2>5. f.off \in Offsets /\ f.len \in 0..Cap
    BY <2>4 DEF Frames
  <2> QED BY <2>4, <2>5 DEF FrameOK, Offsets
<1>2. ASSUME NEW s \in Streams
      PROVE  /\ acked_offset'[s] \in Nat
             /\ acked_offset[s] <= acked_offset'[s]
             /\ acked_offset'[s] <= write_offset[s]
  <2> DEFINE S == {acked_offset[s]} \cup {f.off + f.len : f \in FramesOf(acked, s)}
  <2>1. write_offset[s] \in Nat /\ acked_offset[s] \in 0..write_offset[s]
    BY DEF IInv, TypeOK, SendWindow, Offsets
  <2>2. ASSUME NEW f \in FramesOf(acked, s)
        PROVE  f.off + f.len \in 0..write_offset[s]
    BY <1>1, <2>1
  <2>3. S \in SUBSET (0..write_offset[s])
    BY <2>1, <2>2
  <2>4. acked_offset'[s] = Largest(S)
    BY DEF AckAndLose
  <2>5. acked_offset[s] \in S
    OBVIOUS
  <2> HIDE DEF S
  <2>6. Largest(S) \in S /\ \A y \in S : y <= Largest(S)
    BY <2>1, <2>3, <2>5, LargestIn
  <2>7. Largest(S) \in 0..write_offset[s] /\ acked_offset[s] <= Largest(S)
    <3>1. Largest(S) \in 0..write_offset[s]
      BY <2>3, <2>6
    <3>2. acked_offset[s] <= Largest(S)
      BY <2>5, <2>6
    <3> QED BY <3>1, <3>2
  <2>8. Largest(S) \in Nat /\ Largest(S) <= write_offset[s]
    BY <2>1, <2>7
  <2> QED BY <2>4, <2>7, <2>8
<1>3. ASSUME NEW s \in Streams
      PROVE  sent_offset'[s] \in Nat /\ sent_offset'[s] <= sent_offset[s]
  <2> DEFINE S == {sent_offset[s]} \cup {f.off : f \in FramesOf(lost, s)}
  <2>1. sent_offset[s] \in Nat
    BY DEF IInv, TypeOK, Offsets
  <2>2. S \in SUBSET Nat
    BY <1>1, <2>1
  <2>3. sent_offset'[s] = Smallest(S)
    BY DEF AckAndLose
  <2>4. sent_offset[s] \in S
    OBVIOUS
  <2> HIDE DEF S
  <2>5. Smallest(S) \in S /\ \A y \in S : Smallest(S) <= y
    BY <2>2, <2>4, SmallestIn
  <2> QED BY <2>2, <2>3, <2>4, <2>5
<1>4. \A s \in Streams : /\ write_offset[s] \in Offsets /\ sent_offset[s] \in Offsets
                         /\ acked_offset[s] \in Offsets
                         /\ sent_offset[s] <= write_offset[s]
                         /\ write_offset[s] - acked_offset[s] <= Cap
  BY DEF IInv, TypeOK, SendWindow
<1>5. acked_offset' \in [Streams -> Offsets]
  <2>1. \A s \in Streams : acked_offset'[s] \in Offsets
    BY <1>2, <1>4 DEF Offsets
  <2>2. acked_offset' = [s \in Streams |-> acked_offset'[s]]
    BY DEF AckAndLose
  <2> QED BY <2>1, <2>2
<1>6. sent_offset' \in [Streams -> Offsets]
  <2>1. \A s \in Streams : sent_offset'[s] \in Offsets
    BY <1>3, <1>4 DEF Offsets
  <2>2. sent_offset' = [s \in Streams |-> sent_offset'[s]]
    BY DEF AckAndLose
  <2> QED BY <2>1, <2>2
<1>7. SendWindow'
  <2>1. write_offset' = write_offset
    BY DEF AckAndLose
  <2> QED BY <1>2, <1>3, <1>4, <2>1 DEF SendWindow, Offsets
<1>8. /\ fin_acked' \in [Streams -> BOOLEAN]
      /\ fin_sent' \in [Streams -> BOOLEAN]
      /\ scheduled' \in [Streams -> BOOLEAN]
  BY DEF AckAndLose, IInv, TypeOK
<1>9. sstate' \in [Streams -> {"OPEN", "HALF_CLOSED_LOCAL"}]
  BY DEF AckAndLose, IInv, TypeOK
<1>10. tracked' \in SUBSET (1..Len(pkts))
  BY DEF AckAndLose, IInv, TypeOK
<1> QED BY <1>5, <1>6, <1>7, <1>8, <1>9, <1>10

\* An acknowledgement or a loss timeout keeps the invariant.
LEMMA AckAndLoseStep ==
  ASSUME IInv, NEW acked \in SUBSET tracked, NEW lost \in SUBSET tracked,
         AckAndLose(acked, lost), loss_timer' \in BOOLEAN,
         UNCHANGED <<data_sent, building, pkts, send_ping, recvVars, netVars>>
  PROVE  IInv'
<1>1. UNCHANGED <<write_offset, fin, sendbuf>>
  BY DEF AckAndLose
<1>2. TypeOK'
  BY <1>1, AckAndLoseKeeps DEF IInv, TypeOK, recvVars, netVars
<1>3. BuildingOK' /\ PktsOK' /\ InboxOK' /\ RecvOK'
  BY <1>1, FrameStableAll DEF IInv, recvVars, netVars
<1> QED BY <1>2, <1>3, AckAndLoseKeeps DEF IInv

\* An acknowledgement keeps the invariant.
LEMMA RecvAckStep ==
  ASSUME IInv, NEW ack \in acks, NEW cut \in 0..MaxPkts, RecvAck(ack, cut)
  PROVE  IInv'
<1>1. tracked \cap ack \in SUBSET tracked /\ UpTo(tracked \ ack, cut) \in SUBSET tracked
  BY DEF UpTo
<1>2. loss_timer' \in BOOLEAN
  BY DEF RecvAck
<1> QED BY <1>1, <1>2, AckAndLoseStep DEF RecvAck

\* A loss timeout keeps the invariant.
LEMMA LossTimeoutStep ==
  ASSUME IInv, NEW cut \in 0..MaxPkts, LossTimeout(cut)
  PROVE  IInv'
<1>1. {} \in SUBSET tracked /\ UpTo(tracked, cut) \in SUBSET tracked
  BY DEF UpTo
<1>2. loss_timer' \in BOOLEAN
  BY DEF LossTimeout
<1> QED BY <1>1, <1>2, AckAndLoseStep DEF LossTimeout

\* A probe timeout keeps the invariant.
LEMMA ProbeTimeoutStep ==
  ASSUME IInv, ProbeTimeout
  PROVE  IInv'
<1>1. TypeOK'
  BY DEF IInv, TypeOK, ProbeTimeout, sendVars, recvVars, netVars
<1>2. SendWindow'
  BY DEF IInv, SendWindow, ProbeTimeout, sendVars
<1>3. BuildingOK' /\ PktsOK' /\ InboxOK' /\ RecvOK'
  BY FrameStableAll DEF IInv, ProbeTimeout, sendVars, recvVars, netVars
<1> QED BY <1>1, <1>2, <1>3 DEF IInv

-----------------------------------------------------------------------------
(* The receiver's steps *)

\* A packet received keeps the invariant.
LEMMA RecvPacketStep ==
  ASSUME IInv, NEW pn \in 1..Len(pkts), RecvPacket(pn)
  PROVE  IInv'
<1>1. /\ inbox' = pkts[pn] /\ received' = received \cup {pn}
      /\ ack_needed' = (ack_needed \/ pn \notin received)
      /\ UNCHANGED <<sendVars, pktVars, recvVars, acks>>
  BY DEF RecvPacket
<1>2. pkts \in Seq(Seq(Frames)) /\ received \subseteq 1..Len(pkts)
  BY DEF IInv, TypeOK
<1>3. inbox' \in Seq(Frames) /\ received' \in SUBSET (1..Len(pkts))
  BY <1>1, <1>2
<1>4. ack_needed' \in BOOLEAN
  BY <1>1
<1>5. TypeOK'
  BY <1>1, <1>3, <1>4 DEF IInv, TypeOK, sendVars, pktVars, recvVars
<1>6. SendWindow'
  BY <1>1 DEF IInv, SendWindow, sendVars
<1>7. BuildingOK' /\ PktsOK' /\ RecvOK'
  BY <1>1, FrameStableAll DEF IInv, sendVars, pktVars, recvVars
<1>8. InboxOK'
  <2>1. pn \in DOMAIN pkts
    BY <1>2
  <2>2. \A k \in DOMAIN pkts[pn] : FrameOK(pkts[pn][k])
    BY <2>1 DEF IInv, PktsOK
  <2>3. inbox' = pkts[pn] /\ UNCHANGED <<write_offset, fin>>
    BY <1>1 DEF sendVars
  <2> QED BY <2>2, <2>3 DEF InboxOK, FrameOK
<1> QED BY <1>5, <1>6, <1>7, <1>8 DEF IInv

\* A rejected frame keeps the invariant.
LEMMA RejectFrameStep ==
  ASSUME IInv, RejectFrame
  PROVE  IInv'
<1>1. /\ inbox' = <<>>
      /\ UNCHANGED <<sendVars, pktVars, recvVars, received, ack_needed, acks>>
  BY DEF RejectFrame
<1>2. TypeOK'
  <2>1. inbox' \in Seq(Frames)
    BY <1>1
  <2> QED BY <1>1, <2>1 DEF IInv, TypeOK, sendVars, pktVars, recvVars
<1>3. SendWindow'
  BY <1>1 DEF IInv, SendWindow, sendVars
<1>4. BuildingOK' /\ PktsOK' /\ RecvOK'
  BY <1>1, FrameStableAll DEF IInv, sendVars, pktVars, recvVars
<1>5. InboxOK'
  BY <1>1 DEF InboxOK
<1> QED BY <1>2, <1>3, <1>4, <1>5 DEF IInv

\* An acknowledgement sent keeps the invariant.
LEMMA SendAckStep ==
  ASSUME IInv, SendAck
  PROVE  IInv'
<1>1. /\ ack_needed' = FALSE /\ acks' = acks \cup {received}
      /\ UNCHANGED <<sendVars, pktVars, recvVars, inbox, received>>
  BY DEF SendAck
<1>2. acks' \in SUBSET SUBSET (1..Len(pkts))
  BY <1>1 DEF IInv, TypeOK
<1>3. TypeOK'
  BY <1>1, <1>2 DEF IInv, TypeOK, sendVars, pktVars, recvVars
<1>4. SendWindow'
  BY <1>1 DEF IInv, SendWindow, sendVars
<1>5. BuildingOK' /\ PktsOK' /\ InboxOK' /\ RecvOK'
  BY <1>1, FrameStableAll DEF IInv, sendVars, pktVars, recvVars
<1> QED BY <1>3, <1>4, <1>5 DEF IInv

\* A read by the application keeps the invariant.
LEMMA StreamRecvStep ==
  ASSUME IInv, NEW s \in Streams, NEW len \in 1..Cap, StreamRecv(s, len)
  PROVE  IInv'
<1> USE SizesAssumption
<1> DEFINE n == Least(len, recv_offset[s] - read_offset[s])
<1>1. read_offset[s] \in Nat /\ recv_offset[s] \in Nat /\ recv_offset[s] <= MaxStreamData
  BY DEF IInv, TypeOK, Offsets
<1>2. n > 0
  BY DEF StreamRecv
<1>3. n \in Nat /\ read_offset[s] + n \in Offsets
  BY <1>1, <1>2 DEF Least, Offsets
<1>4. /\ read_offset' = [read_offset EXCEPT ![s] = @ + n]
      /\ UNCHANGED <<recv_offset, fin_received, fin_offset, rstate, recvbuf, got>>
      /\ UNCHANGED <<sendVars, pktVars, netVars>>
  BY DEF StreamRecv
<1>5. intact' \in [Streams -> BOOLEAN]
  BY DEF IInv, TypeOK, StreamRecv
<1> HIDE DEF n
<1>6. read_offset' \in [Streams -> Offsets]
  BY <1>3, <1>4 DEF IInv, TypeOK
<1>7. TypeOK'
  BY <1>4, <1>5, <1>6 DEF IInv, TypeOK, sendVars, pktVars, netVars
<1>8. SendWindow'
  BY <1>4 DEF IInv, SendWindow, sendVars
<1>9. BuildingOK' /\ PktsOK' /\ InboxOK' /\ RecvOK'
  BY <1>4, FrameStableAll DEF IInv, sendVars, pktVars, netVars
<1> QED BY <1>7, <1>8, <1>9 DEF IInv

\* Storing a frame: the bytes copied come from the frame, and the FIN it may
\* carry agrees with what the application wrote.
LEMMA ProcessFrameStep ==
  ASSUME IInv, ProcessFrame
  PROVE  IInv'
<1> USE SizesAssumption
<1> DEFINE f == Head(inbox)
           s == f.s
           end == f.off + f.len
           skip == IF f.off < read_offset[s] THEN read_offset[s] - f.off ELSE 0
           store == f.len > 0 /\ end > read_offset[s]
           src == [i \in 1..(f.len - skip) |-> f.data[i + skip]]
<1>1. inbox \in Seq(Frames) /\ inbox # <<>>
  BY DEF IInv, TypeOK, ProcessFrame
<1>2. f \in Frames /\ FrameOK(f) /\ inbox' \in Seq(Frames)
  <2>1. inbox' = Tail(inbox)
    BY DEF ProcessFrame
  <2>2. 1 \in DOMAIN inbox /\ f = inbox[1]
    BY <1>1
  <2> QED BY <1>1, <2>1, <2>2 DEF IInv, InboxOK
<1>3. InboxOK'
  <2>1. /\ inbox' = Tail(inbox)
        /\ UNCHANGED <<write_offset, fin>>
    BY DEF ProcessFrame, sendVars
  <2>2. \A k \in DOMAIN Tail(inbox) : FrameOK(Tail(inbox)[k])
    BY <1>1 DEF IInv, InboxOK
  <2> QED BY <2>1, <2>2 DEF InboxOK, FrameOK
<1>4. /\ s \in Streams /\ f.off \in Nat /\ f.len \in Nat
      /\ f.data \in Seq(Byte) /\ Len(f.data) = f.len
      /\ end <= write_offset[s]
  BY <1>2 DEF Frames, FrameOK, Offsets, Byte
<1>5. f.fin \in BOOLEAN
  BY <1>2 DEF Frames
<1>6. f.fin => fin[s] /\ end = write_offset[s]
  BY <1>2 DEF FrameOK
<1>7. /\ recvbuf' = IF store
                    THEN [recvbuf EXCEPT ![s] =
                            Copied(@, f.off + skip, f.len - skip, src)]
                    ELSE recvbuf
      /\ recv_offset' = [recv_offset EXCEPT ![s] = IF store /\ end > @ THEN end ELSE @]
      /\ fin_offset' = [fin_offset EXCEPT ![s] = IF f.fin THEN end ELSE @]
      /\ fin_received' = [fin_received EXCEPT ![s] = @ \/ f.fin]
      /\ rstate' = [rstate EXCEPT ![s] = IF f.fin THEN "HALF_CLOSED_REMOTE" ELSE @]
      /\ got' = [got EXCEPT ![s] = @ \cup {f.off + i : i \in 0..(f.len - 1)}]
      /\ UNCHANGED <<read_offset, intact, sendVars, pktVars, received, ack_needed, acks>>
  BY DEF ProcessFrame, Skip
<1> HIDE DEF f, store
<1>8. /\ read_offset[s] \in Nat /\ write_offset[s] \in Offsets
      /\ recv_offset[s] \in Offsets /\ fin_offset[s] \in Offsets
      /\ recv_offset[s] <= write_offset[s]
  <2>1. s \in Streams
    BY <1>4
  <2> HIDE DEF s
  <2>2. /\ read_offset[s] \in Offsets /\ write_offset[s] \in Offsets
        /\ recv_offset[s] \in Offsets /\ fin_offset[s] \in Offsets
    BY <2>1 DEF IInv, TypeOK
  <2>3. recv_offset[s] <= write_offset[s]
    BY <2>1 DEF IInv, RecvOK
  <2>4. read_offset[s] \in Nat
    BY <2>2, OffsetsAreNat
  <2> QED BY <2>2, <2>3, <2>4
<1>9. end \in Offsets
  <2>1. f.off \in Nat /\ f.len \in Nat /\ f.off + f.len <= write_offset[s]
    BY <1>4
  <2>2. write_offset[s] \in Offsets
    BY <1>8
  <2> QED BY <2>1, <2>2, WithinWindow
<1>10. recvbuf' \in [Streams -> [Cells -> Byte]]
  <2>1. recvbuf \in [Streams -> [Cells -> Byte]]
    BY DEF IInv, TypeOK, Byte
  <2>2. CASE store
    <3>1. skip \in Nat /\ skip <= f.len /\ f.len - skip \in Nat
      BY <1>4, <1>8, <2>2 DEF store
    <3> HIDE DEF skip
    <3>2. src \in [1..(f.len - skip) -> Byte]
      <4>1. ASSUME NEW i \in 1..(f.len - skip)
            PROVE  f.data[i + skip] \in Byte
        <5>1. i + skip \in 1..Len(f.data)
          BY <1>4, <3>1
        <5> QED BY <1>4, <5>1
      <4> QED BY <4>1
    <3> HIDE DEF src
    <3>3. f.off + skip \in Nat /\ recvbuf[s] \in [Cells -> Byte]
      BY <1>4, <2>1, <3>1
    <3>4. Copied(recvbuf[s], f.off + skip, f.len - skip, src) \in [Cells -> Byte]
      BY <3>1, <3>2, <3>3, CopiedType
    <3>5. recvbuf' = [recvbuf EXCEPT ![s] =
                        Copied(recvbuf[s], f.off + skip, f.len - skip, src)]
      BY <1>7, <2>2
    <3> QED BY <2>1, <3>4, <3>5
  <2>3. CASE ~store
    BY <1>7, <2>1, <2>3
  <2> QED BY <2>2, <2>3
<1> HIDE DEF skip, src, end, s
<1>11. recv_offset' \in [Streams -> Offsets] /\ fin_offset' \in [Streams -> Offsets]
  <2>1. (IF store /\ end > recv_offset[s] THEN end ELSE recv_offset[s]) \in Offsets
    BY <1>8, <1>9
  <2>2. (IF f.fin THEN end ELSE fin_offset[s]) \in Offsets
    BY <1>8, <1>9
  <2> QED BY <1>4, <1>7, <2>1, <2>2 DEF IInv, TypeOK
<1>12. /\ fin_received' \in [Streams -> BOOLEAN]
       /\ rstate' \in [Streams -> {"OPEN", "HALF_CLOSED_REMOTE"}]
  BY <1>4, <1>5, <1>7 DEF IInv, TypeOK
<1>13. got' \in [Streams -> SUBSET Nat]
  <2>1. got \in [Streams -> SUBSET Nat]
    BY DEF IInv, TypeOK
  <2>2. {f.off + i : i \in 0..(f.len - 1)} \in SUBSET Nat
    BY <1>4
  <2> QED BY <1>4, <1>7, <2>1, <2>2
<1>14. TypeOK'
  BY <1>2, <1>7, <1>10, <1>11, <1>12, <1>13 DEF IInv, TypeOK, Byte, sendVars, pktVars
<1>15. SendWindow'
  BY <1>7 DEF IInv, SendWindow, sendVars
<1>16. BuildingOK' /\ PktsOK'
  BY <1>7, FrameStableAll DEF IInv, sendVars, pktVars
<1>17. RecvOK'
  <2> SUFFICES ASSUME NEW t \in Streams
               PROVE  /\ recv_offset'[t] <= write_offset[t]
                      /\ fin_received'[t] => fin[t] /\ fin_offset'[t] = write_offset[t]
    BY <1>7 DEF RecvOK, sendVars
  <2>1. /\ recv_offset[t] <= write_offset[t]
        /\ fin_received[t] => fin[t] /\ fin_offset[t] = write_offset[t]
    BY DEF IInv, RecvOK
  <2>2. CASE t # s
    BY <1>7, <2>1, <2>2 DEF IInv, TypeOK
  <2>3. CASE t = s
    <3>1. recv_offset'[s] <= write_offset[s]
      BY <1>4, <1>7, <1>8 DEF IInv, TypeOK, end
    <3>2. fin_offset'[s] = IF f.fin THEN end ELSE fin_offset[s]
      BY <1>4, <1>7 DEF IInv, TypeOK
    <3>3. fin_received'[s] => fin_received[s] \/ f.fin
      BY <1>4, <1>7 DEF IInv, TypeOK
    <3> QED BY <1>6, <2>1, <2>3, <3>1, <3>2, <3>3 DEF end, s
  <2> QED BY <2>2, <2>3
<1> QED BY <1>3, <1>14, <1>15, <1>16, <1>17 DEF IInv

-----------------------------------------------------------------------------
(* Theorems *)

\* The invariant holds for a new stream.
LEMMA InitIInv == Init => IInv
<1> SUFFICES ASSUME Init PROVE IInv
  OBVIOUS
<1> USE SizesAssumption
<1>1. 0 \in Offsets
  BY DEF Offsets
<1>2. TypeOK
  <2>1. /\ building \in Seq(Frames) /\ Len(building) <= MaxFrames
        /\ pkts \in Seq(Seq(Frames)) /\ Len(pkts) <= MaxPkts
        /\ inbox \in Seq(Frames) /\ data_sent \in 0..MaxData
    BY DEF Init
  <2>2. /\ tracked \in SUBSET (1..Len(pkts)) /\ received \in SUBSET (1..Len(pkts))
        /\ acks \in SUBSET SUBSET (1..Len(pkts))
    BY DEF Init
  <2>3. /\ sendbuf \in [Streams -> [Cells -> Nat \cup {NoByte}]]
        /\ recvbuf \in [Streams -> [Cells -> Nat \cup {NoByte}]]
        /\ got \in [Streams -> SUBSET Nat]
    BY DEF Init
  <2>4. /\ write_offset \in [Streams -> Offsets] /\ sent_offset \in [Streams -> Offsets]
        /\ acked_offset \in [Streams -> Offsets] /\ read_offset \in [Streams -> Offsets]
        /\ recv_offset \in [Streams -> Offsets] /\ fin_offset \in [Streams -> Offsets]
    BY <1>1 DEF Init
  <2>5. /\ fin \in [Streams -> BOOLEAN] /\ fin_sent \in [Streams -> BOOLEAN]
        /\ fin_acked \in [Streams -> BOOLEAN] /\ scheduled \in [Streams -> BOOLEAN]
        /\ fin_received \in [Streams -> BOOLEAN] /\ intact \in [Streams -> BOOLEAN]
        /\ loss_timer \in BOOLEAN /\ send_ping \in BOOLEAN /\ ack_needed \in BOOLEAN
    BY DEF Init
  <2>6. /\ sstate \in [Streams -> {"OPEN", "HALF_CLOSED_LOCAL"}]
        /\ rstate \in [Streams -> {"OPEN", "HALF_CLOSED_REMOTE"}]
    BY DEF Init
  <2> QED BY <2>1, <2>2, <2>3, <2>4, <2>5, <2>6 DEF TypeOK
<1>3. SendWindow /\ RecvOK
  BY DEF Init, SendWindow, RecvOK
<1>4. BuildingOK /\ PktsOK /\ InboxOK
  <2>1. building = <<>> /\ pkts = <<>> /\ inbox = <<>>
    BY DEF Init
  <2>2. BuildingOK
    BY <2>1 DEF BuildingOK
  <2>3. PktsOK
    BY <2>1 DEF PktsOK
  <2>4. InboxOK
    BY <2>1 DEF InboxOK
  <2> QED BY <2>2, <2>3, <2>4
<1> QED BY <1>2, <1>3, <1>4 DEF IInv

\* The invariant is inductive.
LEMMA Inductive == IInv /\ [Next]_vars => IInv'
<1> SUFFICES ASSUME IInv, [Next]_vars PROVE IInv'
  OBVIOUS
<1>1. CASE UNCHANGED vars
  <2>1. TypeOK' /\ SendWindow'
    BY <1>1 DEF IInv, TypeOK, SendWindow, vars, sendVars, pktVars, recvVars, netVars
  <2>2. BuildingOK' /\ PktsOK' /\ InboxOK' /\ RecvOK'
    BY <1>1, FrameStableAll DEF IInv, vars, sendVars, pktVars, recvVars, netVars
  <2> QED BY <2>1, <2>2 DEF IInv
<1>2. CASE Next
  BY <1>2, StreamSendStep, FillFrameStep, UnlinkStep, StreamRecvStep, FinishPacketStep,
     RecvAckStep, LossTimeoutStep, ProbeTimeoutStep, RecvPacketStep, ProcessFrameStep,
     RejectFrameStep, SendAckStep DEF Next
<1> QED BY <1>1, <1>2

\* Every variable of the sender, the receiver and the network keeps its type:
\* in particular no offset of stream.c leaves the stream's window.
THEOREM TypeCorrect == Spec => []TypeOK
<1>1. IInv => TypeOK
  BY DEF IInv
<1> QED BY <1>1, InitIInv, Inductive, PTL DEF Spec

\* Whatever is acknowledged, declared lost or retransmitted, in whatever order,
\* the offsets of nxp_stream_write never wrap around.
THEOREM SendWindowHolds == Spec => []SendWindow
<1>1. IInv => SendWindow
  BY DEF IInv
<1> QED BY <1>1, InitIInv, Inductive, PTL DEF Spec

\* All frames with FIN, retransmissions included, agree on the final size, and
\* so does the receiver.
THEOREM FinalSizeHolds == Spec => []FinalSize
<1>1. IInv => FinalSize
  <2> SUFFICES ASSUME IInv PROVE FinalSize
    OBVIOUS
  <2>1. ASSUME NEW f \in AllFrames
        PROVE  FrameOK(f)
    <3>1. CASE f \in {building[k] : k \in DOMAIN building}
      BY <3>1 DEF IInv, BuildingOK
    <3>2. CASE f \in FramesIn(DOMAIN pkts)
      <4>1. PICK pn \in DOMAIN pkts : f \in {pkts[pn][k] : k \in DOMAIN pkts[pn]}
        BY <3>2 DEF FramesIn
      <4> QED BY <4>1 DEF IInv, PktsOK
    <3> QED BY <3>1, <3>2 DEF AllFrames
  <2> QED BY <2>1 DEF IInv, FinalSize, RecvOK, FrameOK
<1> QED BY <1>1, InitIInv, Inductive, PTL DEF Spec

\* nxp_stream_on_recv never fails with NXP_ERR_FLOW_CONTROL on a frame from a
\* sender that runs the same code with the same window.
THEOREM FlowRespectedHolds == Spec => []FlowRespected
<1>1. IInv => FlowRespected
  <2> SUFFICES ASSUME IInv, inbox # <<>>
               PROVE  Head(inbox).off + Head(inbox).len <= MaxStreamData
    BY DEF FlowRespected
  <2>1. inbox \in Seq(Frames) /\ 1 \in DOMAIN inbox /\ Head(inbox) = inbox[1]
    BY DEF IInv, TypeOK
  <2>2. inbox[1] \in Frames /\ FrameOK(inbox[1])
    BY <2>1 DEF IInv, InboxOK
  <2>3. write_offset[inbox[1].s] \in Offsets
    BY <2>2 DEF IInv, TypeOK, Frames
  <2>4. inbox[1].off \in Offsets /\ inbox[1].len \in 0..Cap
    BY <2>2 DEF Frames
  <2> QED BY <2>1, <2>2, <2>3, <2>4, SizesAssumption DEF FrameOK, Offsets
<1> QED BY <1>1, InitIInv, Inductive, PTL DEF Spec
=============================================================================
