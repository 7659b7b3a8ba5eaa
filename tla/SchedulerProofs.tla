--------------------------- MODULE SchedulerProofs ---------------------------
(***************************************************************************)
(* Proofs about the stream scheduler, for any set of streams, any set of   *)
(* rate-limited streams and any number of frames per packet.               *)
(*                                                                         *)
(* The list operations are handled once, in the lemmas AddKeepsRing and    *)
(* NextKeepsRing; every action of the specification changes the list by    *)
(* one of them or not at all.  That the links are mutually inverse is not  *)
(* inductive: two disjoint rings would satisfy it, and removing the only   *)
(* stream of the first would empty the head over the second.  The          *)
(* inductive invariant is that some enumeration of the linked streams      *)
(* starts at the head and follows sched_next around.                       *)
(***************************************************************************)
EXTENDS Scheduler, FiniteSetTheorems, TLAPS

ListType ==
  /\ sched_head \in Pointer
  /\ sched_next \in [Streams -> Pointer]
  /\ sched_prev \in [Streams -> Pointer]
  /\ scheduled \in [Streams -> BOOLEAN]

Ring == \E n \in Nat : \E q \in [1..n -> Streams] : RingOrder(n, q)

\* nxp_sched_add keeps the list one ring, links the stream, unlinks none.
LEMMA AddKeepsRing ==
  ASSUME ListType, Ring, NEW s \in Streams, SchedAdd(s)
  PROVE  /\ ListType' /\ Ring'
         /\ scheduled'[s]
         /\ \A t \in Streams : scheduled[t] => scheduled'[t]
<1> USE StreamsAssumption
<1>1. CASE scheduled[s]
  <2>1. UNCHANGED <<sched_head, sched_next, sched_prev, scheduled>>
    BY <1>1 DEF SchedAdd, listVars
  <2>2. \A n, q : RingOrder(n, q) => RingOrder(n, q)'
    BY <2>1 DEF RingOrder
  <2> QED BY <1>1, <2>1, <2>2 DEF ListType, Ring
<1>2. CASE ~scheduled[s]
  <2>0. PICK n \in Nat : \E q \in [1..n -> Streams] : RingOrder(n, q)
    BY DEF Ring
  <2>1. PICK q \in [1..n -> Streams] : RingOrder(n, q)
    BY <2>0
  <2> DEFINE r == [i \in 1..(n+1) |-> IF i = n + 1 THEN s ELSE q[i]]
  <2>2. r \in [1..(n+1) -> Streams]
    OBVIOUS
  <2>3. \A i \in 1..n : q[i] # s
    BY <1>2, <2>1 DEF RingOrder
  <2>4. CASE n = 0
    <3>1. /\ scheduled' = [scheduled EXCEPT ![s] = TRUE]
          /\ sched_next' = [sched_next EXCEPT ![s] = s]
          /\ sched_prev' = [sched_prev EXCEPT ![s] = s]
          /\ sched_head' = s
      BY <1>2, <2>1, <2>4 DEF SchedAdd, RingOrder
    <3>2. ListType'
      BY <3>1 DEF ListType, Pointer
    <3>3. RingOrder(1, [i \in 1..1 |-> s])'
      BY <2>1, <2>4, <3>1 DEF RingOrder, ListType
    <3>4. Ring'
      BY <3>3 DEF Ring
    <3> QED BY <3>1, <3>2, <3>4 DEF ListType
  <2>5. CASE n > 0
    <3>1. /\ sched_head = q[1] /\ sched_prev[sched_head] = q[n]
          /\ q[1] \in Streams /\ q[n] \in Streams
      BY <2>1, <2>5 DEF RingOrder
    <3>2. /\ scheduled' = [scheduled EXCEPT ![s] = TRUE]
          /\ sched_next' = [[sched_next EXCEPT ![s] = q[1]] EXCEPT ![q[n]] = s]
          /\ sched_prev' = [[sched_prev EXCEPT ![s] = q[n]] EXCEPT ![q[1]] = s]
          /\ sched_head' = q[1]
      BY <1>2, <3>1, StreamsAssumption DEF SchedAdd
    <3>3. ListType'
      BY <3>1, <3>2 DEF ListType, Pointer
    <3>4. /\ \A t \in Streams : scheduled'[t] <=> (t = s \/ scheduled[t])
          /\ \A t \in Streams : sched_next'[t] =
                IF t = q[n] THEN s ELSE IF t = s THEN q[1] ELSE sched_next[t]
          /\ \A t \in Streams : sched_prev'[t] =
                IF t = q[1] THEN s ELSE IF t = s THEN q[n] ELSE sched_prev[t]
      BY <3>1, <3>2 DEF ListType
    <3> HIDE DEF r
    <3>5. /\ \A i \in 1..n : r[i] = q[i] /\ r[i] # s
          /\ r[n+1] = s
      BY <2>3 DEF r
    <3>6. sched_head' = IF n + 1 = 0 THEN Null ELSE r[1]
      BY <2>5, <3>2, <3>5
    <3>7. \A i, j \in 1..(n+1) : r[i] = r[j] => i = j
      <4>1. \A i, j \in 1..n : q[i] = q[j] => i = j
        BY <2>1 DEF RingOrder
      <4> QED BY <3>5, <4>1
    <3>8. ASSUME NEW i \in 1..(n+1)
          PROVE  /\ scheduled'[r[i]]
                 /\ sched_next'[r[i]] = r[IF i = n + 1 THEN 1 ELSE i + 1]
                 /\ sched_prev'[r[i]] = r[IF i = 1 THEN n + 1 ELSE i - 1]
      <4>1. CASE i = n + 1
        BY <2>5, <3>1, <3>4, <3>5, <4>1
      <4>2. CASE i \in 1..n
        <5>1. /\ r[i] = q[i] /\ q[i] \in Streams /\ q[i] # s
              /\ i = n <=> q[i] = q[n]
              /\ i = 1 <=> q[i] = q[1]
          BY <2>1, <2>5, <3>5, <4>2 DEF RingOrder
        <5>2. /\ scheduled[q[i]]
              /\ sched_next[q[i]] = q[IF i = n THEN 1 ELSE i + 1]
              /\ sched_prev[q[i]] = q[IF i = 1 THEN n ELSE i - 1]
          BY <2>1, <4>2 DEF RingOrder
        <5>3. sched_next'[q[i]] = r[i + 1]
          BY <3>4, <3>5, <4>2, <5>1, <5>2
        <5>4. sched_prev'[q[i]] = r[IF i = 1 THEN n + 1 ELSE i - 1]
          BY <3>4, <3>5, <4>2, <5>1, <5>2
        <5> QED BY <3>4, <4>2, <5>1, <5>2, <5>3, <5>4
      <4> QED BY <4>1, <4>2
    <3>9. ASSUME NEW t \in Streams, ~\E i \in 1..(n+1) : r[i] = t
          PROVE  ~scheduled'[t] /\ sched_next'[t] = Null /\ sched_prev'[t] = Null
      <4>1. t # s /\ ~\E i \in 1..n : q[i] = t
        BY <3>5, <3>9
      <4>2. t # q[1] /\ t # q[n]
        BY <2>5, <4>1
      <4> QED BY <2>1, <3>4, <4>1, <4>2 DEF RingOrder
    <3>10. RingOrder(n + 1, r)'
      BY <3>6, <3>7, <3>8, <3>9 DEF RingOrder
    <3>11. Ring'
      BY <2>2, <3>10 DEF Ring
    <3> QED BY <3>3, <3>4, <3>11
  <2> QED BY <2>4, <2>5
<1> QED BY <1>1, <1>2

\* nxp_sched_next on a non-empty list keeps it one ring, and unlinks at most
\* the stream at the head, when that stream has no work.
LEMMA NextKeepsRing ==
  ASSUME ListType, Ring, sched_head # Null, SchedNext
  PROVE  /\ ListType' /\ Ring'
         /\ \A t \in Streams : scheduled[t] /\ ~scheduled'[t] => ~HasWork(t)
<1> USE StreamsAssumption
<1>1. PICK n \in Nat : \E q \in [1..n -> Streams] : RingOrder(n, q)
  BY DEF Ring
<1>2. PICK q \in [1..n -> Streams] : RingOrder(n, q)
  BY <1>1
<1>3. /\ n > 0 /\ sched_head = q[1]
      /\ q[1] \in Streams /\ scheduled[q[1]]
      /\ sched_next[q[1]] = q[IF n = 1 THEN 1 ELSE 2]
      /\ sched_prev[q[1]] = q[n] /\ q[n] \in Streams
  BY <1>2 DEF RingOrder
<1>4. CASE HasWork(q[1])
  <2> DEFINE r == [i \in 1..n |-> IF i = n THEN q[1] ELSE q[i+1]]
  <2>1. /\ sched_head' = sched_next[q[1]]
        /\ UNCHANGED <<sched_next, sched_prev, scheduled>>
    BY <1>3, <1>4 DEF SchedNext
  <2>2. ListType'
    BY <1>3, <2>1 DEF ListType, Pointer
  <2>3. r \in [1..n -> Streams]
    BY <1>3
  <2>4. /\ \A i \in 1..n : i # n => r[i] = q[i+1]
        /\ r[n] = q[1]
    BY <1>3
  <2> HIDE DEF r
  <2>5. sched_head' = IF n = 0 THEN Null ELSE r[1]
    BY <1>3, <2>1, <2>4
  <2>6. \A i, j \in 1..n : r[i] = r[j] => i = j
    <3>1. \A i, j \in 1..n : q[i] = q[j] => i = j
      BY <1>2 DEF RingOrder
    <3> QED BY <1>3, <2>4, <3>1
  <2>7. ASSUME NEW i \in 1..n
        PROVE  /\ scheduled'[r[i]]
               /\ sched_next'[r[i]] = r[IF i = n THEN 1 ELSE i + 1]
               /\ sched_prev'[r[i]] = r[IF i = 1 THEN n ELSE i - 1]
    <3>1. CASE i = n
      <4>1. sched_prev[q[1]] = r[IF n = 1 THEN n ELSE n - 1]
        BY <1>3, <2>4
      <4>2. sched_next[q[1]] = r[1]
        BY <1>3, <2>4
      <4> QED BY <1>3, <2>1, <2>4, <3>1, <4>1, <4>2
    <3>2. CASE i # n
      <4>1. /\ scheduled[q[i+1]]
            /\ sched_next[q[i+1]] = q[IF i + 1 = n THEN 1 ELSE i + 2]
            /\ sched_prev[q[i+1]] = q[i]
        BY <1>2, <3>2 DEF RingOrder
      <4> QED BY <1>3, <2>1, <2>4, <3>2, <4>1
    <3> QED BY <3>1, <3>2
  <2>8. ASSUME NEW t \in Streams, ~\E i \in 1..n : r[i] = t
        PROVE  ~scheduled'[t] /\ sched_next'[t] = Null /\ sched_prev'[t] = Null
    <3>1. ASSUME NEW i \in 1..n, q[i] = t
          PROVE  FALSE
      <4>1. CASE i = 1
        BY <1>3, <2>4, <2>8, <3>1, <4>1
      <4>2. CASE i # 1
        <5>1. i - 1 \in 1..n /\ i - 1 # n /\ r[i-1] = q[i]
          BY <2>4, <4>2
        <5> QED BY <2>8, <3>1, <5>1
      <4> QED BY <4>1, <4>2
    <3> QED BY <1>2, <2>1, <3>1 DEF RingOrder
  <2>9. RingOrder(n, r)'
    BY <2>5, <2>6, <2>7, <2>8 DEF RingOrder
  <2>10. Ring'
    BY <2>3, <2>9 DEF Ring
  <2> QED BY <2>1, <2>2, <2>10
<1>5. CASE ~HasWork(q[1]) /\ n = 1
  <2>1. /\ scheduled' = [scheduled EXCEPT ![q[1]] = FALSE]
        /\ sched_next' = [sched_next EXCEPT ![q[1]] = Null]
        /\ sched_prev' = [sched_prev EXCEPT ![q[1]] = Null]
        /\ sched_head' = Null
    BY <1>3, <1>5 DEF SchedNext, SchedRemove
  <2>2. ListType'
    BY <1>3, <2>1 DEF ListType, Pointer
  <2>3. \A t \in Streams : ~scheduled'[t] /\ sched_next'[t] = Null
                                          /\ sched_prev'[t] = Null
    BY <1>2, <1>3, <1>5, <2>1 DEF ListType, RingOrder
  <2>4. RingOrder(0, [i \in 1..0 |-> q[1]])'
    BY <2>1, <2>3 DEF RingOrder
  <2>5. Ring'
    BY <1>3, <2>4 DEF Ring
  <2> QED BY <1>3, <1>5, <2>1, <2>2, <2>5 DEF ListType
<1>6. CASE ~HasWork(q[1]) /\ n > 1
  <2> DEFINE r == [i \in 1..(n-1) |-> q[i+1]]
  <2>1. /\ q[2] # q[1] /\ q[n] # q[1] /\ q[2] \in Streams
        /\ sched_next[q[1]] = q[2]
    BY <1>2, <1>3, <1>6 DEF RingOrder
  <2>2. /\ scheduled' = [scheduled EXCEPT ![q[1]] = FALSE]
        /\ sched_next' = [[sched_next EXCEPT ![q[n]] = q[2]] EXCEPT ![q[1]] = Null]
        /\ sched_prev' = [[sched_prev EXCEPT ![q[2]] = q[n]] EXCEPT ![q[1]] = Null]
        /\ sched_head' = q[2]
    BY <1>3, <1>6, <2>1 DEF SchedNext, SchedRemove
  <2>3. ListType'
    BY <1>3, <2>1, <2>2 DEF ListType, Pointer
  <2>4. /\ \A t \in Streams : scheduled'[t] <=> (t # q[1] /\ scheduled[t])
        /\ \A t \in Streams : sched_next'[t] =
              IF t = q[1] THEN Null ELSE IF t = q[n] THEN q[2] ELSE sched_next[t]
        /\ \A t \in Streams : sched_prev'[t] =
              IF t = q[1] THEN Null ELSE IF t = q[2] THEN q[n] ELSE sched_prev[t]
    BY <1>3, <2>1, <2>2 DEF ListType
  <2>5. r \in [1..(n-1) -> Streams] /\ n - 1 \in Nat
    BY <1>6
  <2>6. \A i \in 1..(n-1) : r[i] = q[i+1] /\ i + 1 \in 1..n
    BY <1>6
  <2> HIDE DEF r
  <2>7. sched_head' = IF n - 1 = 0 THEN Null ELSE r[1]
    BY <1>6, <2>2, <2>6
  <2>8. \A i, j \in 1..n : q[i] = q[j] => i = j
    BY <1>2 DEF RingOrder
  <2>9. \A i, j \in 1..(n-1) : r[i] = r[j] => i = j
    BY <1>6, <2>6, <2>8
  <2>10. ASSUME NEW i \in 1..(n-1)
         PROVE  /\ scheduled'[r[i]]
                /\ sched_next'[r[i]] = r[IF i = n - 1 THEN 1 ELSE i + 1]
                /\ sched_prev'[r[i]] = r[IF i = 1 THEN n - 1 ELSE i - 1]
    <3>1. /\ scheduled[q[i+1]]
          /\ sched_next[q[i+1]] = q[IF i + 1 = n THEN 1 ELSE i + 2]
          /\ sched_prev[q[i+1]] = q[i]
          /\ q[i+1] \in Streams
      BY <1>2, <1>6 DEF RingOrder
    <3>2. /\ q[i+1] # q[1]
          /\ q[i+1] = q[n] <=> i = n - 1
          /\ q[i+1] = q[2] <=> i = 1
      BY <1>6, <2>8
    <3>3. sched_next'[q[i+1]] = r[IF i = n - 1 THEN 1 ELSE i + 1]
      BY <1>6, <2>4, <2>6, <3>1, <3>2
    <3>4. sched_prev'[q[i+1]] = r[IF i = 1 THEN n - 1 ELSE i - 1]
      BY <1>6, <2>4, <2>6, <3>1, <3>2
    <3> QED BY <2>4, <2>6, <3>1, <3>2, <3>3, <3>4
  <2>11. ASSUME NEW t \in Streams, ~\E i \in 1..(n-1) : r[i] = t
         PROVE  ~scheduled'[t] /\ sched_next'[t] = Null /\ sched_prev'[t] = Null
    <3>1. CASE t = q[1]
      BY <2>4, <3>1
    <3>2. CASE t # q[1]
      <4>1. ASSUME NEW i \in 1..n, q[i] = t
            PROVE  FALSE
        <5>1. i - 1 \in 1..(n-1) /\ r[i-1] = q[i]
          BY <1>6, <2>6, <3>2, <4>1
        <5> QED BY <2>11, <4>1, <5>1
      <4>2. t # q[n] /\ t # q[2]
        BY <1>6, <4>1
      <4> QED BY <1>2, <2>4, <3>2, <4>1, <4>2 DEF RingOrder
    <3> QED BY <3>1, <3>2
  <2>12. RingOrder(n - 1, r)'
    BY <2>7, <2>9, <2>10, <2>11 DEF RingOrder
  <2>13. Ring'
    BY <2>5, <2>12 DEF Ring
  <2> QED BY <1>6, <2>3, <2>4, <2>13
<1> QED BY <1>3, <1>4, <1>5, <1>6

\* Steps that do not touch the list keep it one ring.
LEMMA IdleKeepsRing ==
  ASSUME ListType, Ring, UNCHANGED listVars
  PROVE  ListType' /\ Ring'
<1>1. \A n, q : RingOrder(n, q) => RingOrder(n, q)'
  BY DEF listVars, RingOrder
<1> QED BY <1>1 DEF listVars, ListType, Ring

IInv == TypeOK /\ Ring /\ DataIsScheduled

\* What every step of the specification does to the list.
LEMMA StepShape ==
  ASSUME IInv, Next
  PROVE  /\ ListType' /\ Ring'
         /\ \A t \in Streams : scheduled[t] /\ ~scheduled'[t] => ~HasWork(t)
<1>0. ListType /\ Ring
  BY DEF IInv, TypeOK, ListType
<1>1. ASSUME NEW s \in Streams, SchedAdd(s)
      PROVE  /\ ListType' /\ Ring'
             /\ \A t \in Streams : scheduled[t] /\ ~scheduled'[t] => ~HasWork(t)
  BY <1>0, <1>1, AddKeepsRing
<1>2. ASSUME UNCHANGED listVars
      PROVE  /\ ListType' /\ Ring'
             /\ \A t \in Streams : scheduled[t] /\ ~scheduled'[t] => ~HasWork(t)
  BY <1>0, <1>2, IdleKeepsRing DEF listVars
<1>3. ASSUME sched_head # Null, SchedNext
      PROVE  /\ ListType' /\ Ring'
             /\ \A t \in Streams : scheduled[t] /\ ~scheduled'[t] => ~HasWork(t)
  BY <1>0, <1>3, NextKeepsRing
<1>4. \/ \E s \in Streams : SchedAdd(s)
      \/ UNCHANGED listVars
      \/ sched_head # Null /\ SchedNext
  BY DEF Next, SendStep, StreamSend, StreamSendFinOnly, PacketLost, MaxStreamData,
         BeginSend, FillFrame, BreakLoop, RateBlocked, SkipIdle, LoopExit,
         FinishSend, Iterating
<1> QED BY <1>1, <1>2, <1>3, <1>4

\* The part of TypeOK that is not about the list.
SendType ==
  /\ unsent \in [Streams -> BOOLEAN]
  /\ fin \in [Streams -> BOOLEAN]
  /\ fin_sent \in [Streams -> BOOLEAN]
  /\ outstanding \in [Streams -> BOOLEAN]
  /\ budget \in [Streams -> BOOLEAN]
  /\ window \in BOOLEAN
  /\ pc \in {"idle", "loop", "finish"}
  /\ frames \in 0..MaxFrames
  /\ control \in BOOLEAN

\* Every step keeps the types of what the streams send.
LEMMA SendTypeStep ==
  ASSUME IInv, Next
  PROVE  SendType'
<1> USE MaxFramesAssumption, StreamsAssumption
<1>0. SendType /\ sched_head \in Pointer
  BY DEF IInv, TypeOK, SendType
<1>a. 0 \in 0..MaxFrames
  OBVIOUS
<1>1. ASSUME NEW s \in Streams, NEW f \in BOOLEAN, StreamSend(s, f)
      PROVE  SendType'
  BY <1>0, <1>1 DEF StreamSend, SendType, limitVars, sendVars
<1>2. ASSUME NEW s \in Streams, StreamSendFinOnly(s)
      PROVE  SendType'
  BY <1>0, <1>2 DEF StreamSendFinOnly, SendType, limitVars, sendVars
<1>3. ASSUME NEW s \in Streams, NEW data \in BOOLEAN, NEW f \in BOOLEAN,
             PacketLost(s, data, f)
      PROVE  SendType'
  <2>1. unsent' \in [Streams -> BOOLEAN]
    BY <1>0, <1>3 DEF PacketLost, SendType
  <2>2. fin_sent' \in [Streams -> BOOLEAN]
    BY <1>0, <1>3 DEF PacketLost, SendType
  <2>3. outstanding' \in [Streams -> BOOLEAN]
    BY <1>0, <1>3 DEF PacketLost, SendType
  <2> QED BY <1>0, <1>3, <2>1, <2>2, <2>3 DEF PacketLost, SendType, limitVars, sendVars
<1>4. ASSUME NEW s \in Streams, MaxStreamData(s)
      PROVE  SendType'
  BY <1>0, <1>4 DEF MaxStreamData, SendType, streamVars, limitVars, sendVars
<1>5. ASSUME NEW ctl \in BOOLEAN, NEW cc_allows \in BOOLEAN, BeginSend(ctl, cc_allows)
      PROVE  SendType'
  <2>1. budget' \in [Streams -> BOOLEAN] /\ window' \in BOOLEAN
    BY <1>0, <1>5 DEF BeginSend, SendType
  <2>2. pc' \in {"idle", "loop", "finish"} /\ control' \in BOOLEAN /\ frames' = 0
    BY <1>5 DEF BeginSend
  <2> QED BY <1>0, <1>a, <1>5, <2>1, <2>2 DEF BeginSend, SendType, streamVars
<1>6. ASSUME NEW all \in BOOLEAN, NEW full \in BOOLEAN, NEW win \in BOOLEAN,
             FillFrame(all, full, win)
      PROVE  SendType'
  <2>1. sched_head \in Streams /\ frames < MaxFrames
    BY <1>0, <1>6 DEF FillFrame, Iterating, Pointer
  <2>2. unsent' \in [Streams -> BOOLEAN]
    BY <1>0, <1>6, <2>1 DEF FillFrame, SendType
  <2>3. fin_sent' \in [Streams -> BOOLEAN]
    BY <1>0, <1>6, <2>1 DEF FillFrame, SendType
  <2>4. outstanding' \in [Streams -> BOOLEAN] /\ budget' \in [Streams -> BOOLEAN]
    BY <1>0, <1>6, <2>1 DEF FillFrame, SendType
  <2>5. frames' \in 0..MaxFrames
    BY <1>0, <1>6, <2>1 DEF FillFrame, SendType
  <2>6. pc' \in {"idle", "loop", "finish"} /\ window' \in BOOLEAN
    BY <1>6 DEF FillFrame
  <2> QED BY <1>0, <1>6, <2>2, <2>3, <2>4, <2>5, <2>6 DEF FillFrame, SendType
<1>7. CASE BreakLoop
  BY <1>0, <1>7 DEF BreakLoop, SendType, streamVars, limitVars
<1>8. CASE RateBlocked \/ SkipIdle
  BY <1>0, <1>8 DEF RateBlocked, SkipIdle, SendType, streamVars, limitVars, sendVars
<1>9. CASE LoopExit
  BY <1>0, <1>9 DEF LoopExit, SendType, streamVars, limitVars
<1>10. CASE FinishSend
  <2>1. pc' = "idle" /\ frames' = 0 /\ control' = FALSE
    BY <1>10 DEF FinishSend
  <2> QED BY <1>0, <1>a, <1>10, <2>1 DEF FinishSend, SendType, streamVars, limitVars
<1> QED BY <1>1, <1>2, <1>3, <1>4, <1>5, <1>6, <1>7, <1>8, <1>9, <1>10
    DEF Next, SendStep

\* Every step keeps the scheduled streams those that have data.
LEMMA DataStep ==
  ASSUME IInv, Next
  PROVE  DataIsScheduled'
<1>0. /\ ListType /\ Ring /\ DataIsScheduled
      /\ unsent \in [Streams -> BOOLEAN]
  BY DEF IInv, TypeOK, ListType
<1>1. \A t \in Streams : scheduled[t] /\ ~scheduled'[t] => ~HasWork(t)
  BY StepShape
<1>2. CASE UNCHANGED unsent
  BY <1>0, <1>1, <1>2 DEF DataIsScheduled, HasWork
<1>3. ASSUME NEW s \in Streams, SchedAdd(s),
             \A t \in Streams : unsent'[t] => unsent[t] \/ t = s
      PROVE  DataIsScheduled'
  BY <1>0, <1>3, AddKeepsRing DEF DataIsScheduled
<1>4. ASSUME NEW s \in Streams, NEW f \in BOOLEAN, StreamSend(s, f)
      PROVE  DataIsScheduled'
  BY <1>0, <1>3, <1>4 DEF StreamSend
<1>5. ASSUME NEW s \in Streams, NEW data \in BOOLEAN, NEW f \in BOOLEAN,
             PacketLost(s, data, f)
      PROVE  DataIsScheduled'
  BY <1>0, <1>3, <1>5 DEF PacketLost
<1>6. ASSUME NEW all \in BOOLEAN, NEW full \in BOOLEAN, NEW win \in BOOLEAN,
             FillFrame(all, full, win)
      PROVE  DataIsScheduled'
  <2>1. /\ sched_head \in Streams /\ HasWork(sched_head)
        /\ unsent' = [unsent EXCEPT ![sched_head] = ~all]
        /\ ~all => unsent[sched_head]
    BY <1>0, <1>6 DEF FillFrame, Iterating, ListType, Pointer
  <2>2. \A t \in Streams : unsent'[t] => unsent[t]
    BY <1>0, <2>1
  <2> QED BY <1>0, <1>1, <2>2 DEF DataIsScheduled, HasWork
<1>7. \/ UNCHANGED unsent
      \/ \E s \in Streams, f \in BOOLEAN : StreamSend(s, f)
      \/ \E s \in Streams, data, f \in BOOLEAN : PacketLost(s, data, f)
      \/ \E all, full, win \in BOOLEAN : FillFrame(all, full, win)
  BY DEF Next, SendStep, StreamSendFinOnly, MaxStreamData, BeginSend, BreakLoop,
         RateBlocked, SkipIdle, LoopExit, FinishSend, streamVars
<1> QED BY <1>2, <1>4, <1>5, <1>6, <1>7

\* The type invariant splits into that of the ring and that of the streams.
LEMMA TypeParts == TypeOK <=> ListType /\ SendType
BY DEF TypeOK, ListType, SendType

\* The invariant holds for ever.
LEMMA Inductive == Spec => []IInv
<1>1. Init => IInv
  <2> SUFFICES ASSUME Init PROVE IInv
    OBVIOUS
  <2>1. TypeOK
    <3>1. frames \in 0..MaxFrames
      BY MaxFramesAssumption DEF Init
    <3> QED BY <3>1 DEF Init, TypeOK, Pointer
  <2>2. RingOrder(0, [i \in 1..0 |-> Null])
    BY DEF Init, RingOrder
  <2>3. [i \in 1..0 |-> Null] \in [1..0 -> Streams]
    OBVIOUS
  <2>4. Ring
    BY <2>2, <2>3 DEF Ring
  <2> QED BY <2>1, <2>4 DEF IInv, DataIsScheduled, Init
<1>2. IInv /\ [Next]_vars => IInv'
  <2> SUFFICES ASSUME IInv, [Next]_vars PROVE IInv'
    OBVIOUS
  <2>1. CASE Next
    BY <2>1, StepShape, SendTypeStep, DataStep, TypeParts DEF IInv, TypeOK, ListType, SendType
  <2>2. CASE UNCHANGED vars
    <3>1. ListType' /\ Ring'
      BY <2>2, IdleKeepsRing, TypeParts DEF IInv, vars
    <3> QED BY <2>2, <3>1
         DEF IInv, vars, listVars, streamVars, limitVars, sendVars, TypeOK,
             ListType, DataIsScheduled
  <2> QED BY <2>1, <2>2
<1> QED BY <1>1, <1>2, PTL DEF Spec

\* Every reachable state of the scheduler is well typed.
THEOREM TypeCorrect == Spec => []TypeOK
<1>1. IInv => TypeOK
  BY DEF IInv
<1> QED BY <1>1, Inductive, PTL

\* The scheduler's list (nxp_sched_add, nxp_sched_remove, nxp_sched_next) is
\* one ring over exactly the scheduled streams, for any number of streams.
THEOREM RingCorrect == Spec => []OneRing
<1>1. ASSUME IInv PROVE OneRing
  <2>1. PICK n \in Nat : \E q \in [1..n -> Streams] : RingOrder(n, q)
    BY <1>1 DEF IInv, Ring
  <2>2. PICK q \in [1..n -> Streams] : RingOrder(n, q)
    BY <2>1
  <2>3. q \in Bijection(1..n, Linked)
    <3>1. q \in [1..n -> Linked]
      BY <2>2 DEF RingOrder, Linked
    <3>2. IsInjective(q)
      BY <2>2 DEF RingOrder, IsInjective
    <3>3. \A s \in Linked : \E i \in 1..n : q[i] = s
      BY <2>2 DEF RingOrder, Linked
    <3> QED BY <3>1, <3>2, <3>3 DEF Bijection, Injection, Surjection
  <2>4. Cardinality(Linked) = n
    BY <2>3, FS_CountingElements DEF ExistsBijection
  <2> QED BY <2>2, <2>4 DEF OneRing
<1> QED BY <1>1, Inductive, PTL

\* A stream with unsent bytes is always in the list nxp_conn_send walks.
THEOREM DataStaysScheduled == Spec => []DataIsScheduled
<1>1. IInv => DataIsScheduled
  BY DEF IInv
<1> QED BY <1>1, Inductive, PTL

\* No step unlinks a stream that has unsent bytes or an unsent FIN.
THEOREM WorkIsNeverDropped == Spec => NeverDropsWork
<1>1. IInv /\ [Next]_vars =>
        [\A s \in Streams : scheduled[s] /\ ~scheduled'[s] => ~HasWork(s)]_vars
  BY StepShape
<1> QED BY <1>1, Inductive, PTL DEF Spec, NeverDropsWork
=============================================================================
