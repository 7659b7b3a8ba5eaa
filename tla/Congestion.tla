----------------------------- MODULE Congestion ------------------------------
(* The send side's control loop: sent packets, RTT and loss detection          *)
(* (core/ack.c), the delivery rate samples (congestion/delivery_rate.c) and    *)
(* BBR (congestion/bbr.c), joined as core/connection.c joins them.  The peer   *)
(* acknowledges any set of packets, at any time, in any order.  Which stream   *)
(* frames a packet carries is Transfer's concern.  pacing_rate and             *)
(* send_quantum, computed from btl_bw and read by the pacer, are left out.     *)
EXTENDS WindowedFilter, Sequences, FiniteSets, SequencesExt

CONSTANTS
  Second,         \* microseconds in a second
  Mds,            \* NXP_BBR_MAX_DATAGRAM_SIZE
  InitPkts,       \* packets of the initial window (10)
  MinPkts,        \* packets of NXP_BBR_MIN_CWND and of the ProbeRTT window (4)
  FullCount,      \* NXP_BBR_STARTUP_FULL_LOSS_COUNT
  Phases,         \* NXP_BBR_PROBE_BW_PHASES
  RtpropWindow,   \* NXP_BBR_RTPROP_WINDOW_US
  ProbeDuration,  \* NXP_BBR_PROBE_RTT_DURATION_US
  InitialRtt,     \* INITIAL_RTT_US
  MaxAckDelay,    \* NXP_ACK_DELAY_US
  Millisecond,    \* 1000 us
  Reorder,        \* NXP_PACKET_REORDER_THRESH
  AckDelays,      \* delays the peer reports
  AckOnly,        \* packets sent when only an ACK frame is pending
  Drained,        \* packets after which the scheduler is empty
  Start,          \* what the monotonic clock shows when the connection starts
  MaxElapsed, MaxPackets, MaxProbes   \* bounds

VARIABLES clock, sent, ack, dr, bbr, send_ping, next_pkt_num, bytes_sent

cc_vars == <<clock, sent, ack, dr, bbr, send_ping, next_pkt_num, bytes_sent>>

\* UINT64_MAX, and what a subtraction below zero yields: above every bound.
Inf == 10000
Minus(a, b) == IF a >= b THEN a - b ELSE Inf
Larger(a, b) == IF a > b THEN a ELSE b
Smaller(a, b) == IF a < b THEN a ELSE b

-----------------------------------------------------------------------------
(* delivery_rate.c *)

nxp_dr_init == [delivered |-> 0, delivered_time |-> 0, first_sent_time |-> 0,
  next_round_delivered |-> 0, round_count |-> 0, round_start |-> FALSE,
  rate_sample |-> 0, rate_is_app_limited |-> FALSE,
  app_limited |-> FALSE, app_limited_at |-> 0]

\* The snapshot stored with the packet, and the state after it.
nxp_dr_on_packet_sent(d, now) ==
  LET first == d.first_sent_time = 0
      from == IF first THEN now ELSE d.first_sent_time
      at == IF first THEN now ELSE d.delivered_time
  IN  [snap |-> [delivered |-> d.delivered, delivered_time |-> at,
                 first_sent_time |-> from, is_app_limited |-> d.app_limited],
       dr |-> [d EXCEPT !.first_sent_time = now, !.delivered_time = at]]

nxp_dr_set_app_limited(d) ==
  [d EXCEPT !.app_limited = TRUE, !.app_limited_at = d.delivered]

nxp_dr_on_packet_acked(d, snap, bytes, now) ==
  LET delivered == d.delivered + bytes
      round == snap.delivered >= d.next_round_delivered
      next == IF round THEN delivered ELSE d.next_round_delivered
      delta == delivered - snap.delivered
      interval == Larger(Larger(d.first_sent_time - snap.first_sent_time, 0),
                         Larger(now - snap.delivered_time, 0))
      counted == [d EXCEPT !.delivered = delivered, !.delivered_time = now,
                    !.next_round_delivered = next, !.round_start = round,
                    !.round_count = @ + IF round THEN 1 ELSE 0]
  IN  IF interval = 0 \/ delta = 0
      THEN [counted EXCEPT !.round_start = snap.delivered >= Minus(next, bytes)]
      ELSE [counted EXCEPT !.rate_is_app_limited = snap.is_app_limited,
              !.rate_sample = (delta * Second) \div interval,
              !.app_limited = @ /\ delivered <= d.app_limited_at]

-----------------------------------------------------------------------------
(* bbr.c *)

MinCwnd == MinPkts * Mds

StartupPacing == <<277, 100>>
DrainPacing == <<100, 277>>
DoubleCwnd == <<200, 100>>     \* of startup and of ProbeBW
Unit == <<100, 100>>
\* The gain cycle: up, down, then cruise.
probe_bw_gain(i) == CASE i = 0 -> <<125, 100>> [] i = 1 -> <<75, 100>> [] OTHER -> Unit

apply_gain(v, g) == (v * g[1]) \div g[2]

bbr_bdp(b) ==
  IF b.btl_bw = 0 \/ b.rt_prop = 0 THEN MinCwnd
  ELSE Larger((b.btl_bw * b.rt_prop) \div Second, MinCwnd)

nxp_bbr_init_state == [state |-> "STARTUP", bw_filter |-> nxp_wf_init, btl_bw |-> 0,
  rt_prop |-> 0, rt_prop_stamp |-> 0, rt_prop_expired |-> FALSE,
  cwnd |-> InitPkts * Mds, prior_cwnd |-> 0,
  pacing_gain |-> StartupPacing, cwnd_gain |-> DoubleCwnd,
  cycle_index |-> 0, cycle_stamp |-> 0,
  filled_pipe |-> FALSE, full_bw |-> 0, full_bw_count |-> 0,
  probe_rtt_done |-> FALSE, probe_rtt_done_stamp |-> 0,
  round_start |-> FALSE, app_limited |-> FALSE,
  bytes_in_flight |-> 0, loss_in_round |-> 0]

nxp_bbr_update_model(b, info) ==
  LET r == [b EXCEPT !.round_start = info.dr.round_start,
                     !.app_limited = info.dr.rate_is_app_limited]
      rate == info.dr.rate_sample
      fed == IF ~r.app_limited \/ rate > nxp_wf_get(r.bw_filter)
             THEN nxp_wf_update(r.bw_filter, rate, info.dr.round_count) ELSE r.bw_filter
      m == IF rate > 0 THEN [r EXCEPT !.bw_filter = fed, !.btl_bw = nxp_wf_get(fed)] ELSE r
      expired == Minus(info.now, m.rt_prop_stamp) > RtpropWindow
      t == IF info.rtt <= m.rt_prop \/ m.rt_prop = 0 \/ expired
           THEN [m EXCEPT !.rt_prop = info.rtt, !.rt_prop_stamp = info.now] ELSE m
  IN  IF info.rtt > 0 THEN [t EXCEPT !.rt_prop_expired = expired] ELSE m

nxp_bbr_check_startup_done(b) ==
  LET count == b.full_bw_count + 1
  IN  IF b.state # "STARTUP" \/ b.filled_pipe \/ ~b.round_start THEN b
      ELSE IF b.btl_bw >= apply_gain(b.full_bw, <<125, 100>>)
        THEN [b EXCEPT !.full_bw = b.btl_bw, !.full_bw_count = 0]
      ELSE IF count < FullCount THEN [b EXCEPT !.full_bw_count = count]
      ELSE [b EXCEPT !.full_bw_count = count, !.filled_pipe = TRUE,
                     !.state = "DRAIN", !.pacing_gain = DrainPacing]

nxp_bbr_check_drain_done(b) ==
  IF b.state = "DRAIN" /\ b.bytes_in_flight <= bbr_bdp(b)
  THEN [b EXCEPT !.state = "PROBE_BW", !.cycle_index = 0,
                 !.pacing_gain = probe_bw_gain(0), !.cwnd_gain = DoubleCwnd]
  ELSE b

nxp_bbr_update_probe_bw(b, now) ==
  LET i == (b.cycle_index + 1) % Phases
  IN  IF b.state = "PROBE_BW" /\ b.rt_prop > 0 /\ Minus(now, b.cycle_stamp) >= b.rt_prop
      THEN [b EXCEPT !.cycle_index = i, !.cycle_stamp = now,
                     !.pacing_gain = probe_bw_gain(i)]
      ELSE b

\* Startup is resumed even though the pipe was found full.
RestoredToStartup(b, now) ==
  [b EXCEPT !.rt_prop_expired = FALSE, !.cwnd = Larger(b.prior_cwnd, MinCwnd),
            !.cwnd_gain = DoubleCwnd, !.state = "STARTUP", !.pacing_gain = StartupPacing]

\* After ProbeRTT: the window it had before, ProbeBW or what is left of startup.
Restored(b, now) ==
  LET w == [b EXCEPT !.rt_prop_expired = FALSE,
                     !.cwnd = Larger(b.prior_cwnd, MinCwnd), !.cwnd_gain = DoubleCwnd]
  IN  IF b.filled_pipe
      THEN [w EXCEPT !.state = "PROBE_BW", !.cycle_index = 0, !.cycle_stamp = now,
                     !.pacing_gain = probe_bw_gain(0)]
      ELSE [w EXCEPT !.state = "STARTUP", !.pacing_gain = StartupPacing]

nxp_bbr_check_probe_rtt(b, now) ==
  LET entered ==
        IF b.state # "PROBE_RTT" /\ b.rt_prop_expired /\ ~b.app_limited
        THEN [b EXCEPT !.prior_cwnd = b.cwnd, !.state = "PROBE_RTT",
                       !.pacing_gain = Unit, !.probe_rtt_done = FALSE]
        ELSE b
      p == [entered EXCEPT !.cwnd = Smaller(@, MinCwnd)]
      d == IF p.probe_rtt_done THEN p
           ELSE [p EXCEPT !.probe_rtt_done = TRUE, !.probe_rtt_done_stamp = now]
  IN  IF entered.state # "PROBE_RTT" THEN b
      ELSE IF p.bytes_in_flight > MinCwnd THEN p
      ELSE IF Minus(now, d.probe_rtt_done_stamp) >= ProbeDuration THEN Restored(d, now)
      ELSE d

nxp_bbr_update_control(b) ==
  LET target == Larger(apply_gain(bbr_bdp(b), b.cwnd_gain), MinCwnd)
      grown == Larger(b.cwnd, target)
  IN  IF b.state = "PROBE_RTT" THEN b
      ELSE [b EXCEPT !.cwnd = IF b.filled_pipe /\ grown > 2 * target THEN target ELSE grown]

bbr_on_sent(b, flight) == [b EXCEPT !.bytes_in_flight = flight]

bbr_on_ack(b, info) ==
  LET m == nxp_bbr_update_model([b EXCEPT !.bytes_in_flight = info.flight], info)
      d == nxp_bbr_check_drain_done(nxp_bbr_check_startup_done(m))
      p == nxp_bbr_check_probe_rtt(nxp_bbr_update_probe_bw(d, info.now), info.now)
  IN  nxp_bbr_update_control(p)

bbr_on_loss(b, bytes, flight) ==
  LET l == [b EXCEPT !.bytes_in_flight = flight, !.loss_in_round = @ + bytes]
  IN  IF l.state = "STARTUP" /\ ~l.filled_pipe /\ flight > 0 /\ l.loss_in_round > flight \div 5
      THEN [l EXCEPT !.filled_pipe = TRUE, !.state = "DRAIN", !.pacing_gain = DrainPacing]
      ELSE l

-----------------------------------------------------------------------------
(* ack.c: what was sent *)

nxp_ack_init == [flight |-> 0, latest_rtt |-> 0, min_rtt |-> Inf,
  smoothed_rtt |-> InitialRtt, rtt_var |-> InitialRtt \div 2, has_rtt |-> FALSE,
  loss_time |-> Inf, last_eliciting |-> 0, pto_count |-> 0]

compute_pto(a) ==
  (IF a.has_rtt THEN a.smoothed_rtt + Larger(4 * a.rtt_var, Millisecond)
   ELSE InitialRtt + Larger(4 * (InitialRtt \div 2), Millisecond)) + MaxAckDelay

nxp_ack_loss_timeout(a) ==
  IF a.loss_time # Inf THEN a.loss_time
  ELSE IF a.flight = 0 THEN Inf
  ELSE a.last_eliciting + compute_pto(a) * 2^a.pto_count

\* Delay subtracted unless that goes below the least RTT seen.
Adjusted(rtt, delay, min) == IF rtt > delay /\ rtt - delay >= min THEN rtt - delay ELSE rtt

update_rtt(a, rtt, ack_delay) ==
  LET min == Smaller(a.min_rtt, rtt)
      adj == Adjusted(rtt, Smaller(ack_delay, MaxAckDelay), min)
      diff == Larger(a.smoothed_rtt - adj, adj - a.smoothed_rtt)
      m == [a EXCEPT !.latest_rtt = rtt, !.min_rtt = min, !.has_rtt = TRUE]
  IN  IF ~a.has_rtt
      THEN [m EXCEPT !.smoothed_rtt = rtt, !.rtt_var = rtt \div 2]
      ELSE [m EXCEPT !.rtt_var = (3 * @ + diff) \div 4,
                     !.smoothed_rtt = (7 * @ + adj) \div 8]

Landed(a, p) == [a EXCEPT !.flight = IF p.in_flight /\ @ >= p.bytes THEN @ - p.bytes ELSE @]

\* on_packet_acked of connection.c, after the packet left bytes_in_flight.  Its
\* now is a guess: sent_time plus the RTT measured by an earlier ACK frame.
on_packet_acked(c, p) ==
  LET now == p.sent_time + c.ack.latest_rtt
      a == Landed(c.ack, p)
      d == nxp_dr_on_packet_acked(c.dr, p.dr_state, p.bytes, now)
  IN  [ack |-> a, dr |-> d,
       bbr |-> bbr_on_ack(c.bbr, [now |-> now, rtt |-> a.latest_rtt,
                                  flight |-> a.flight, dr |-> d])]

on_packet_lost(c, p) ==
  LET a == Landed(c.ack, p)
  IN  [c EXCEPT !.ack = a, !.bbr = bbr_on_loss(c.bbr, p.bytes, a.flight)]

\* Lost packets, and the earliest deadline of those that may become lost.
LossDelay(a) == Larger((Larger(a.smoothed_rtt, a.latest_rtt) * 9) \div 8, Millisecond)
Lost(p, delay, largest) ==
  p.pkt_num <= largest /\ (p.pkt_num + Reorder <= largest \/ p.sent_time + delay <= clock)
Earliest(times, otherwise) ==
  IF times = {} THEN otherwise ELSE CHOOSE t \in times : \A u \in times : t <= u

\* Callers pass the sent list; the result adds what is left of it.
detect_lost_packets(c, list, largest) ==
  LET delay == LossDelay(c.ack)
      Gone(p) == Lost(p, delay, largest)
      Kept(p) == ~Gone(p)
      waiting == {list[i].sent_time + delay :
                    i \in {j \in DOMAIN list : list[j].pkt_num <= largest /\ Kept(list[j])}}
      after == FoldLeft(on_packet_lost, c, SelectSeq(list, Gone))
  IN  [ack |-> [after.ack EXCEPT !.loss_time = Earliest(waiting, Inf)],
       dr |-> after.dr, bbr |-> after.bbr, sent |-> SelectSeq(list, Kept)]

\* Acknowledged packets stay in the list while lost packets are looked for.
ack_recv_late_removal(S, ack_delay) ==
  LET largest == CHOOSE n \in S : \A m \in S : m <= n
      Acked(p) == p.pkt_num \in S
      c == FoldLeft(on_packet_acked, [ack |-> ack, dr |-> dr, bbr |-> bbr], SelectSeq(sent, Acked))
  IN  detect_lost_packets([c EXCEPT !.ack.pto_count = 0], sent, largest)

nxp_ack_on_ack_recv(S, ack_delay) ==
  LET largest == CHOOSE n \in S : \A m \in S : m <= n
      Acked(p) == p.pkt_num \in S
      Kept(p) == p.pkt_num \notin S
      acked == SelectSeq(sent, Acked)
      c == FoldLeft(on_packet_acked, [ack |-> ack, dr |-> dr, bbr |-> bbr], acked)
      sample == {i \in DOMAIN acked : acked[i].pkt_num = largest /\ acked[i].in_flight}
      a == IF sample = {} THEN c.ack
           ELSE update_rtt(c.ack, clock - acked[CHOOSE i \in sample : TRUE].sent_time, ack_delay)
  IN  detect_lost_packets([c EXCEPT !.ack = [a EXCEPT !.pto_count = 0]],
                          SelectSeq(sent, Kept), largest)

\* Only called when the timer is due.  The largest packet number it passes on
\* is the largest one sent and still tracked.
nxp_ack_on_loss_timeout ==
  LET c == [ack |-> ack, dr |-> dr, bbr |-> bbr, sent |-> sent]
      numbers == {sent[i].pkt_num : i \in DOMAIN sent} \cup {0}
      largest == CHOOSE n \in numbers : \A m \in numbers : m <= n
  IN  IF ack.loss_time # Inf /\ clock >= ack.loss_time
      THEN detect_lost_packets([ack |-> ack, dr |-> dr, bbr |-> bbr], sent, largest)
      ELSE [c EXCEPT !.ack.pto_count = @ + 1]

-----------------------------------------------------------------------------
(* connection.c *)

CcInit ==
  /\ clock = Start /\ sent = <<>> /\ ack = nxp_ack_init
  /\ dr = nxp_dr_init /\ bbr = nxp_bbr_init_state
  /\ send_ping = FALSE /\ next_pkt_num = 1 /\ bytes_sent = 0

Becomes(c) ==
  /\ ack' = c.ack /\ dr' = c.dr /\ bbr' = c.bbr /\ sent' = c.sent

cc_allows == ack.flight < bbr.cwnd

\* The end of nxp_conn_send: a packet with stream data if there is some and the
\* window allows it, with a probe if one is due, or else with an ACK frame only.
nxp_conn_send ==
  LET n == next_pkt_num
      data == n \notin AckOnly /\ cc_allows
      eliciting == data \/ send_ping
      bytes == IF data THEN Mds ELSE 1
      s == nxp_dr_on_packet_sent(dr, clock)
      flight == ack.flight + IF eliciting THEN bytes ELSE 0
  IN /\ n <= MaxPackets
     /\ ~eliciting => n \in AckOnly
     /\ sent' = Append(sent, [pkt_num |-> n, sent_time |-> clock, bytes |-> bytes,
                              in_flight |-> eliciting, dr_state |-> s.snap])
     /\ ack' = [ack EXCEPT !.flight = flight,
                           !.last_eliciting = IF eliciting THEN clock ELSE @]
     /\ dr' = IF n \in Drained THEN nxp_dr_set_app_limited(s.dr) ELSE s.dr
     /\ bbr' = bbr_on_sent(bbr, flight)
     /\ bytes_sent' = bytes_sent + bytes
     /\ send_ping' = FALSE
     /\ next_pkt_num' = n + 1
     /\ UNCHANGED clock

\* An ACK frame for any of the packets sent so far.
AckArrives(S, ack_delay) ==
  /\ S # {}
  /\ Becomes(nxp_ack_on_ack_recv(S, ack_delay))
  /\ UNCHANGED <<clock, send_ping, next_pkt_num, bytes_sent>>

nxp_conn_on_timeout ==
  /\ clock >= nxp_ack_loss_timeout(ack)
  /\ ack.pto_count < MaxProbes
  /\ Becomes(nxp_ack_on_loss_timeout)
  /\ send_ping' = (send_ping \/ ack'.pto_count > 0)
  /\ UNCHANGED <<clock, next_pkt_num, bytes_sent>>

Passes ==
  /\ clock < Start + MaxElapsed
  /\ clock' = clock + 1
  /\ UNCHANGED <<sent, ack, dr, bbr, send_ping, next_pkt_num, bytes_sent>>

CcNext ==
  \/ nxp_conn_send
  \/ \E S \in SUBSET (1..(next_pkt_num - 1)), d \in AckDelays : AckArrives(S, d)
  \/ nxp_conn_on_timeout
  \/ Passes

-----------------------------------------------------------------------------
Total(list, Of(_)) == FoldLeft(LAMBDA n, p : n + Of(p), 0, list)

\* Every byte sent is, exactly once, delivered, lost or still tracked: no
\* packet is both acknowledged and declared lost, or either of them twice,
\* whatever ACK frames repeat and however late they come.
BytesConserved ==
  bytes_sent = dr.delivered + bbr.loss_in_round + Total(sent, LAMBDA p : p.bytes)

\* bytes_in_flight of the ACK state is the total of the packets that count, and
\* BBR's copy of it is never behind: neither the window nor the PTO timer can
\* stay closed, or open, for packets that are gone.
FlightCounts ==
  /\ ack.flight = Total(sent, LAMBDA p : IF p.in_flight THEN p.bytes ELSE 0)
  /\ bbr.bytes_in_flight = ack.flight

\* The smoothed RTT never falls below the least RTT measured, although the
\* peer's ACK delay is subtracted from the samples.
RttBounds == ack.has_rtt =>
  ack.min_rtt <= ack.smoothed_rtt /\ ack.min_rtt <= ack.latest_rtt

\* A time-based loss deadline is always the deadline of a packet that is still
\* tracked: none is left behind when the packet is acknowledged or lost.
LossTimerHasPacket ==
  ack.loss_time # Inf => \E i \in DOMAIN sent : sent[i].sent_time < ack.loss_time

\* What the ACK state and BBR believe of the packets sent is true of them, after
\* any ACK frames, losses and timeouts (nxp_ack_on_ack_recv, detect_lost_packets).
AckStateIsSound == BytesConserved /\ FlightCounts /\ LossTimerHasPacket /\ RttBounds

\* BBR's gains belong to its state, and the states to what it knows: startup is
\* over for good once the pipe is full, drain and ProbeBW only follow it, and
\* whatever transitions one ACK frame runs through.
GainsMatchState ==
  /\ bbr.cwnd_gain = DoubleCwnd
  /\ bbr.pacing_gain = CASE bbr.state = "STARTUP" -> StartupPacing
                         [] bbr.state = "DRAIN" -> DrainPacing
                         [] bbr.state = "PROBE_BW" -> probe_bw_gain(bbr.cycle_index)
                         [] bbr.state = "PROBE_RTT" -> Unit
  /\ bbr.state = "STARTUP" => ~bbr.filled_pipe
  /\ bbr.state \in {"DRAIN", "PROBE_BW"} => bbr.filled_pipe

\* The window never closes below four packets, in ProbeRTT it is exactly that,
\* and ProbeRTT remembers a window to return to.
WindowFloor ==
  /\ bbr.cwnd >= MinCwnd
  /\ bbr.state = "PROBE_RTT" => bbr.cwnd = MinCwnd /\ bbr.prior_cwnd >= MinCwnd

\* Gains, window and what BBR knows fit the state that the transitions of an ACK
\* frame or of a loss end in (bbr_on_ack, bbr_on_loss).
BbrStateIsSound == GainsMatchState /\ WindowFloor
=============================================================================
