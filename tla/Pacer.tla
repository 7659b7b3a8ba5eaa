-------------------------------- MODULE Pacer --------------------------------
(* congestion/pacing.c, driven as core/connection.c drives it: nxp_conn_send  *)
(* refills the tokens, is held back unless a full datagram is covered or a    *)
(* control frame is pending, and pays for what it sent; nxp_conn_timeout asks *)
(* how long to wait; ACKs change the rate.                                    *)
EXTENDS Integers

CONSTANTS Scale,     \* TOKEN_SCALE
  PaceSecond,        \* microseconds in a second
  Burst,             \* NXP_PACER_MAX_BURST, in bytes
  Datagram,          \* NXP_BBR_MAX_DATAGRAM_SIZE
  Rates,             \* pacing rates BBR may set, in bytes per second
  MaxPaceTime        \* bound

ASSUME PacerAssumption ==
  /\ {Scale, PaceSecond, Burst, Datagram} \subseteq Nat \ {0}
  /\ Rates \subseteq Nat /\ \E r \in Rates : \A q \in Rates : q <= r

VARIABLES pacer, pace_now,
  paced              \* history: bytes the pacer, once enabled, let through

pace_vars == <<pacer, pace_now, paced>>

nxp_pacer_init == [rate |-> 0, enabled |-> FALSE, tokens |-> Burst * Scale,
                   time_initialized |-> FALSE, last_update |-> 0]

nxp_pacer_set_rate(p, r) == [p EXCEPT !.rate = r, !.enabled = r > 0]

\* What is left over by the division is lost, as last_update moves anyway.
Refill(p, now) == (p.rate * (now - p.last_update) * Scale) \div PaceSecond

nxp_pacer_update(p, now) ==
  IF ~p.enabled THEN p
  ELSE IF ~p.time_initialized THEN [p EXCEPT !.last_update = now, !.time_initialized = TRUE]
  ELSE IF now <= p.last_update THEN p
  ELSE LET t == p.tokens + Refill(p, now)
       IN  [p EXCEPT !.last_update = now, !.tokens = IF t > Burst * Scale THEN Burst * Scale ELSE t]

nxp_pacer_can_send(p, bytes) == p.enabled => p.tokens >= bytes * Scale

\* Bytes are taken from tokens, without the scale.
on_send_unscaled(p, bytes) ==
  IF ~p.enabled THEN p
  ELSE [p EXCEPT !.tokens = IF @ >= bytes THEN @ - bytes ELSE 0]

nxp_pacer_on_send(p, bytes) ==
  IF ~p.enabled THEN p
  ELSE [p EXCEPT !.tokens = IF @ >= bytes * Scale THEN @ - bytes * Scale ELSE 0]

nxp_pacer_next_send_time(p, bytes) ==
  IF ~p.enabled \/ p.tokens >= bytes * Scale THEN 0
  ELSE ((bytes * Scale - p.tokens) * PaceSecond) \div (p.rate * Scale)

PaceInit == pacer = nxp_pacer_init /\ pace_now = 1 /\ paced = 0

\* on_packet_acked: BBR's rate, positive once there was a sample.
SetRate == \E r \in Rates :
  pacer' = nxp_pacer_set_rate(pacer, r) /\ UNCHANGED <<pace_now, paced>>

\* nxp_conn_send: control is set when a control frame is pending, which lets
\* the packet, data included, pass.  0 bytes: there was nothing to send.
PacedSend == \E bytes \in 0..Datagram, control \in BOOLEAN :
  LET p == nxp_pacer_update(pacer, pace_now)
      free == nxp_pacer_can_send(p, Datagram)
  IN  /\ pacer' = IF free \/ control THEN nxp_pacer_on_send(p, bytes) ELSE p
      /\ paced' = paced + IF p.enabled /\ free THEN bytes ELSE 0
      /\ UNCHANGED pace_now

PaceTick == pace_now < MaxPaceTime /\ pace_now' = pace_now + 1 /\ UNCHANGED <<pacer, paced>>

PaceNext == SetRate \/ PacedSend \/ PaceTick

PaceSpec == PaceInit /\ [][PaceNext]_pace_vars

-----------------------------------------------------------------------------
\* The pacing timer is right to the microsecond: after one more than the delay
\* nxp_pacer_next_send_time returns a datagram may leave, and after one less it
\* may not, whatever was sent, refilled and rounded before.
PacerDelay ==
  LET d == nxp_pacer_next_send_time(pacer, Datagram)
      After(t) == nxp_pacer_can_send(nxp_pacer_update(pacer, pacer.last_update + t), Datagram)
  IN  pacer.time_initialized /\ ~nxp_pacer_can_send(pacer, Datagram) =>
        After(d + 1) /\ (d > 1 => ~After(d - 1))

\* However often the rate changes and the tokens are refilled, what leaves by
\* the pacer is one burst and what the highest rate allows since the start.
PacedWithinRate ==
  \E r \in Rates : paced * PaceSecond <= Burst * PaceSecond + r * (pace_now - 1)
=============================================================================
