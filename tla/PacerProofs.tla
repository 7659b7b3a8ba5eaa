----------------------------- MODULE PacerProofs -----------------------------
(* The token bucket keeps what leaves within the pacing rate: proved for every *)
(* burst, scale, set of rates and any length of time.                         *)
EXTENDS Pacer, TLAPS

Highest == CHOOSE r \in Rates : \A q \in Rates : q <= r

PacerRecord == [rate : Nat, enabled : BOOLEAN, tokens : Nat,
                time_initialized : BOOLEAN, last_update : Nat]

\* What p holds and the n bytes it let through, against what was there at the
\* start and came in since, in tokens times microseconds of a second.
Covered(p, n) ==
  (n * Scale + p.tokens) * PaceSecond
    <= Burst * Scale * PaceSecond + Highest * (p.last_update - 1) * Scale

\* The inductive invariant, of a pacer p that let n bytes through.  These are
\* limited by the time of the last refill and the tokens that are left, where
\* PacedWithinRate only names the clock.
Within(p, n, now) ==
  /\ p \in PacerRecord /\ n \in Nat /\ now \in Nat \ {0}
  /\ p.rate <= Highest
  /\ p.tokens <= Burst * Scale
  /\ p.last_update <= now
  /\ ~p.time_initialized => n = 0 /\ p.tokens = Burst * Scale
  /\ p.time_initialized => p.last_update >= 1 /\ Covered(p, n)

PacerInv == Within(pacer, paced, pace_now)

\* The highest rate is a rate, and no rate exceeds it.
LEMMA HighestRate == Highest \in Rates /\ Highest \in Nat /\ \A q \in Rates : q <= Highest
BY PacerAssumption DEF Highest

\* Rounding down loses tokens and never makes any.
LEMMA DivDown ==
  ASSUME NEW a \in Nat, NEW w \in Nat \ {0}
  PROVE  a \div w \in Nat /\ (a \div w) * w <= a
<1>1. a \div w \in Nat /\ a % w \in Nat
  OBVIOUS
<1>2. a = w * (a \div w) + (a % w)
  OBVIOUS
<1>3. (a \div w) * w = w * (a \div w)
  BY <1>1
<1> QED BY <1>1, <1>2, <1>3

\* Products keep the order.
LEMMA TimesMonotone ==
  ASSUME NEW a \in Nat, NEW b \in Nat, NEW n \in Nat, a <= b
  PROVE  a * n <= b * n /\ a * n \in Nat
<1>1. PICK d \in Nat : b = a + d
  OBVIOUS
<1>2. b * n = a * n + d * n
  BY <1>1
<1>3. d * n \in Nat /\ a * n \in Nat
  OBVIOUS
<1> QED BY <1>2, <1>3

\* nxp_pacer_update adds what the highest rate allows for the time that passed,
\* at most, and starts the clock of an enabled pacer.
LEMMA UpdateWithin ==
  ASSUME NEW p, NEW n, NEW now, Within(p, n, now)
  PROVE  LET q == nxp_pacer_update(p, now) IN
         Within(q, n, now) /\ q.enabled = p.enabled /\ (q.enabled => q.time_initialized)
<1> DEFINE q == nxp_pacer_update(p, now)
<1>1. /\ Scale \in Nat \ {0} /\ PaceSecond \in Nat \ {0} /\ Burst \in Nat \ {0}
      /\ Highest \in Nat
  BY PacerAssumption, HighestRate
<1>2. /\ p \in PacerRecord /\ n \in Nat /\ now \in Nat \ {0}
      /\ p.rate \in Nat /\ p.tokens \in Nat /\ p.last_update \in Nat
      /\ p.enabled \in BOOLEAN /\ p.time_initialized \in BOOLEAN
  BY DEF Within, PacerRecord
<1>3. CASE ~p.enabled \/ (p.time_initialized /\ now <= p.last_update)
  BY <1>2, <1>3 DEF nxp_pacer_update
<1>4. CASE p.enabled /\ ~p.time_initialized
  <2>1. q = [p EXCEPT !.last_update = now, !.time_initialized = TRUE]
    BY <1>4 DEF nxp_pacer_update
  <2>2. /\ q \in PacerRecord /\ q.rate = p.rate /\ q.tokens = p.tokens /\ q.enabled = p.enabled
        /\ q.last_update = now /\ q.time_initialized
    BY <1>2, <2>1 DEF PacerRecord
  <2>3. n = 0 /\ p.tokens = Burst * Scale
    BY <1>4 DEF Within
  <2>4. Highest * (now - 1) * Scale \in Nat
    BY <1>1, <1>2
  <2>5. (n * Scale + p.tokens) * PaceSecond = Burst * Scale * PaceSecond
    BY <1>1, <2>3
  <2>6. Burst * Scale * PaceSecond \in Nat
    BY <1>1
  <2>7. Covered(q, n)
    BY <2>2, <2>4, <2>5, <2>6 DEF Covered
  <2> QED BY <1>2, <2>2, <2>7 DEF Within
<1>5. CASE p.enabled /\ p.time_initialized /\ now > p.last_update
  <2> DEFINE d == now - p.last_update
             t == p.tokens + Refill(p, now)
             cap == IF t > Burst * Scale THEN Burst * Scale ELSE t
  <2>1. q = [p EXCEPT !.last_update = now, !.tokens = cap]
    BY <1>2, <1>5 DEF nxp_pacer_update
  <2>2. d \in Nat /\ p.rate * d * Scale \in Nat /\ p.rate * d \in Nat
    BY <1>1, <1>2, <1>5
  <2>3. Refill(p, now) \in Nat /\ Refill(p, now) * PaceSecond <= p.rate * d * Scale
    BY <1>1, <2>2, DivDown DEF Refill
  <2>4. p.rate * d * Scale <= Highest * d * Scale
    <3>1. p.rate * d <= Highest * d /\ Highest * d \in Nat
      BY <1>1, <1>2, <2>2, TimesMonotone DEF Within
    <3> HIDE DEF d
    <3> QED BY <1>1, <2>2, <3>1, TimesMonotone
  <2>5. Burst * Scale \in Nat /\ cap \in Nat /\ cap <= t /\ cap <= Burst * Scale
    BY <1>1, <1>2, <2>3
  <2>6. /\ q \in PacerRecord /\ q.rate = p.rate /\ q.tokens = cap /\ q.enabled = p.enabled
        /\ q.last_update = now /\ q.time_initialized
    BY <1>2, <1>5, <2>1, <2>5 DEF PacerRecord
  <2>7. Covered(q, n)
    <3>1. (n * Scale + p.tokens) * PaceSecond
            <= Burst * Scale * PaceSecond + Highest * (p.last_update - 1) * Scale
      BY <1>5 DEF Within, Covered
    <3>2. (n * Scale + cap) * PaceSecond <= (n * Scale + t) * PaceSecond
      BY <1>1, <1>2, <2>3, <2>5, TimesMonotone
    <3>3. (n * Scale + t) * PaceSecond
            = (n * Scale + p.tokens) * PaceSecond + Refill(p, now) * PaceSecond
      BY <1>1, <1>2, <2>3
    <3>4. Highest * (now - 1) * Scale
            = Highest * (p.last_update - 1) * Scale + Highest * d * Scale
      BY <1>1, <1>2, <1>5
    <3> DEFINE A == (n * Scale + p.tokens) * PaceSecond
               B == Burst * Scale * PaceSecond
               E == Highest * (p.last_update - 1) * Scale
               F == Highest * d * Scale
               G == Refill(p, now) * PaceSecond
               H == (n * Scale + cap) * PaceSecond
    <3>5. A \in Int /\ B \in Int /\ E \in Int /\ F \in Int /\ G \in Int /\ H \in Int
      BY <1>1, <1>2, <2>2, <2>3, <2>5
    <3>6. G <= F
      BY <2>2, <2>3, <2>4, <3>5
    <3>7. H <= A + G /\ A <= B + E
      BY <3>1, <3>2, <3>3
    <3>8. H <= B + (E + F)
      <4> HIDE DEF A, B, E, F, G, H
      <4> QED BY <3>5, <3>6, <3>7
    <3> QED BY <2>6, <3>4, <3>8 DEF Covered
  <2> QED BY <1>2, <1>5, <2>5, <2>6, <2>7 DEF Within
<1> QED BY <1>2, <1>3, <1>4, <1>5

\* nxp_pacer_on_send: the tokens pay for the bytes where there are enough, and
\* never grow.
LEMMA SendWithin ==
  ASSUME NEW p, NEW n, NEW now, Within(p, n, now), p.enabled => p.time_initialized,
         NEW b \in Nat, NEW m \in {0, b}, m > 0 => p.enabled /\ p.tokens >= b * Scale
  PROVE  Within(nxp_pacer_on_send(p, b), n + m, now)
<1> DEFINE left == IF p.tokens >= b * Scale THEN p.tokens - b * Scale ELSE 0
           q == [p EXCEPT !.tokens = left]
<1>1. /\ Scale \in Nat \ {0} /\ PaceSecond \in Nat \ {0} /\ Burst \in Nat \ {0}
      /\ Highest \in Nat
  BY PacerAssumption, HighestRate
<1>2. /\ p \in PacerRecord /\ n \in Nat /\ now \in Nat \ {0}
      /\ p.rate \in Nat /\ p.tokens \in Nat /\ p.last_update \in Nat
      /\ p.enabled \in BOOLEAN /\ p.time_initialized \in BOOLEAN
  BY DEF Within, PacerRecord
<1>3. CASE ~p.enabled
  BY <1>2, <1>3 DEF nxp_pacer_on_send
<1>4. CASE p.enabled
  <2>1. nxp_pacer_on_send(p, b) = q
    BY <1>4 DEF nxp_pacer_on_send
  <2>2. b * Scale \in Nat /\ left \in Nat /\ left <= p.tokens
    BY <1>1, <1>2
  <2>3. /\ q \in PacerRecord /\ q.rate = p.rate /\ q.tokens = left
        /\ q.last_update = p.last_update /\ q.time_initialized
    BY <1>2, <1>4, <2>2 DEF PacerRecord
  <2>4. (n + m) * Scale + left <= n * Scale + p.tokens
    <3>1. CASE m = 0
      BY <1>1, <1>2, <2>2, <3>1
    <3>2. CASE m = b /\ m > 0
      <4>1. left = p.tokens - b * Scale
        BY <3>2
      <4>2. (n + m) * Scale = n * Scale + b * Scale
        BY <1>1, <1>2, <3>2
      <4> QED BY <1>1, <1>2, <2>2, <4>1, <4>2
    <3> QED BY <3>1, <3>2
  <2>5. ((n + m) * Scale + left) * PaceSecond <= (n * Scale + p.tokens) * PaceSecond
    <3> DEFINE x == (n + m) * Scale + left
               y == n * Scale + p.tokens
    <3>1. x \in Nat /\ y \in Nat /\ x <= y
      BY <1>1, <1>2, <2>2, <2>4
    <3> HIDE DEF x, y
    <3>2. x * PaceSecond <= y * PaceSecond
      BY <1>1, <3>1, TimesMonotone
    <3> QED BY <3>2 DEF x, y
  <2>6. Covered(p, n)
    BY <1>4 DEF Within
  <2>7. Covered(q, n + m)
    <3> DEFINE A == ((n + m) * Scale + left) * PaceSecond
               B == (n * Scale + p.tokens) * PaceSecond
               E == Burst * Scale * PaceSecond + Highest * (p.last_update - 1) * Scale
    <3>1. A \in Int /\ B \in Int /\ E \in Int /\ A <= B /\ B <= E
      BY <1>1, <1>2, <2>2, <2>5, <2>6 DEF Covered
    <3>2. A <= E
      <4> HIDE DEF A, B, E
      <4> QED BY <3>1
    <3> QED BY <2>3, <3>2 DEF Covered
  <2>8. left <= Burst * Scale
    BY <1>1, <1>2, <2>2 DEF Within
  <2> QED BY <1>2, <1>4, <2>1, <2>3, <2>7, <2>8 DEF Within
<1> QED BY <1>2, <1>3, <1>4

\* The invariant gives what PacedWithinRate says.
LEMMA WithinRate == PacerInv => PacedWithinRate
<1> SUFFICES ASSUME PacerInv PROVE PacedWithinRate
  OBVIOUS
<1>1. /\ Scale \in Nat \ {0} /\ PaceSecond \in Nat \ {0} /\ Burst \in Nat \ {0}
      /\ Highest \in Rates /\ Highest \in Nat
  BY PacerAssumption, HighestRate
<1>2. /\ pacer.tokens \in Nat /\ pacer.last_update \in Nat /\ paced \in Nat
      /\ pace_now \in Nat \ {0} /\ pacer.last_update <= pace_now
  BY DEF PacerInv, Within, PacerRecord
<1> DEFINE a == paced * PaceSecond
           b == Burst * PaceSecond + Highest * (pace_now - 1)
<1>3. a \in Nat /\ b \in Nat
  BY <1>1, <1>2
<1>4. a <= b
  <2>1. CASE ~pacer.time_initialized
    <3>1. paced = 0
      BY <2>1 DEF PacerInv, Within
    <3> QED BY <1>1, <1>3, <3>1
  <2>2. CASE pacer.time_initialized
    <3>1. pacer.last_update >= 1 /\ Covered(pacer, paced)
      BY <2>2 DEF PacerInv, Within
    <3>2. Highest * (pacer.last_update - 1) <= Highest * (pace_now - 1)
      <4>1. (pacer.last_update - 1) * Highest <= (pace_now - 1) * Highest
        BY <1>1, <1>2, <3>1, TimesMonotone
      <4> QED BY <1>1, <1>2, <4>1
    <3>3. (paced * Scale + pacer.tokens) * PaceSecond
            = a * Scale + pacer.tokens * PaceSecond
      BY <1>1, <1>2
    <3> DEFINE e == Burst * PaceSecond + Highest * (pacer.last_update - 1)
    <3>4. Burst * Scale * PaceSecond + Highest * (pacer.last_update - 1) * Scale = e * Scale
      BY <1>1, <1>2
    <3>5. e \in Nat /\ e <= b
      BY <1>1, <1>2, <3>1, <3>2
    <3>6. pacer.tokens * PaceSecond \in Nat
      BY <1>1, <1>2
    <3>7. a * Scale + pacer.tokens * PaceSecond <= e * Scale
      BY <3>1, <3>3, <3>4 DEF Covered
    <3>8. a <= e
      <4> DEFINE x == pacer.tokens * PaceSecond
      <4>1. a * Scale + x <= e * Scale /\ x \in Nat
        BY <3>6, <3>7
      <4> HIDE DEF a, e, x
      <4> SUFFICES ASSUME a > e PROVE FALSE
        BY <1>3, <3>5
      <4>2. PICK k \in Nat : a = e + 1 + k
        BY <1>3, <3>5
      <4>3. a * Scale = e * Scale + Scale + k * Scale
        BY <1>1, <3>5, <4>2
      <4>4. k * Scale \in Nat /\ e * Scale \in Nat
        BY <1>1, <3>5
      <4> QED BY <1>1, <4>1, <4>3, <4>4
    <3> QED BY <1>3, <3>5, <3>8
  <2> QED BY <2>1, <2>2
<1> QED BY <1>1, <1>4 DEF PacedWithinRate

\* For every burst, scale and set of rates, and however often the rate changes
\* and tokens are refilled and rounded down: nxp_pacer_can_send lets through one
\* burst and what the highest rate allows since the start, and no more.
THEOREM PacerKeepsRate == PaceSpec => []PacedWithinRate
<1>1. PaceInit => PacerInv
  <2> SUFFICES ASSUME PaceInit PROVE PacerInv
    OBVIOUS
  <2>1. Burst * Scale \in Nat /\ Highest \in Nat
    BY PacerAssumption, HighestRate
  <2> QED BY <2>1 DEF PaceInit, PacerInv, Within, PacerRecord, nxp_pacer_init
<1>2. PacerInv /\ [PaceNext]_pace_vars => PacerInv'
  <2> SUFFICES ASSUME PacerInv, [PaceNext]_pace_vars PROVE PacerInv'
    OBVIOUS
  <2>1. CASE UNCHANGED pace_vars
    BY <2>1 DEF pace_vars, PacerInv
  <2>2. CASE SetRate
    <3>1. PICK r \in Rates : /\ pacer' = [pacer EXCEPT !.rate = r, !.enabled = r > 0]
                             /\ pace_now' = pace_now /\ paced' = paced
      BY <2>2 DEF SetRate, nxp_pacer_set_rate
    <3>2. r \in Nat /\ r <= Highest
      BY PacerAssumption, HighestRate
    <3>3. /\ pacer' \in PacerRecord /\ pacer'.rate = r /\ pacer'.tokens = pacer.tokens
          /\ pacer'.last_update = pacer.last_update
          /\ pacer'.time_initialized = pacer.time_initialized
      <4>1. pacer \in PacerRecord /\ (r > 0) \in BOOLEAN
        BY DEF PacerInv, Within
      <4> QED BY <3>1, <3>2, <4>1 DEF PacerRecord
    <3> QED BY <3>1, <3>2, <3>3 DEF PacerInv, Within, Covered
  <2>3. CASE PacedSend
    <3> DEFINE p == nxp_pacer_update(pacer, pace_now)
               free == nxp_pacer_can_send(p, Datagram)
    <3>1. PICK bytes \in 0..Datagram, control \in BOOLEAN :
            /\ pacer' = IF free \/ control THEN nxp_pacer_on_send(p, bytes) ELSE p
            /\ paced' = paced + IF p.enabled /\ free THEN bytes ELSE 0
            /\ pace_now' = pace_now
      BY <2>3 DEF PacedSend
    <3>2. Within(p, paced, pace_now) /\ (p.enabled => p.time_initialized)
      BY UpdateWithin DEF PacerInv
    <3> DEFINE m == IF p.enabled /\ free THEN bytes ELSE 0
    <3>3. paced \in Nat /\ bytes \in Nat /\ m \in {0, bytes} /\ p.tokens \in Nat
      BY <3>2, PacerAssumption DEF Within, PacerRecord
    <3>4. m > 0 => p.enabled /\ p.tokens >= bytes * Scale
      <4> SUFFICES ASSUME m > 0 PROVE p.enabled /\ p.tokens >= bytes * Scale
        OBVIOUS
      <4>1. p.enabled /\ free
        OBVIOUS
      <4>2. p.tokens >= Datagram * Scale
        BY <4>1 DEF nxp_pacer_can_send
      <4>3. Datagram \in Nat /\ Scale \in Nat /\ bytes <= Datagram
        BY PacerAssumption
      <4>4. bytes * Scale <= Datagram * Scale /\ bytes * Scale \in Nat /\ Datagram * Scale \in Nat
        BY <3>3, <4>3, TimesMonotone
      <4> QED BY <3>3, <4>1, <4>2, <4>4
    <3> HIDE DEF p
    <3>5. CASE free \/ control
      <4>1. Within(nxp_pacer_on_send(p, bytes), paced + m, pace_now)
        BY <3>2, <3>3, <3>4, SendWithin
      <4> QED BY <3>1, <3>5, <4>1 DEF PacerInv
    <3>6. CASE ~(free \/ control)
      <4>1. pacer' = p /\ paced' = paced
        BY <3>1, <3>3, <3>6
      <4> QED BY <3>1, <3>2, <4>1 DEF PacerInv
    <3> QED BY <3>5, <3>6
  <2>4. CASE PaceTick
    BY <2>4 DEF PaceTick, PacerInv, Within, PacerRecord
  <2> QED BY <2>1, <2>2, <2>3, <2>4 DEF PaceNext
<1> QED BY <1>1, <1>2, WithinRate, PTL DEF PaceSpec
=============================================================================
