--------------------------- MODULE WindowedFilter ----------------------------
(* congestion/windowed_filter.h: the maximum over a sliding window, kept in    *)
(* three samples.  BBR runs it on delivery rates, with rounds for time.  The  *)
(* min filter (is_max = false) is never created in src/ and is left out.      *)
EXTENDS Integers

CONSTANTS Window,             \* NXP_BBR_BW_WINDOW_ROUNDS
  SampleValues, MaxFilterTime \* bounds of the history

ASSUME FilterAssumption ==
  Window \in Nat /\ SampleValues \subseteq Nat /\ MaxFilterTime \in Nat

VARIABLES wf,      \* the filter
  wf_now,          \* time of the last update
  wf_seen          \* the samples it was given within the last Window

filter_vars == <<wf, wf_now, wf_seen>>

Sample(v, t) == [value |-> v, time |-> t]

nxp_wf_init == [s |-> [i \in 0..2 |-> Sample(0, 0)], initialized |-> FALSE]

nxp_wf_reset(v, t) == [s |-> [i \in 0..2 |-> Sample(v, t)], initialized |-> TRUE]

nxp_wf_get(f) == f.s[0].value

\* The second rotation is missing.
RotateOnce(f, new) ==
  [f EXCEPT !.s = [i \in 0..2 |-> IF i = 2 THEN new ELSE f.s[i + 1]]]

\* The best has expired: its successors move up, as far as they are in the
\* window themselves.
Rotate(f, new) ==
  LET old(x) == new.time - x.time > Window
      twice == IF old(f.s[1]) THEN <<f.s[2], new>> ELSE <<f.s[1], f.s[2]>>
      first == IF old(twice[1]) THEN <<new, new>> ELSE twice
  IN  [f EXCEPT !.s = [i \in 0..2 |-> IF i = 2 THEN new ELSE first[i + 1]]]

nxp_wf_update(f, v, t) ==
  LET new == Sample(v, t)
      Replaces(i, age) == v >= f.s[i].value \/ t - f.s[i].time > age
  IN  IF ~f.initialized \/ v >= f.s[0].value THEN nxp_wf_reset(v, t)
      ELSE IF t - f.s[0].time > Window THEN Rotate(f, new)
      ELSE IF Replaces(1, Window \div 4)
        THEN [f EXCEPT !.s[1] = new, !.s[2] = new]
      ELSE IF Replaces(2, Window \div 2) THEN [f EXCEPT !.s[2] = new]
      ELSE f

FilterInit == wf = nxp_wf_init /\ wf_now = 0 /\ wf_seen = {}

FilterNext == \E v \in SampleValues, t \in wf_now..MaxFilterTime :
  /\ wf' = nxp_wf_update(wf, v, t)
  /\ wf_now' = t
  /\ wf_seen' = {x \in wf_seen : t - x.time <= Window} \cup {Sample(v, t)}

FilterSpec == FilterInit /\ [][FilterNext]_filter_vars

-----------------------------------------------------------------------------
\* After every update the three samples were given to the filter within the last
\* Window, each is at least as new as the one before, and no sample newer than
\* the last one kept is greater than the best: a rate from before the window
\* never decides the congestion window.
FilterIsRecent == wf.initialized =>
  /\ \A i \in 0..2 : wf.s[i] \in wf_seen
  /\ wf.s[0].time <= wf.s[1].time /\ wf.s[1].time <= wf.s[2].time
  /\ \A x \in wf_seen : x.time > wf.s[2].time => x.value <= wf.s[0].value
=============================================================================
