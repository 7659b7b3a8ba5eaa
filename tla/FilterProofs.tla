---------------------------- MODULE FilterProofs -----------------------------
(* The windowed filter never answers from outside its window: proved for      *)
(* every window, every set of values and histories of any length.             *)
EXTENDS WindowedFilter, TLAPS

Samples == [value : Nat, time : Nat]
Filters == [s : [0..2 -> Samples], initialized : BOOLEAN]

Ordered(f) == f.s[0].time <= f.s[1].time /\ f.s[1].time <= f.s[2].time

\* The inductive invariant.  FilterIsRecent alone says nothing of the samples
\* that are still to come: nothing seen is from the future, nothing seen has
\* left the window, and before the first sample nothing was seen.
FilterInv ==
  /\ wf \in Filters /\ wf_now \in Nat /\ wf_seen \subseteq Samples
  /\ \A x \in wf_seen : x.time <= wf_now /\ wf_now - x.time <= Window
  /\ ~wf.initialized => wf_seen = {}
  /\ FilterIsRecent

\* Three samples as the array of the filter.
Three(a, b, c) == [i \in 0..2 |-> IF i = 0 THEN a ELSE IF i = 1 THEN b ELSE c]

\* The array that Rotate writes, sample by sample.
LEMMA RotateThree ==
  ASSUME NEW a, NEW b, NEW c
  PROVE  [i \in 0..2 |-> IF i = 2 THEN c ELSE <<a, b>>[i + 1]] = Three(a, b, c)
<1>1. \A i \in 0..2 : (IF i = 2 THEN c ELSE <<a, b>>[i + 1])
                     = (IF i = 0 THEN a ELSE IF i = 1 THEN b ELSE c)
  <2>1. <<a, b>>[0 + 1] = a /\ <<a, b>>[1 + 1] = b
    OBVIOUS
  <2> QED BY <2>1
<1> QED BY <1>1 DEF Three

\* A sample of naturals is a sample.
LEMMA SampleType ==
  ASSUME NEW v \in Nat, NEW t \in Nat
  PROVE  Sample(v, t) \in Samples /\ Sample(v, t).value = v /\ Sample(v, t).time = t
BY DEF Sample, Samples

\* What an update does to the three samples: each is an old one or the new one,
\* the best is in the window, and either the last one is the new one or nothing
\* changed and the new one is worse than the best.
LEMMA UpdateFacts ==
  ASSUME NEW f \in Filters, NEW v \in Nat, NEW t \in Nat,
         f.initialized => Ordered(f) /\ f.s[2].time <= t
  PROVE  LET g == nxp_wf_update(f, v, t) IN
         /\ g \in Filters /\ g.initialized
         /\ Ordered(g) /\ g.s[2].time <= t
         /\ t - g.s[0].time <= Window
         /\ \A i \in 0..2 : g.s[i] = Sample(v, t)
                            \/ (f.initialized /\ \E j \in 0..2 : g.s[i] = f.s[j])
         /\ g.s[2] = Sample(v, t)
            \/ (f.initialized /\ v <= g.s[0].value /\ g.s[2] = f.s[2] /\ g.s[0] = f.s[0])
<1> DEFINE new == Sample(v, t)
           g == nxp_wf_update(f, v, t)
<1>1. new \in Samples /\ new.value = v /\ new.time = t
  BY SampleType
<1>2. /\ f.s \in [0..2 -> Samples] /\ f.initialized \in BOOLEAN
      /\ \A i \in 0..2 : f.s[i] \in Samples /\ f.s[i].time \in Nat /\ f.s[i].value \in Nat
  BY DEF Filters, Samples
<1>3. CASE ~f.initialized \/ v >= f.s[0].value
  <2>1. g = [s |-> [i \in 0..2 |-> new], initialized |-> TRUE]
    BY <1>3 DEF nxp_wf_update, nxp_wf_reset
  <2> QED BY <1>1, <2>1, FilterAssumption DEF Filters, Ordered, Samples
<1>4. CASE f.initialized /\ ~(v >= f.s[0].value) /\ t - f.s[0].time > Window
  <2>1. g = Rotate(f, new)
    BY <1>4 DEF nxp_wf_update
  <2>2. PICK first \in Samples, second \in Samples :
          /\ g = [f EXCEPT !.s = Three(first, second, new)]
          /\ \/ first = f.s[1] /\ second = f.s[2]
             \/ first = f.s[2] /\ second = new
             \/ first = new /\ second = new
          /\ t - first.time <= Window
    <3>1. CASE ~(t - f.s[1].time > Window)
      <4>1. g = [f EXCEPT !.s = Three(f.s[1], f.s[2], new)]
        BY <1>1, <2>1, <3>1, RotateThree DEF Rotate
      <4> QED BY <1>1, <1>2, <3>1, <4>1, FilterAssumption
    <3>2. CASE t - f.s[1].time > Window /\ ~(t - f.s[2].time > Window)
      <4>1. g = [f EXCEPT !.s = Three(f.s[2], new, new)]
        BY <1>1, <2>1, <3>2, RotateThree DEF Rotate
      <4> QED BY <1>1, <1>2, <3>2, <4>1, FilterAssumption
    <3>3. CASE t - f.s[1].time > Window /\ t - f.s[2].time > Window
      <4>1. g = [f EXCEPT !.s = Three(new, new, new)]
        BY <1>1, <2>1, <3>3, RotateThree DEF Rotate
      <4> QED BY <1>1, <4>1, FilterAssumption
    <3> QED BY <3>1, <3>2, <3>3
  <2>3. g \in Filters /\ g.initialized /\ g.s[0] = first /\ g.s[1] = second /\ g.s[2] = new
    BY <1>1, <1>2, <1>4, <2>2 DEF Filters, Three
  <2> QED BY <1>1, <1>2, <1>4, <2>2, <2>3 DEF Ordered
<1>5. CASE f.initialized /\ ~(v >= f.s[0].value) /\ ~(t - f.s[0].time > Window)
  <2>1. \/ g = [f EXCEPT !.s[1] = new, !.s[2] = new]
        \/ g = [f EXCEPT !.s[2] = new]
        \/ g = f
    BY <1>5 DEF nxp_wf_update
  <2>2. /\ g \in Filters /\ g.initialized /\ g.s[0] = f.s[0]
        /\ \/ g.s[1] = new /\ g.s[2] = new
           \/ g.s[1] = f.s[1] /\ g.s[2] = new
           \/ g.s[1] = f.s[1] /\ g.s[2] = f.s[2]
    <3>1. CASE g = [f EXCEPT !.s[1] = new, !.s[2] = new]
      <4> DEFINE h == [f EXCEPT !.s[1] = new]
      <4>1. h \in Filters /\ h.initialized /\ h.s[0] = f.s[0] /\ h.s[1] = new
        BY <1>1, <1>2, <1>5 DEF Filters
      <4>2. g = [h EXCEPT !.s[2] = new]
        BY <3>1
      <4> HIDE DEF h
      <4> QED BY <1>1, <4>1, <4>2 DEF Filters
    <3>2. CASE g = [f EXCEPT !.s[2] = new]
      BY <1>1, <1>2, <1>5, <3>2 DEF Filters
    <3>3. CASE g = f
      BY <1>5, <3>3
    <3> QED BY <2>1, <3>1, <3>2, <3>3
  <2>3. t \in Nat /\ Window \in Nat /\ v <= f.s[0].value /\ t - f.s[0].time <= Window
    BY <1>2, <1>5, FilterAssumption
  <2>4. \A i \in 0..2 : g.s[i] = new \/ \E j \in 0..2 : g.s[i] = f.s[j]
    BY <2>2
  <2>5. Ordered(g) /\ g.s[2].time <= t
    BY <1>1, <1>2, <1>5, <2>2 DEF Ordered
  <2> QED BY <1>5, <2>2, <2>3, <2>4, <2>5
<1> QED BY <1>2, <1>3, <1>4, <1>5

\* For every window and every history of samples: after each nxp_wf_update the
\* three samples kept were given within the last Window, in the order kept, and
\* no sample given after the last of them is greater than the best.
THEOREM FilterSound == FilterSpec => []FilterIsRecent
<1>1. FilterInit => FilterInv
  BY DEF FilterInit, FilterInv, nxp_wf_init, Sample, Filters, Samples, FilterIsRecent
<1>2. FilterInv /\ [FilterNext]_filter_vars => FilterInv'
  <2> SUFFICES ASSUME FilterInv, [FilterNext]_filter_vars PROVE FilterInv'
    OBVIOUS
  <2>1. CASE UNCHANGED filter_vars
    BY <2>1 DEF FilterInv, FilterIsRecent, filter_vars
  <2>2. CASE FilterNext
    <3>1. PICK v \in SampleValues, t \in wf_now..MaxFilterTime :
            /\ wf' = nxp_wf_update(wf, v, t)
            /\ wf_now' = t
            /\ wf_seen' = {x \in wf_seen : t - x.time <= Window} \cup {Sample(v, t)}
      BY <2>2 DEF FilterNext
    <3>2. v \in Nat /\ t \in Nat /\ wf_now <= t
      BY FilterAssumption DEF FilterInv
    <3>3. Sample(v, t) \in Samples /\ Sample(v, t).value = v /\ Sample(v, t).time = t
      BY <3>2, SampleType
    <3>4. wf \in Filters /\ (wf.initialized => Ordered(wf) /\ wf.s[2].time <= t)
      BY <3>2 DEF FilterInv, FilterIsRecent, Ordered, Filters, Samples
    <3>5. /\ wf' \in Filters /\ wf'.initialized
          /\ Ordered(wf') /\ wf'.s[2].time <= t
          /\ t - wf'.s[0].time <= Window
          /\ \A i \in 0..2 : wf'.s[i] = Sample(v, t)
                             \/ (wf.initialized /\ \E j \in 0..2 : wf'.s[i] = wf.s[j])
          /\ wf'.s[2] = Sample(v, t)
             \/ (wf.initialized /\ v <= wf'.s[0].value /\ wf'.s[2] = wf.s[2] /\ wf'.s[0] = wf.s[0])
      BY <3>1, <3>2, <3>4, UpdateFacts, ZenonT(60)
    <3>6. \A i \in 0..2 : wf'.s[i] \in Samples /\ wf'.s[i].time \in Nat
      BY <3>5 DEF Filters, Samples
    <3>7. wf_seen' \subseteq Samples /\ \A x \in wf_seen' : x.time <= t /\ t - x.time <= Window
      BY <3>1, <3>2, <3>3, FilterAssumption DEF FilterInv, Samples
    <3>8. \A i \in 0..2 : wf'.s[i] \in wf_seen'
      <4> SUFFICES ASSUME NEW i \in 0..2 PROVE wf'.s[i] \in wf_seen'
        OBVIOUS
      <4>1. t - wf'.s[i].time <= Window
        BY <3>2, <3>5, <3>6, FilterAssumption DEF Ordered
      <4>2. CASE wf'.s[i] = Sample(v, t)
        BY <3>1, <4>2
      <4>3. CASE wf.initialized /\ \E j \in 0..2 : wf'.s[i] = wf.s[j]
        BY <3>1, <4>1, <4>3 DEF FilterInv, FilterIsRecent
      <4> QED BY <3>5, <4>2, <4>3
    <3>9. \A x \in wf_seen' : x.time > wf'.s[2].time => x.value <= wf'.s[0].value
      <4> SUFFICES ASSUME NEW x \in wf_seen', x.time > wf'.s[2].time
                   PROVE  x.value <= wf'.s[0].value
        OBVIOUS
      <4>1. x \in Samples /\ x.time \in Nat /\ x.time <= t
        BY <3>7 DEF Samples
      <4>2. wf'.s[2] # Sample(v, t)
        BY <3>2, <3>3, <4>1
      <4>3. x = Sample(v, t) \/ x \in wf_seen
        BY <3>1
      <4> QED BY <3>3, <3>5, <4>2, <4>3 DEF FilterInv, FilterIsRecent
    <3> QED BY <3>1, <3>2, <3>5, <3>7, <3>8, <3>9 DEF FilterInv, FilterIsRecent, Ordered
  <2> QED BY <2>1, <2>2
<1>3. FilterInv => FilterIsRecent
  BY DEF FilterInv
<1> QED BY <1>1, <1>2, <1>3, PTL DEF FilterSpec
=============================================================================
