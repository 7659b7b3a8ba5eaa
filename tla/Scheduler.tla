------------------------------ MODULE Scheduler ------------------------------
(***************************************************************************)
(* The stream scheduler of a connection (core/scheduler.c) driven by the   *)
(* code that calls it in core/connection.c: the circular doubly-linked     *)
(* list of streams that have something to send, the STREAM-frame loop of   *)
(* nxp_conn_send that walks it, and the calls that insert into it.         *)
(*                                                                         *)
(* Bytes are abstracted to what the scheduler looks at: unsent[s] stands   *)
(* for nxp_stream_unsent(s) > 0, and fin / fin_sent are the stream's FIN   *)
(* flags.  The loop of nxp_conn_send is one step per iteration; a          *)
(* connection is single-threaded, so while it runs (pc # "idle") no other  *)
(* entry point of the connection is called.                                *)
(***************************************************************************)
EXTENDS Naturals, FiniteSets

CONSTANTS Streams,      \* streams of the connection
          Null,         \* the null pointer
          RateLimited,  \* streams with rate_limit.enabled
          MaxFrames     \* NXP_MAX_STREAM_FRAMES_PER_PKT

ASSUME StreamsAssumption == Null \notin Streams
ASSUME RateLimitedAssumption == RateLimited \subseteq Streams
ASSUME MaxFramesAssumption == MaxFrames \in Nat \ {0}

VARIABLES
  sched_head, sched_next, sched_prev, scheduled,  \* the list
  unsent, fin, fin_sent,                          \* what a stream has to send
  outstanding,  \* a frame of the stream is tracked in a sent packet
  budget,       \* the rate limiter of the stream has at least one token
  window,       \* nxp_flow_can_send(conn_flow, 1)
  pc,           \* where nxp_conn_send is: "idle", "loop" or "finish"
  frames,       \* sent_meta.frame_count of the packet being built
  control       \* the packet already holds a control frame (frame_pos > 0)

listVars == <<sched_head, sched_next, sched_prev, scheduled>>
streamVars == <<unsent, fin, fin_sent, outstanding>>
sendVars == <<pc, frames, control>>
limitVars == <<budget, window>>
vars == <<listVars, streamVars, limitVars, sendVars>>

-----------------------------------------------------------------------------
(* State *)

Pointer == Streams \cup {Null}

TypeOK ==
  /\ sched_head \in Pointer
  /\ sched_next \in [Streams -> Pointer]
  /\ sched_prev \in [Streams -> Pointer]
  /\ scheduled \in [Streams -> BOOLEAN]
  /\ unsent \in [Streams -> BOOLEAN]
  /\ fin \in [Streams -> BOOLEAN]
  /\ fin_sent \in [Streams -> BOOLEAN]
  /\ outstanding \in [Streams -> BOOLEAN]
  /\ budget \in [Streams -> BOOLEAN]
  /\ window \in BOOLEAN
  /\ pc \in {"idle", "loop", "finish"}
  /\ frames \in 0..MaxFrames
  /\ control \in BOOLEAN

\* nxp_conn_create and nxp_stream_create: an empty list, unlinked streams.
Init ==
  /\ sched_head = Null
  /\ sched_next = [s \in Streams |-> Null]
  /\ sched_prev = [s \in Streams |-> Null]
  /\ scheduled = [s \in Streams |-> FALSE]
  /\ unsent = [s \in Streams |-> FALSE]
  /\ fin = [s \in Streams |-> FALSE]
  /\ fin_sent = [s \in Streams |-> FALSE]
  /\ outstanding = [s \in Streams |-> FALSE]
  /\ budget = [s \in Streams |-> TRUE]
  /\ window = TRUE
  /\ pc = "idle"
  /\ frames = 0
  /\ control = FALSE

\* A stream with unsent bytes or an unsent FIN.
HasWork(s) == unsent[s] \/ (fin[s] /\ ~fin_sent[s])

-----------------------------------------------------------------------------
(* The list operations of core/scheduler.c *)

\* Faulty variant of SchedAdd: the stream becomes the head of the list.
SchedAddFront(s) ==
  IF scheduled[s]
  THEN UNCHANGED listVars
  ELSE /\ scheduled' = [scheduled EXCEPT ![s] = TRUE]
       /\ sched_head' = s
       /\ IF sched_head = Null
          THEN /\ sched_next' = [sched_next EXCEPT ![s] = s]
               /\ sched_prev' = [sched_prev EXCEPT ![s] = s]
          ELSE LET tail == sched_prev[sched_head] IN
               /\ sched_next' = [sched_next EXCEPT ![s] = sched_head, ![tail] = s]
               /\ sched_prev' = [sched_prev EXCEPT ![s] = tail, ![sched_head] = s]

\* nxp_sched_add: no effect on a stream already linked; otherwise link it
\* before the head, that is at the tail of the circular list.
SchedAdd(s) ==
  IF scheduled[s]
  THEN UNCHANGED listVars
  ELSE /\ scheduled' = [scheduled EXCEPT ![s] = TRUE]
       /\ IF sched_head = Null
          THEN /\ sched_next' = [sched_next EXCEPT ![s] = s]
               /\ sched_prev' = [sched_prev EXCEPT ![s] = s]
               /\ sched_head' = s
          ELSE LET tail == sched_prev[sched_head] IN
               /\ sched_next' = [sched_next EXCEPT ![s] = sched_head, ![tail] = s]
               /\ sched_prev' = [sched_prev EXCEPT ![s] = tail, ![sched_head] = s]
               /\ UNCHANGED sched_head

\* Faulty variant of SchedRemove: the successor keeps its sched_prev.
SchedRemoveForward(s) ==
  /\ scheduled' = [scheduled EXCEPT ![s] = FALSE]
  /\ sched_head' = IF sched_next[s] = s THEN Null ELSE sched_next[s]
  /\ sched_next' = [sched_next EXCEPT ![sched_prev[s]] = sched_next[s], ![s] = Null]
  /\ sched_prev' = [sched_prev EXCEPT ![s] = Null]

\* nxp_sched_remove, called by nxp_sched_next once sched_head has moved to
\* the successor of s: the head is cleared when s is alone and stays where
\* it is otherwise.
SchedRemove(s) ==
  /\ scheduled' = [scheduled EXCEPT ![s] = FALSE]
  /\ IF sched_next[s] = s
     THEN /\ sched_head' = Null
          /\ sched_next' = [sched_next EXCEPT ![s] = Null]
          /\ sched_prev' = [sched_prev EXCEPT ![s] = Null]
     ELSE /\ sched_head' = sched_next[s]
          /\ sched_next' = [sched_next EXCEPT ![sched_prev[s]] = sched_next[s],
                                              ![s] = Null]
          /\ sched_prev' = [sched_prev EXCEPT ![sched_next[s]] = sched_prev[s],
                                              ![s] = Null]

\* Faulty variant of SchedNext: an unsent FIN does not count as work.
SchedNextDataOnly ==
  IF unsent[sched_head]
  THEN /\ sched_head' = sched_next[sched_head]
       /\ UNCHANGED <<sched_next, sched_prev, scheduled>>
  ELSE SchedRemove(sched_head)

\* nxp_sched_next on a non-empty list: advance the head, and unlink the
\* stream it returns when that stream has nothing to send.
SchedNext ==
  LET s == sched_head IN
  IF HasWork(s)
  THEN /\ sched_head' = sched_next[s]
       /\ UNCHANGED <<sched_next, sched_prev, scheduled>>
  ELSE SchedRemove(s)

-----------------------------------------------------------------------------
(* Entry points that change what a stream has to send *)

\* nxp_conn_stream_send: data is accepted, with or without FIN.
StreamSend(s, f) ==
  /\ pc = "idle"
  /\ ~fin[s]
  /\ unsent' = [unsent EXCEPT ![s] = TRUE]
  /\ fin' = [fin EXCEPT ![s] = f]
  /\ SchedAdd(s)
  /\ UNCHANGED <<fin_sent, outstanding, limitVars, sendVars>>

\* nxp_conn_stream_send when no byte is accepted (written = 0): the call made
\* by nxp_stream_shutdown and nxp_stream_close.  FIN is queued, and
\* nxp_sched_add is not reached.
StreamSendFinOnly(s) ==
  /\ pc = "idle"
  /\ ~fin[s]
  /\ fin' = [fin EXCEPT ![s] = TRUE]
  /\ UNCHANGED <<listVars, unsent, fin_sent, outstanding, limitVars, sendVars>>

\* Faulty variant of PacketLost: the stream is not linked again.
PacketLostUnlinked(s, data, f) ==
  /\ pc = "idle"
  /\ outstanding[s]
  /\ f => fin[s]
  /\ unsent' = [unsent EXCEPT ![s] = @ \/ data]
  /\ fin_sent' = [fin_sent EXCEPT ![s] = @ /\ ~f]
  /\ \E more \in BOOLEAN : outstanding' = [outstanding EXCEPT ![s] = more]
  /\ UNCHANGED <<listVars, fin, limitVars, sendVars>>

\* on_packet_lost for a frame of s: nxp_stream_on_loss rewinds to the frame
\* (which carried data, the FIN, both or neither), then the stream is linked
\* again whether or not it has something to send.
PacketLost(s, data, f) ==
  /\ pc = "idle"
  /\ outstanding[s]
  /\ f => fin[s]
  /\ unsent' = [unsent EXCEPT ![s] = @ \/ data]
  /\ fin_sent' = [fin_sent EXCEPT ![s] = @ /\ ~f]
  /\ \E more \in BOOLEAN : outstanding' = [outstanding EXCEPT ![s] = more]
  /\ SchedAdd(s)
  /\ UNCHANGED <<fin, limitVars, sendVars>>

\* The MAX_STREAM_DATA case of process_frames: link the stream if it has
\* unsent bytes.
MaxStreamData(s) ==
  /\ pc = "idle"
  /\ unsent[s]
  /\ SchedAdd(s)
  /\ UNCHANGED <<streamVars, limitVars, sendVars>>

-----------------------------------------------------------------------------
(* The STREAM-frame loop of nxp_conn_send *)

\* Control frames may already be in the packet; the congestion window may
\* forbid stream data (cc_allows = FALSE).  Since the last call time has
\* passed, so a rate limiter may have been refilled, and a MAX_DATA frame may
\* have opened the connection window.
BeginSend(ctl, cc_allows) ==
  /\ pc = "idle"
  /\ pc' = IF cc_allows THEN "loop" ELSE "finish"
  /\ control' = ctl
  /\ frames' = 0
  /\ budget' \in {b \in [Streams -> BOOLEAN] :
                    \A s \in Streams : /\ budget[s] => b[s]
                                       /\ s \notin RateLimited => b[s]}
  /\ window' \in {window, TRUE}
  /\ UNCHANGED <<listVars, streamVars>>

\* The iteration considers the stream at the head of the list.
Iterating ==
  /\ pc = "loop"
  /\ sched_head # Null
  /\ frames < MaxFrames

\* The connection-level window stops the head stream.
WindowStops == unsent[sched_head] /\ ~window

\* An iteration that puts a frame of the head stream into the packet.  The
\* frame carries all that is left (with the FIN, if one is queued) or a part
\* of it; afterwards the packet is full or not, and the connection window is
\* open (win) or exhausted.  The nxp_sched_add that ends the iteration finds
\* the stream still linked and has no effect.
FillFrame(all, full, win) ==
  LET s == sched_head IN
  /\ Iterating
  /\ HasWork(s)
  /\ ~WindowStops
  /\ budget[s]
  /\ ~all => unsent[s]
  /\ win => window
  /\ window /\ ~win => unsent[s]
  /\ SchedNext
  /\ unsent' = [unsent EXCEPT ![s] = ~all]
  /\ fin_sent' = [fin_sent EXCEPT ![s] = @ \/ (all /\ fin[s])]
  /\ outstanding' = [outstanding EXCEPT ![s] = TRUE]
  /\ \E left \in BOOLEAN :
        /\ ~left => s \in RateLimited
        /\ budget' = [budget EXCEPT ![s] = left]
  /\ window' = win
  /\ frames' = frames + 1
  /\ pc' = IF full THEN "finish" ELSE "loop"
  /\ UNCHANGED <<fin, control>>

\* Faulty variant of BreakLoop: the loop goes on.
BreakLoopContinues ==
  /\ Iterating
  /\ HasWork(sched_head)
  /\ WindowStops \/ budget[sched_head]
  /\ SchedNext
  /\ UNCHANGED <<streamVars, limitVars, sendVars>>

\* An iteration that leaves the loop: the connection window is exhausted, or
\* the frame was filled but does not fit, and nxp_stream_on_loss rewinds it.
BreakLoop ==
  /\ Iterating
  /\ HasWork(sched_head)
  /\ WindowStops \/ budget[sched_head]
  /\ SchedNext
  /\ pc' = "finish"
  /\ UNCHANGED <<streamVars, limitVars, frames, control>>

\* An iteration that meets an exhausted rate limiter: "continue".
RateBlocked ==
  /\ Iterating
  /\ HasWork(sched_head)
  /\ ~WindowStops
  /\ ~budget[sched_head]
  /\ SchedNext
  /\ UNCHANGED <<streamVars, limitVars, sendVars>>

\* An iteration for a stream that has nothing to send any more: nxp_sched_next
\* unlinks it, nxp_stream_fill_frame returns false, "continue".
SkipIdle ==
  /\ Iterating
  /\ ~HasWork(sched_head)
  /\ SchedNext
  /\ UNCHANGED <<streamVars, limitVars, sendVars>>

\* The loop condition fails or nxp_sched_next returned null.
LoopExit ==
  /\ pc = "loop"
  /\ sched_head = Null \/ frames = MaxFrames
  /\ pc' = "finish"
  /\ UNCHANGED <<listVars, streamVars, limitVars, frames, control>>

\* After the loop: return 0 for an empty packet; otherwise the packet is
\* recorded, and nxp_sched_next is called once more to find out whether the
\* connection is application-limited.
FinishSend ==
  /\ pc = "finish"
  /\ pc' = "idle"
  /\ frames' = 0
  /\ control' = FALSE
  /\ IF (control \/ frames > 0) /\ sched_head # Null
     THEN SchedNext
     ELSE UNCHANGED listVars
  /\ UNCHANGED <<streamVars, limitVars>>

-----------------------------------------------------------------------------

SendStep ==
  \/ \E all, full, win \in BOOLEAN : FillFrame(all, full, win)
  \/ BreakLoop
  \/ RateBlocked
  \/ SkipIdle
  \/ LoopExit
  \/ FinishSend

Next ==
  \/ \E s \in Streams :
        \/ \E f \in BOOLEAN : StreamSend(s, f)
        \/ StreamSendFinOnly(s)
        \/ \E data, f \in BOOLEAN : PacketLost(s, data, f)
        \/ MaxStreamData(s)
  \/ \E ctl, cc_allows \in BOOLEAN : BeginSend(ctl, cc_allows)
  \/ SendStep

Spec == Init /\ [][Next]_vars

\* nxp_conn_send is straight-line code: once entered, it keeps executing.
SendFairness == WF_vars(SendStep)

FairSpec == Spec /\ SendFairness

-----------------------------------------------------------------------------
(* Properties *)

Linked == {s \in Streams : scheduled[s]}

\* q lists the n linked streams in the order of the ring, from the head.
RingOrder(n, q) ==
  /\ sched_head = IF n = 0 THEN Null ELSE q[1]
  /\ \A i, j \in 1..n : q[i] = q[j] => i = j
  /\ \A i \in 1..n :
        /\ scheduled[q[i]]
        /\ sched_next[q[i]] = q[IF i = n THEN 1 ELSE i + 1]
        /\ sched_prev[q[i]] = q[IF i = 1 THEN n ELSE i - 1]
  /\ \A s \in Streams : ~(\E i \in 1..n : q[i] = s) =>
        ~scheduled[s] /\ sched_next[s] = Null /\ sched_prev[s] = Null

\* The list nxp_sched_add and nxp_sched_remove maintain is one ring: from the
\* head, sched_next visits every scheduled stream exactly once and comes back
\* to the head, sched_prev is its inverse, and an unscheduled stream has no
\* links.
OneRing ==
  LET n == Cardinality(Linked)
  IN  \E q \in [1..n -> Streams] : RingOrder(n, q)

\* "Streams with data to send are added to the list" (scheduler.c:5) and stay
\* there: whatever the order of writes, losses and packet building,
\* nxp_sched_next never drops a stream that has unsent bytes.
DataIsScheduled == \A s \in Streams : unsent[s] => scheduled[s]

\* A linked stream is unlinked only when it has neither unsent bytes nor an
\* unsent FIN (the test in nxp_sched_next).
NeverDropsWork ==
  [][\A s \in Streams : scheduled[s] /\ ~scheduled'[s] => ~HasWork(s)]_vars
=============================================================================
