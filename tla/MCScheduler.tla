---------------------------- MODULE MCScheduler ------------------------------
(* Properties of the stream scheduler, for TLC. *)
EXTENDS Scheduler, Sequences

-----------------------------------------------------------------------------
(* Refinement *)

\* The first k streams met when the list is walked from the head along
\* sched_next, as nxp_conn_send does over k iterations.
Walk(k) ==
  LET at[i \in 1..k] == IF i = 1 THEN sched_head ELSE sched_next[at[i-1]]
  IN  [i \in 1..k |-> at[i]]

\* The linked list implements a queue of distinct streams served in turn.
RR == INSTANCE RoundRobin WITH queue <- Walk(Cardinality(Linked)),
                               work <- {s \in Streams : HasWork(s)}
RefinesRoundRobin == RR!QSpec

-----------------------------------------------------------------------------
(* Liveness *)

\* nxp_conn_send returns whatever the streams hold, the windows and the losses,
\* unless every stream of the list is out of rate-limiter tokens: that alone
\* keeps the STREAM loop going round.
ReturnsUnlessLimited == pc # "idle" ~> (pc = "idle" \/ \A s \in Linked : ~budget[s])

\* Bulk transfer: each stream always has more to send than a packet holds, the
\* connection keeps building packets and nothing stops it.
BulkNext ==
  \/ \E s \in Streams : StreamSend(s, FALSE)
  \/ BeginSend(FALSE, TRUE)
  \/ FillFrame(FALSE, TRUE, TRUE)
  \/ LoopExit
  \/ FinishSend

BulkSpec ==
  /\ Init
  /\ [][BulkNext]_vars
  /\ WF_vars(BeginSend(FALSE, TRUE))
  /\ WF_vars(FillFrame(FALSE, TRUE, TRUE) \/ LoopExit \/ FinishSend)

\* Every stream with bytes to send gets its turn: nxp_sched_next "returns the
\* next stream in round-robin order" (scheduler.c:4-6), so the packets that
\* nxp_conn_send builds are shared between the streams of the list.
TurnComes == \A s \in Streams : unsent[s] ~> outstanding[s]
=============================================================================
