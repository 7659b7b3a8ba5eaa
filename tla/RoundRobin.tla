----------------------------- MODULE RoundRobin ------------------------------
(***************************************************************************)
(* What the stream scheduler promises, without links: a queue of distinct  *)
(* streams.  A stream joins at the tail, the stream at the front is either *)
(* moved to the tail because it has work or dropped because it has none.   *)
(***************************************************************************)
EXTENDS Naturals, Sequences, SequencesExt

CONSTANT Streams

VARIABLES queue,  \* streams in the order in which they will be served
          work    \* streams with something to send

QInit == queue = <<>> /\ work = {}

\* A stream gets something to send, or is linked without it.
Enqueue(s) ==
  /\ queue' = IF Contains(queue, s) THEN queue ELSE Append(queue, s)
  /\ work' \in {work, work \cup {s}}

\* A FIN queued without data does not put its stream in the queue.
QueueFin(s) ==
  /\ queue' = queue
  /\ work' = work \cup {s}

\* The turn of the stream at the front, which may have sent all it had.
Serve ==
  /\ queue # <<>>
  /\ Head(queue) \in work
  /\ queue' = Append(Tail(queue), Head(queue))
  /\ work' \in {work, work \ {Head(queue)}}

\* The stream at the front has nothing to send.
Drop ==
  /\ queue # <<>>
  /\ Head(queue) \notin work
  /\ queue' = Tail(queue)
  /\ work' = work

QNext ==
  \/ \E s \in Streams : Enqueue(s) \/ QueueFin(s)
  \/ Serve
  \/ Drop

QSpec == QInit /\ [][QNext]_<<queue, work>>
=============================================================================
