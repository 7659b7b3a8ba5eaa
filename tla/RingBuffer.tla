----------------------------- MODULE RingBuffer ------------------------------
(* The single-producer single-consumer byte queue of util/ring_buffer.c.  The
   two threads run step by step: the loads of the positions, the copy of each
   byte, the store that publishes.  The byte written at a position of the
   stream is that position, so that a wrong byte is seen when it is read.
   Positions wrap around at Wrap (2^64 in the code).                          *)
EXTENDS Naturals, Bitwise, FiniteSets

CONSTANTS
  Requested,  \* capacity asked for
  Wrap,       \* size_t
  MaxLen      \* bound: bytes in one call

VARIABLES
  rb_data,    \* the bytes
  write_pos, read_pos,
  wr, rd,     \* of producer and consumer: program counter, loaded position, length, bytes copied
  rb_wrong    \* what went wrong: a byte out of order, a count that is out of range

Idle == [pc |-> "idle", seen |-> 0, len |-> 0, done |-> 0]
Junk == Wrap   \* contents of fresh memory

\* Mutant: the capacity is used as it is asked for.
capacity_as_asked(n) == n
next_power_of_2(n) == CHOOSE p \in {2^k : k \in 0..10} : p >= n /\ \A k \in 0..10 : 2^k >= n => p <= 2^k

Cap == next_power_of_2(Requested)
Index(pos) == pos & (Cap - 1)
Sub(a, b) == (a + Wrap - b) % Wrap
Least(a, b) == IF a < b THEN a ELSE b

RingInit ==
  /\ rb_data = [i \in 0..(Cap - 1) |-> Junk]
  /\ write_pos = 0 /\ read_pos = 0 /\ wr = Idle /\ rd = Idle /\ rb_wrong = {}

-----------------------------------------------------------------------------
(* The producer.                                                              *)

Available(r) == Cap - Sub(write_pos, r)

WriteBegin(n) ==
  /\ wr.pc = "idle"
  /\ LET len == Least(n, Available(read_pos))
     IN  wr' = IF len = 0 THEN Idle ELSE [pc |-> "copy", seen |-> read_pos, len |-> len, done |-> 0]
  /\ UNCHANGED <<rb_data, write_pos, read_pos, rd, rb_wrong>>

\* memcpy in one or two parts, byte by byte.
WriteByte ==
  /\ wr.pc = "copy" /\ wr.done < wr.len
  /\ rb_data' = [rb_data EXCEPT ![Index(write_pos + wr.done)] = (write_pos + wr.done) % Wrap]
  /\ wr' = [wr EXCEPT !.done = @ + 1]
  /\ UNCHANGED <<write_pos, read_pos, rd, rb_wrong>>

WritePublish ==
  /\ wr.pc = "copy" /\ wr.done = wr.len
  /\ write_pos' = (write_pos + wr.len) % Wrap
  /\ wr' = Idle
  /\ UNCHANGED <<rb_data, read_pos, rd, rb_wrong>>

-----------------------------------------------------------------------------
(* The consumer.                                                              *)

ReadBegin(n) ==
  /\ rd.pc = "idle"
  /\ LET len == Least(n, Sub(write_pos, read_pos))
     IN  rd' = IF len = 0 THEN Idle ELSE [pc |-> "copy", seen |-> write_pos, len |-> len, done |-> 0]
  /\ UNCHANGED <<rb_data, write_pos, read_pos, wr, rb_wrong>>

ReadByte ==
  /\ rd.pc = "copy" /\ rd.done < rd.len
  /\ rb_wrong' = IF rb_data[Index(read_pos + rd.done)] = (read_pos + rd.done) % Wrap THEN rb_wrong
                 ELSE rb_wrong \cup {"byte"}
  /\ rd' = [rd EXCEPT !.done = @ + 1]
  /\ UNCHANGED <<rb_data, write_pos, read_pos, wr>>

ReadPublish ==
  /\ rd.pc = "copy" /\ rd.done = rd.len
  /\ read_pos' = (read_pos + rd.len) % Wrap
  /\ rd' = Idle
  /\ UNCHANGED <<rb_data, write_pos, wr, rb_wrong>>

\* readable and writable, called by one of the two threads: write_pos is
\* loaded first, read_pos in a second step.
nxp_ring_buffer_readable ==
  \/ /\ rd.pc = "idle" /\ rd' = [Idle EXCEPT !.pc = "query", !.seen = write_pos]
     /\ UNCHANGED <<rb_data, write_pos, read_pos, wr, rb_wrong>>
  \/ /\ rd.pc = "query" /\ rd' = Idle
     /\ rb_wrong' = IF Sub(rd.seen, read_pos) <= Cap THEN rb_wrong ELSE rb_wrong \cup {"count"}
     /\ UNCHANGED <<rb_data, write_pos, read_pos, wr>>

nxp_ring_buffer_writable ==
  \/ /\ wr.pc = "idle" /\ wr' = [Idle EXCEPT !.pc = "query", !.seen = write_pos]
     /\ UNCHANGED <<rb_data, write_pos, read_pos, rd, rb_wrong>>
  \/ /\ wr.pc = "query" /\ wr' = Idle
     /\ rb_wrong' = IF Sub(wr.seen, read_pos) <= Cap THEN rb_wrong ELSE rb_wrong \cup {"count"}
     /\ UNCHANGED <<rb_data, write_pos, read_pos, rd>>

RingNext ==
  \/ \E n \in 1..MaxLen : WriteBegin(n) \/ ReadBegin(n)
  \/ WriteByte \/ WritePublish \/ ReadByte \/ ReadPublish
  \/ nxp_ring_buffer_readable \/ nxp_ring_buffer_writable

-----------------------------------------------------------------------------
\* Every byte the consumer reads is the one the producer wrote at that place of
\* the stream, whatever the two threads do in between (the memory orders of
\* write_pos and read_pos): no byte is lost, repeated or read too early.
RingIsFifo == "byte" \notin rb_wrong

\* The counts of readable and writable never underflow, and the two positions
\* are never further apart than the capacity, also when they wrap around.
RingCounts == "count" \notin rb_wrong /\ Sub(write_pos, read_pos) <= Cap
=============================================================================
