------------------------------- MODULE Varint -------------------------------
(* Variable-length integers (util/varint.c) for bytes of W bits: a value takes
   1, 2, 4 or 8 bytes and the two high bits of the first byte say which.  The
   code has W = 8.                                                            *)
EXTENDS Naturals, Sequences, SequencesExt

CONSTANT W

Byte == 0..(2^W - 1)
Sizes == <<1, 2, 4, 8>>

\* Values that n bytes can hold beside the prefix.
Fits(v, n) == v < 2^(W * n - 2)

\* The n low bytes of v, most significant first.
BigEndian(v, n) == [i \in 1..n |-> (v \div 2^(W * (n - i))) % 2^W]

\* The number written most significant byte first.
Number(bytes) == FoldLeft(LAMBDA acc, b : acc * 2^W + b, 0, bytes)

\* Index into Sizes of the shortest encoding; 0 when the value is too large.
nxp_varint_len(v) ==
  IF Fits(v, 1) THEN 1 ELSE IF Fits(v, 2) THEN 2 ELSE IF Fits(v, 4) THEN 3 ELSE IF Fits(v, 8) THEN 4 ELSE 0

\* The bytes written, none when the value is too large or the room too small.
nxp_varint_encode(v, room) ==
  LET k == nxp_varint_len(v)
  IN  IF k = 0 \/ room < Sizes[k] THEN <<>>
      ELSE [BigEndian(v, Sizes[k]) EXCEPT ![1] = @ + (k - 1) * 2^(W - 2)]

\* Bytes consumed and value; 0 bytes when the buffer ends too early.
nxp_varint_decode(buf) ==
  LET n == Sizes[(buf[1] \div 2^(W - 2)) + 1]
  IN  IF buf = <<>> \/ Len(buf) < n THEN [n |-> 0, value |-> 0]
      ELSE [n |-> n, value |-> Number([SubSeq(buf, 1, n) EXCEPT ![1] = @ % 2^(W - 2)])]
=============================================================================
