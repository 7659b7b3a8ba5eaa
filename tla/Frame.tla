-------------------------------- MODULE Frame --------------------------------
(* The frames of a packet (core/frame.c).  A frame is a record whose fields
   carry the names of the C structure.  Every frame is a list of
   variable-length integers, the first one its type, and raw bytes behind them:
   an encoder is given by that list, a case of the decoder by the fields it
   reads, each from its own code.                                             *)
EXTENDS Varint, FiniteSets, TLC

CONSTANTS
  TokenLen,    \* length of a stateless reset token (16)
  PathLen,     \* length of a path challenge (8)
  MaxCidLen,   \* NXP_MAX_CID_LEN
  MaxRangesInFrame  \* NXP_ACK_MAX_RANGES

FieldLimit == [stream_id |-> 2^30, offset |-> 2^30, stream |-> 1048576, crypto |-> 16384,
          token |-> 1024, reason |-> 1024, datagram |-> 65536]

-----------------------------------------------------------------------------
(* Encoding.  A single byte below 64 is its own variable-length integer.      *)

Layout(nums, raw) == [nums |-> nums, raw |-> raw]

nxp_frame_encode_padding(f) == Layout([i \in 1..f.count |-> 0], <<>>)
nxp_frame_encode_ping(f) == Layout(<<1>>, <<>>)

nxp_frame_encode_ack(f) ==
  Layout(<<IF f.has_ecn THEN 3 ELSE 2, f.largest_acked, f.ack_delay, Len(f.ranges), f.first_ack_range>>
         \o FlattenSeq(f.ranges) \o (IF f.has_ecn THEN f.ecn ELSE <<>>), <<>>)

nxp_frame_encode_reset_stream(f) == Layout(<<4, f.stream_id, f.error_code, f.final_size>>, <<>>)
nxp_frame_encode_stop_sending(f) == Layout(<<5, f.stream_id, f.error_code>>, <<>>)
nxp_frame_encode_crypto(f) == Layout(<<6, f.offset, Len(f.data)>>, f.data)
nxp_frame_encode_new_token(f) == Layout(<<7, Len(f.data)>>, f.data)

\* The length is always present in the frames of nxp_stream_get_frame.
nxp_frame_encode_stream(f) ==
  Layout(<<8 + (IF f.has_offset THEN 4 ELSE 0) + 2 + (IF f.fin THEN 1 ELSE 0), f.stream_id>>
         \o (IF f.has_offset THEN <<f.offset>> ELSE <<>>) \o <<Len(f.data)>>, f.data)

nxp_frame_encode_max_data(f) == Layout(<<16, f.max_data>>, <<>>)
nxp_frame_encode_max_stream_data(f) == Layout(<<17, f.stream_id, f.max_stream_data>>, <<>>)
nxp_frame_encode_max_streams(f) == Layout(<<IF f.is_bidi THEN 18 ELSE 19, f.max_streams>>, <<>>)
nxp_frame_encode_data_blocked(f) == Layout(<<20, f.max_data>>, <<>>)
nxp_frame_encode_stream_data_blocked(f) == Layout(<<21, f.stream_id, f.max_stream_data>>, <<>>)
nxp_frame_encode_streams_blocked(f) == Layout(<<IF f.is_bidi THEN 22 ELSE 23, f.max_streams>>, <<>>)

\* Encode refuses ids longer than NXP_MAX_CID_LEN.
nxp_frame_encode_new_connection_id(f) ==
  Layout(<<24, f.seq_num, f.retire_prior_to, Len(f.cid)>>, f.cid \o f.token)

nxp_frame_encode_retire_connection_id(f) == Layout(<<25, f.seq_num>>, <<>>)
nxp_frame_encode_path_challenge(f) == Layout(<<26>>, f.data)
nxp_frame_encode_path_response(f) == Layout(<<27>>, f.data)

nxp_frame_encode_connection_close(f) ==
  Layout(<<IF f.is_app THEN 29 ELSE 28, f.error_code>>
         \o (IF f.is_app THEN <<>> ELSE <<f.frame_type>>) \o <<Len(f.data)>>, f.data)

nxp_frame_encode_handshake_done(f) == Layout(<<30>>, <<>>)
nxp_frame_encode_heartbeat(f) == Layout(<<32, f.timestamp_us>>, <<>>)
nxp_frame_encode_stream_priority(f) == Layout(<<33, f.stream_id>>, <<f.priority>>)
nxp_frame_encode_datagram(f) == Layout(<<34, Len(f.data)>>, f.data)

LayoutOf(f) ==
  CASE f.type = 0 -> nxp_frame_encode_padding(f)
    [] f.type = 1 -> nxp_frame_encode_ping(f)
    [] f.type \in {2, 3} -> nxp_frame_encode_ack(f)
    [] f.type = 4 -> nxp_frame_encode_reset_stream(f)
    [] f.type = 5 -> nxp_frame_encode_stop_sending(f)
    [] f.type = 6 -> nxp_frame_encode_crypto(f)
    [] f.type = 7 -> nxp_frame_encode_new_token(f)
    [] f.type = 8 -> nxp_frame_encode_stream(f)
    [] f.type = 16 -> nxp_frame_encode_max_data(f)
    [] f.type = 17 -> nxp_frame_encode_max_stream_data(f)
    [] f.type \in {18, 19} -> nxp_frame_encode_max_streams(f)
    [] f.type = 20 -> nxp_frame_encode_data_blocked(f)
    [] f.type = 21 -> nxp_frame_encode_stream_data_blocked(f)
    [] f.type \in {22, 23} -> nxp_frame_encode_streams_blocked(f)
    [] f.type = 24 -> nxp_frame_encode_new_connection_id(f)
    [] f.type = 25 -> nxp_frame_encode_retire_connection_id(f)
    [] f.type = 26 -> nxp_frame_encode_path_challenge(f)
    [] f.type = 27 -> nxp_frame_encode_path_response(f)
    [] f.type \in {28, 29} -> nxp_frame_encode_connection_close(f)
    [] f.type = 30 -> nxp_frame_encode_handshake_done(f)
    [] f.type = 32 -> nxp_frame_encode_heartbeat(f)
    [] f.type = 33 -> nxp_frame_encode_stream_priority(f)
    [] f.type = 34 -> nxp_frame_encode_datagram(f)

\* encode_varint for each value in turn.
Varints(values) == FlattenSeq([i \in DOMAIN values |-> nxp_varint_encode(values[i], 8)])

\* The bytes written, none when they do not fit in room.
Encode(f, room) ==
  LET l == LayoutOf(f)
      b == Varints(l.nums) \o l.raw
      too_long == IF f.type = 24 THEN Len(f.cid) > MaxCidLen ELSE FALSE
  IN  IF Len(b) <= room /\ ~too_long THEN b ELSE <<>>

-----------------------------------------------------------------------------
(* Decoding.  A cursor is what has been read and the bytes that are left.      *)

Refused == [ok |-> FALSE, f |-> [type |-> 0], rest |-> <<>>]
Read(f, rest) == [ok |-> TRUE, f |-> f, rest |-> rest]

\* decode_varint of one field.
Field(c, name) ==
  IF ~c.ok \/ c.rest = <<>> THEN Refused
  ELSE LET r == nxp_varint_decode(c.rest)
       IN  IF r.n = 0 THEN Refused
           ELSE Read(c.f @@ (name :> r.value), SubSeq(c.rest, r.n + 1, Len(c.rest)))

Fields(c, names) ==
  LET after[i \in 0..Len(names)] == IF i = 0 THEN c ELSE Field(after[i - 1], names[i])
  IN  after[Len(names)]

\* The next n bytes.
Bytes(c, name, n) ==
  IF ~c.ok \/ Len(c.rest) < n THEN Refused
  ELSE Read(c.f @@ (name :> SubSeq(c.rest, 1, n)), SubSeq(c.rest, n + 1, Len(c.rest)))

Without(f, names) == [x \in DOMAIN f \ names |-> f[x]]

\* As many bytes as a length field says, up to a limit.
Blob(c, max) ==
  IF ~c.ok \/ c.f.length > max THEN Refused
  ELSE Bytes([c EXCEPT !.f = Without(c.f, {"length"})], "data", c.f.length)

nxp_frame_is_stream(byte) == byte \div 8 = 1

decode_padding(buf) ==
  LET n == CHOOSE k \in 1..Len(buf) : (\A i \in 1..k : buf[i] = 0) /\ (k < Len(buf) => buf[k + 1] # 0)
  IN  Read([type |-> 0, count |-> n], SubSeq(buf, n + 1, Len(buf)))

\* STREAM: without the LEN bit the data goes to the end of the packet.
decode_stream(buf) ==
  LET bits    == buf[1] % 8
      has_off == bits \div 4 = 1
      has_len == (bits \div 2) % 2 = 1
      start   == [type |-> 8, has_offset |-> has_off, fin |-> bits % 2 = 1] @@ (IF has_off THEN <<>> ELSE [offset |-> 0])
      c       == Fields(Read(start, Tail(buf)), <<"stream_id">> \o (IF has_off THEN <<"offset">> ELSE <<>>)
                                                \o (IF has_len THEN <<"length">> ELSE <<>>))
      whole   == IF has_len \/ ~c.ok THEN c ELSE Read(c.f @@ [length |-> Len(c.rest)], c.rest)
  IN  IF ~c.ok \/ c.f.stream_id > FieldLimit.stream_id \/ c.f.offset > FieldLimit.offset THEN Refused
      ELSE Blob(whole, FieldLimit.stream)

\* ACK: pairs of gap and length follow, then the ECN counts.
ack_fields(t) == <<"largest_acked", "ack_delay", "range_count", "first_ack_range">>
decode_ack(c) ==
  LET n    == c.f.range_count
      pair == [i \in 1..(2 * n + 3) |-> i]
      has  == c.f.type = 3
      r    == Fields(Read(<<>>, c.rest), SubSeq(pair, 1, 2 * n + (IF has THEN 3 ELSE 0)))
  IN  IF n > MaxRangesInFrame \/ ~r.ok THEN Refused
      ELSE Read(Without(c.f, {"range_count"})
                @@ [has_ecn |-> has, ranges |-> [i \in 1..n |-> <<r.f[2 * i - 1], r.f[2 * i]>>]]
                @@ (IF has THEN [ecn |-> [i \in 1..3 |-> r.f[2 * n + i]]] ELSE <<>>), r.rest)

reset_fields(t) == IF t = 4 THEN <<"stream_id", "error_code", "final_size">> ELSE <<"stream_id", "error_code">>
crypto_fields(t) == IF t = 6 THEN <<"offset", "length">> ELSE <<"length">>

\* MAX_DATA, MAX_STREAM_DATA, MAX_STREAMS and the BLOCKED frames.
limit_fields(t) ==
  IF t \in {16, 20} THEN <<"max_data">>
  ELSE IF t \in {17, 21} THEN <<"stream_id", "max_stream_data">> ELSE <<"max_streams">>
decode_streams_limit(c) == Read(c.f @@ [is_bidi |-> c.f.type \in {18, 22}], c.rest)

decode_new_connection_id(c) ==
  IF c.rest = <<>> THEN Refused
  ELSE IF Head(c.rest) > MaxCidLen \/ Len(c.rest) < 1 + Head(c.rest) + TokenLen THEN Refused
  ELSE LET n == Head(c.rest)
       IN  Read(c.f @@ [cid |-> SubSeq(c.rest, 2, n + 1), token |-> SubSeq(c.rest, n + 2, n + 1 + TokenLen)],
                SubSeq(c.rest, n + 2 + TokenLen, Len(c.rest)))

\* Mutant: the offending frame type is read for both kinds of close.
close_reads_type(t) == <<"error_code", "frame_type", "length">>
close_fields(t) == IF t = 29 THEN <<"error_code", "length">> ELSE <<"error_code", "frame_type", "length">>

\* PATH_CHALLENGE and PATH_RESPONSE are raw bytes behind the type.
path_fields(t) == <<>>

\* HANDSHAKE_DONE, HEARTBEAT, STREAM_PRIORITY, DATAGRAM.
extension_fields(t) ==
  IF t = 32 THEN <<"timestamp_us">> ELSE IF t = 33 THEN <<"stream_id">> ELSE IF t = 34 THEN <<"length">> ELSE <<>>
decode_stream_priority(c) ==
  IF c.rest = <<>> THEN Refused ELSE Read(c.f @@ [priority |-> Head(c.rest)], Tail(c.rest))

\* The integers behind the type, for the types the switch knows.
FieldsOf(t) ==
  CASE t \in {2, 3} -> ack_fields(t)
    [] t \in {4, 5} -> reset_fields(t)
    [] t \in {6, 7} -> crypto_fields(t)
    [] t \in 16..23 -> limit_fields(t)
    [] t = 24 -> <<"seq_num", "retire_prior_to">>
    [] t = 25 -> <<"seq_num">>
    [] t \in {26, 27} -> path_fields(t)
    [] t \in {28, 29} -> close_fields(t)
    [] t \in {30, 32, 33, 34} -> extension_fields(t)
    [] OTHER -> <<>>

LimitOf(t) ==
  IF t = 6 THEN FieldLimit.crypto ELSE IF t = 34 THEN FieldLimit.datagram
  ELSE IF t = 7 THEN FieldLimit.token ELSE FieldLimit.reason

\* What follows the integers.
Body(c) ==
  LET t == c.f.type
  IN  CASE t \in {2, 3} -> decode_ack(c)
        [] t \in {6, 7, 28, 29, 34} ->
             Blob(IF t \in {28, 29} THEN Read(c.f @@ [is_app |-> t = 29], c.rest) ELSE c, LimitOf(t))
        [] t \in {18, 19, 22, 23} -> decode_streams_limit(c)
        [] t = 24 -> decode_new_connection_id(c)
        [] t \in {26, 27} -> Bytes(c, "data", PathLen)
        [] t = 33 -> decode_stream_priority(c)
        [] t \in {1, 4, 5, 16, 17, 20, 21, 25, 30, 32} -> c
        [] OTHER -> Refused

nxp_frame_decode(buf) ==
  IF buf[1] = 0 THEN decode_padding(buf)
  ELSE IF nxp_frame_is_stream(buf[1]) THEN decode_stream(buf)
  ELSE LET t == Field(Read(<<>>, buf), "type")
           c == IF t.ok THEN Fields(t, FieldsOf(t.f.type)) ELSE t
       IN  IF c.ok THEN Body(c) ELSE Refused
=============================================================================
