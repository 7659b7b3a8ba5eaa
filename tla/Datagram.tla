------------------------------ MODULE Datagram ------------------------------
(* One datagram from encoder to decoder: a packet header (core/packet.c), then
   the frames nxp_conn_send puts one after the other into the space that is
   left, read back by nxp_conn_recv and process_frames.  The bytes may arrive
   cut off.  Encryption is left out: it keeps lengths apart from the tag.     *)
EXTENDS Frame

CONSTANTS
  Headers,    \* headers to send
  Payloads,   \* frames to send
  Room,       \* sizes of the sender's buffer
  MaxFrames   \* bound: frames in a datagram

VARIABLES
  room,    \* max_len of the sender
  hdr,     \* the header sent
  sent,    \* the frames sent
  bytes,   \* the datagram so far
  stage,   \* "header", "frames", "read", "done", "refused"
  got,     \* the header and the frames read
  todo,    \* the bytes not yet read
  cut      \* bytes were lost

dvars == <<room, hdr, sent, bytes, stage, got, todo, cut>>

-----------------------------------------------------------------------------
(* Headers.                                                                   *)

LongTypes == <<"INITIAL", "HANDSHAKE", "RETRY", "ZERO_RTT">>
TypeBits(t) == (CHOOSE i \in 1..4 : LongTypes[i] = t) - 1

nxp_pkt_encode_long_header(h) ==
  <<192 + TypeBits(h.type) * 16 + (h.pn_len - 1)>> \o BigEndian(h.version, 4)
  \o <<Len(h.dcid)>> \o h.dcid \o <<Len(h.scid)>> \o h.scid
  \o (IF h.type = "INITIAL" THEN Varints(<<Len(h.token)>>) \o h.token ELSE <<>>)
  \o Varints(<<h.payload_len>>) \o BigEndian(h.pkt_num, h.pn_len)

nxp_pkt_encode_short_header(h) ==
  <<64 + (IF h.spin_bit THEN 32 ELSE 0) + (IF h.key_phase THEN 16 ELSE 0) + (h.pn_len - 1)>>
  \o h.dcid \o BigEndian(h.pkt_num, h.pn_len)

\* A connection id behind its length.
CidField(c, name) ==
  IF ~c.ok \/ c.rest = <<>> THEN Refused
  ELSE IF Head(c.rest) > MaxCidLen THEN Refused
  ELSE Bytes(Read(c.f, Tail(c.rest)), name, Head(c.rest))

\* The last field: a packet number of pn_len bytes.
PktNum(c) ==
  IF ~c.ok THEN Refused
  ELSE LET b == Bytes(c, "raw", c.f.pn_len)
       IN  IF b.ok THEN Read(Without(b.f, {"raw"}) @@ [pkt_num |-> Number(b.f.raw)], b.rest) ELSE Refused

nxp_pkt_decode_long_header(buf) ==
  LET first == buf[1]
      type  == LongTypes[((first \div 16) % 4) + 1]
      c0    == Bytes(Read([type |-> type, pn_len |-> (first % 4) + 1], Tail(buf)), "raw", 4)
      c1    == Read(Without(c0.f, {"raw"}) @@ [version |-> Number(c0.f.raw)], c0.rest)
      ids   == CidField(CidField(c1, "dcid"), "scid")
      blob  == Blob(Field(ids, "length"), FieldLimit.token)
      token == IF type # "INITIAL" THEN ids
               ELSE IF ~blob.ok THEN Refused
               ELSE Read(Without(blob.f, {"data"}) @@ [token |-> blob.f.data], blob.rest)
      len   == Field(token, "payload_len")
  IN  IF Len(buf) < 7 \/ first \div 64 # 3 THEN Refused
      ELSE IF type = "RETRY"
           THEN IF token.ok THEN Read([token.f EXCEPT !.pn_len = 0] @@
                                      [payload_len |-> Len(token.rest), pkt_num |-> 0], token.rest)
                ELSE Refused
      ELSE IF ~len.ok \/ len.f.payload_len > 65536 THEN Refused
      ELSE PktNum(len)

\* The receiver knows the length of its connection ids.
nxp_pkt_decode_short_header(buf, dcid_len) ==
  LET first == buf[1]
      head  == Read([type |-> "SHORT", spin_bit |-> (first \div 32) % 2 = 1,
                     key_phase |-> (first \div 16) % 2 = 1, pn_len |-> (first % 4) + 1], Tail(buf))
  IN  IF Len(buf) < dcid_len + 2 \/ first \div 64 # 1 THEN Refused
      ELSE PktNum(Bytes(head, "dcid", dcid_len))

EncodeHeader(h) ==
  IF h.type = "SHORT" THEN nxp_pkt_encode_short_header(h) ELSE nxp_pkt_encode_long_header(h)

-----------------------------------------------------------------------------
Init ==
  /\ room \in Room
  /\ hdr = <<>> /\ sent = <<>> /\ bytes = <<>> /\ stage = "header"
  /\ got = [header |-> <<>>, frames |-> <<>>] /\ todo = <<>> /\ cut = FALSE

\* The header is only written when it fits.
WriteHeader(h) ==
  /\ stage = "header" /\ Len(EncodeHeader(h)) <= room
  /\ hdr' = h /\ bytes' = EncodeHeader(h) /\ stage' = "frames"
  /\ UNCHANGED <<room, sent, got, todo, cut>>

\* An encoder is given the space that is left; what it refuses is not sent.
WrittenFrame(f) == Encode(f, room - Len(bytes))

WriteFrame(f) ==
  LET b == WrittenFrame(f)
  IN  /\ stage = "frames" /\ Len(sent) < MaxFrames /\ b # <<>>
      /\ (f.type = 0 /\ sent # <<>>) => Last(sent).type # 0
      /\ sent' = Append(sent, f) /\ bytes' = bytes \o b
      /\ UNCHANGED <<room, hdr, stage, got, todo, cut>>

\* The datagram arrives, whole or cut off.
Deliver(n) ==
  /\ stage = "frames" /\ sent # <<>>
  /\ todo' = SubSeq(bytes, 1, n) /\ cut' = (n < Len(bytes)) /\ stage' = "arrived"
  /\ UNCHANGED <<room, hdr, sent, bytes, got>>

ReadHeader ==
  /\ stage = "arrived"
  /\ LET c == IF todo = <<>> THEN Refused
              ELSE IF todo[1] \div 128 = 1 THEN nxp_pkt_decode_long_header(todo)
              ELSE nxp_pkt_decode_short_header(todo, IF hdr.type = "SHORT" THEN Len(hdr.dcid) ELSE 0)
     IN  /\ stage' = IF c.ok THEN "read" ELSE "refused"
         /\ todo' = c.rest
         /\ got' = IF c.ok THEN [got EXCEPT !.header = c.f] ELSE got
  /\ UNCHANGED <<room, hdr, sent, bytes, cut>>

\* One turn of the loop of process_frames.
ReadFrame ==
  /\ stage = "read"
  /\ IF todo = <<>> THEN stage' = "done" /\ UNCHANGED <<got, todo>>
     ELSE LET c == nxp_frame_decode(todo)
          IN  /\ stage' = IF c.ok THEN "read" ELSE "refused"
              /\ todo' = c.rest
              /\ got' = IF c.ok THEN [got EXCEPT !.frames = Append(@, c.f)] ELSE got
  /\ UNCHANGED <<room, hdr, sent, bytes, cut>>

Next ==
  \/ \E h \in Headers : WriteHeader(h)
  \/ \E f \in Payloads : WriteFrame(f)
  \/ \E n \in 0..Len(bytes) : Deliver(n)
  \/ ReadHeader
  \/ ReadFrame

Spec == Init /\ [][Next]_dvars

-----------------------------------------------------------------------------
\* The sender never writes past its buffer, whatever frames follow each other.
NeverOverflows == Len(bytes) <= room

\* A datagram that arrives whole is read back as it was written, header and
\* frames: each encoder and the decoder agree on the layout.
ReadsWhatWasWritten ==
  /\ (stage \in {"done", "refused"} /\ ~cut) => (stage = "done" /\ got.frames = sent)
  /\ stage = "read" => got.header = hdr

\* Of a datagram that was cut off only whole frames that were sent are read:
\* no missing byte is made up (the bounds checks of nxp_frame_decode).
CutNeverInvents ==
  /\ Len(got.frames) <= Len(sent)
  /\ \A i \in DOMAIN got.frames : got.frames[i].type = sent[i].type
  /\ \A i \in DOMAIN got.frames : sent[i].type # 0 => got.frames[i] = sent[i]
=============================================================================
