------------------------------- MODULE Framing -------------------------------
(* Messages over a byte stream: the length prefix of transport/tcp and the
   frames of transport/websocket.  The stream is cut anywhere: recv returns any
   number of the bytes under way and send may take only the first part.  A byte
   of a length or a payload has B values (256 in the code), the short length
   field of a WebSocket frame LenBits bits (7 in the code).                   *)
EXTENDS Naturals, Sequences, SequencesExt, FiniteSetsExt, Bitwise

CONSTANTS
  B, LenBits,
  TcpMessages, WsMessages,  \* payloads
  Keys,                     \* masking keys
  AppCap,                   \* size of the buffer the caller of recv passes
  MaxSends                  \* bound: messages sent over one connection

VARIABLES
  t_sent, t_torn,   \* TCP: messages sent; number of the first one only partly taken by send, or 0
  t_wire, t_buf,    \* bytes under way, recv_buf[0..recv_pos)
  t_got,            \* messages returned by tcp_recv
  w_state,          \* WebSocket client: "upgrading", "connected", "ended" (CLOSE received), "freed"
  w_sent, w_wire, w_buf, w_got,     \* the same from the server to the client
  w_dropped,        \* bytes were read together with the 101 response
  w_said, w_torn, w_out             \* frames from the client to the server

tcp_vars == <<t_sent, t_torn, t_wire, t_buf, t_got>>
ws_vars == <<w_state, w_sent, w_wire, w_buf, w_got, w_dropped, w_said, w_torn, w_out>>
fvars == <<tcp_vars, ws_vars>>

Cut(s, n) == SubSeq(s, 1, n)
Drop(s, n) == SubSeq(s, n + 1, Len(s))
Min2(a, b) == IF a < b THEN a ELSE b

\* n bytes, most significant first, and back.
Big(v, n) == [i \in 1..n |-> (v \div B^(n - i)) % B]
Value(s) == FoldLeft(LAMBDA acc, b : acc * B + b, 0, s)

-----------------------------------------------------------------------------
(* TCP.                                                                       *)

TcpCap == B * B        \* recv_buf
TcpMax == B * B - 1    \* longest message tcp_send takes

TcpInit == t_sent = <<>> /\ t_torn = 0 /\ t_wire = <<>> /\ t_buf = <<>> /\ t_got = <<>>

\* send() takes the first k bytes of prefix and payload; the rest is given up.
tcp_send(m, k) ==
  LET frame == Big(Len(m), 2) \o m
  IN  /\ Len(m) <= TcpMax /\ Len(t_sent) < MaxSends /\ k \in 1..Len(frame)
      /\ t_wire' = t_wire \o Cut(frame, k)
      /\ t_sent' = Append(t_sent, m)
      /\ t_torn' = IF t_torn = 0 /\ k < Len(frame) THEN Len(t_sent) + 1 ELSE t_torn
      /\ UNCHANGED <<t_buf, t_got>>

\* Mutant: the prefix stays in the buffer.
keeps_prefix(buf) == Drop(buf, Value(Cut(buf, 2)))

\* The buffer starts with a whole message.
Complete(buf) == Len(buf) >= 2 /\ Value(Cut(buf, 2)) # 0 /\ Len(buf) >= Value(Cut(buf, 2)) + 2
Consumed(buf) == Drop(buf, Value(Cut(buf, 2)) + 2)

\* One call returns at most one message.  Nothing is looked at when recv has
\* no byte to return.
tcp_recv(n) ==
  LET buf == t_buf \o Cut(t_wire, n)
      len == Value(Cut(buf, 2))
  IN  /\ n \in 1..Min2(TcpCap - Len(t_buf), Len(t_wire))
      /\ t_wire' = Drop(t_wire, n)
      /\ IF Complete(buf)
         THEN t_got' = Append(t_got, Cut(SubSeq(buf, 3, len + 2), Min2(len, AppCap))) /\ t_buf' = Consumed(buf)
         ELSE t_buf' = buf /\ t_got' = t_got
      /\ UNCHANGED <<t_sent, t_torn>>

TcpNext ==
  \/ \E m \in TcpMessages : \E k \in {1, 2, Len(m) + 1, Len(m) + 2} : tcp_send(m, k)
  \/ \E n \in 1..Len(t_wire) : tcp_recv(n)

-----------------------------------------------------------------------------
(* WebSocket frames.                                                          *)

BINARY == 2
CLOSE == 8
PING == 9
PONG == 10
NoKey == <<>>

Masked(payload, key) ==
  IF key = NoKey THEN payload ELSE [i \in DOMAIN payload |-> payload[i] ^^ key[((i - 1) % 4) + 1]]

\* The length: in the second byte, in two more or in eight more.
LengthBytes(len, mask) ==
  IF len <= 2^LenBits - 3 THEN <<mask + len>>
  ELSE IF len <= B * B - 1 THEN <<mask + 2^LenBits - 2>> \o Big(len, 2)
  ELSE <<mask + 2^LenBits - 1>> \o Big(len, 8)

\* All frames are sent with FIN.
ws_frame_encode(op, key, payload) ==
  <<128 + op>> \o LengthBytes(Len(payload), IF key = NoKey THEN 0 ELSE 2^LenBits)
  \o key \o Masked(payload, key)

\* The first frame of a buffer; total is 0 while it is incomplete.
ws_frame_decode(buf) ==
  LET masked == buf[2] \div 2^LenBits = 1
      short  == buf[2] % 2^LenBits
      ext    == IF short = 2^LenBits - 2 THEN 2 ELSE IF short = 2^LenBits - 1 THEN 8 ELSE 0
      len    == IF ext = 0 THEN short ELSE Value(SubSeq(buf, 3, 2 + ext))
      at     == 2 + ext + IF masked THEN 4 ELSE 0
      key    == IF masked THEN SubSeq(buf, 3 + ext, at) ELSE NoKey
      none   == [total |-> 0, op |-> 0, at |-> 0, payload |-> <<>>]
  IN  IF Len(buf) < 2 THEN none
      ELSE IF Len(buf) < at THEN none
      ELSE IF Len(buf) < at + len THEN none
      ELSE [total |-> at + len, op |-> buf[1] % 16, at |-> at,
            payload |-> Masked(SubSeq(buf, at + 1, at + len), key)]

-----------------------------------------------------------------------------
(* The WebSocket client.                                                      *)

WsCap == B * B + 14
Response == 101     \* the whole 101 response, first on the stream

WsInit ==
  /\ w_state = "upgrading" /\ w_wire = <<Response>> /\ w_sent = <<>> /\ w_buf = <<>> /\ w_got = <<>>
  /\ w_dropped = FALSE /\ w_said = <<>> /\ w_torn = 0 /\ w_out = <<>>

\* The server sends a frame (it is not part of the repository).
ServerSend(op, m) ==
  /\ Len(w_sent) + Len(w_said) < MaxSends
  /\ w_sent' = Append(w_sent, [op |-> op, payload |-> m])
  /\ w_wire' = w_wire \o ws_frame_encode(op, NoKey, m)
  /\ UNCHANGED <<w_state, w_buf, w_got, w_dropped, w_said, w_torn, w_out>>

\* The response and whatever arrived with it is read into a local buffer.
ws_complete_handshake(n) ==
  /\ w_state = "upgrading" /\ n \in 1..Len(w_wire)
  /\ w_state' = "connected" /\ w_wire' = Drop(w_wire, n) /\ w_dropped' = (n > 1)
  /\ UNCHANGED <<w_sent, w_buf, w_got, w_said, w_torn, w_out>>

\* A frame goes out; ws_send reports success when send() took part of it.
Say(op, key, payload, k) ==
  /\ w_out' = w_out \o Cut(ws_frame_encode(op, key, payload), k)
  /\ w_said' = Append(w_said, [op |-> op, payload |-> payload])
  /\ w_torn' = IF w_torn = 0 /\ k < Len(ws_frame_encode(op, key, payload)) THEN Len(w_said) + 1 ELSE w_torn

ws_send(m, key, k) ==
  /\ w_state = "connected" /\ Len(w_sent) + Len(w_said) < MaxSends
  /\ Say(BINARY, key, m, k)
  /\ UNCHANGED <<w_state, w_sent, w_wire, w_buf, w_got, w_dropped>>

\* What a call of ws_recv returns to the application.
DataOps(op) == {BINARY}

\* The payload of a PONG is read where the PING lay, after the bytes behind
\* the PING were moved to the front of the buffer.
PongPayload(buf, f) ==
  LET rest == Drop(buf, f.total)
  IN  [i \in DOMAIN f.payload |-> IF f.at + i <= Len(rest) THEN rest[f.at + i] ELSE f.payload[i]]

ws_recv(n) ==
  LET buf == w_buf \o Cut(w_wire, n)
      f   == ws_frame_decode(buf)
  IN  /\ w_state = "connected" /\ n \in 1..Min2(WsCap - Len(w_buf), Len(w_wire))
      /\ w_wire' = Drop(w_wire, n)
      /\ w_buf' = IF f.total = 0 THEN buf ELSE Drop(buf, f.total)
      /\ w_got' = IF f.total # 0 /\ f.op \in DataOps(f.op) THEN Append(w_got, Cut(f.payload, Min2(Len(f.payload), AppCap))) ELSE w_got
      /\ w_state' = IF f.total # 0 /\ f.op = CLOSE THEN "ended" ELSE w_state
      /\ IF f.total # 0 /\ f.op = PING
         THEN Say(PONG, NoKey, PongPayload(buf, f), Len(ws_frame_encode(PONG, NoKey, f.payload)))
         ELSE UNCHANGED <<w_said, w_torn, w_out>>
      /\ UNCHANGED <<w_sent, w_dropped>>

\* A CLOSE frame is sent on a live connection, with a key of zeros.
ws_close ==
  /\ w_state # "freed" /\ w_state' = "freed"
  /\ IF w_state = "connected" THEN Say(CLOSE, <<0, 0, 0, 0>>, <<>>, 6) ELSE UNCHANGED <<w_said, w_torn, w_out>>
  /\ UNCHANGED <<w_sent, w_wire, w_buf, w_got, w_dropped>>

WsNext ==
  \/ \E m \in WsMessages : ServerSend(BINARY, m) \/ (Len(m) <= 2 /\ ServerSend(PING, m))
  \/ ServerSend(CLOSE, <<>>)
  \/ \E n \in 1..Len(w_wire) : ws_complete_handshake(n) \/ ws_recv(n)
  \/ \E m \in WsMessages, key \in Keys : \E k \in {1, Len(ws_frame_encode(BINARY, key, m))} : ws_send(m, key, k)
  \/ ws_close

-----------------------------------------------------------------------------
\* However the stream is cut, tcp_recv returns the messages that were sent, in
\* order and cut to the caller's buffer, up to the first one that send() took
\* only in part.
TcpKeepsMessages ==
  \A i \in DOMAIN t_got :
    (t_torn = 0 \/ i < t_torn) => i <= Len(t_sent) /\ t_got[i] = Cut(t_sent[i], Min2(Len(t_sent[i]), AppCap))

\* The receive buffer is never full without a message to return, after which
\* no byte could ever be read again, unless the message in it is longer than
\* the buffer: the one length tcp_send takes and recv_buf cannot hold.
TcpWedgesOnlyOnLongest ==
  (t_torn = 0 /\ Len(t_buf) = TcpCap) => Len(t_sent[Len(t_got) + 1]) = TcpMax

\* However the stream is cut, ws_recv returns the data frames of the server and
\* only those, in order, unless bytes behind the 101 response were dropped.
WsKeepsMessages ==
  LET data == SelectSeq(w_sent, LAMBDA f : f.op = BINARY)
  IN  ~w_dropped => \A i \in DOMAIN w_got :
        i <= Len(data) /\ w_got[i] = Cut(data[i].payload, Min2(Len(data[i].payload), AppCap))

\* The frames a server reads from the client's stream, masks removed.
RECURSIVE Heard(_)
Heard(s) ==
  LET f == ws_frame_decode(s)
  IN  IF f.total = 0 THEN <<>> ELSE <<[op |-> f.op, payload |-> f.payload]>> \o Heard(Drop(s, f.total))

\* What ws_frame_encode masks and lays out, ws_frame_decode reads: every frame
\* of the client reaches the server unless send() cut one short.
WsPeerReadsFrames ==
  IF w_torn = 0 THEN Heard(w_out) = w_said
  ELSE Cut(Heard(w_out), Min2(Len(Heard(w_out)), w_torn - 1)) = Cut(w_said, Min2(Len(Heard(w_out)), w_torn - 1))

=============================================================================
