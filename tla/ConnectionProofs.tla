-------------------------- MODULE ConnectionProofs --------------------------
(* Handshake and closing agree at the two ends of a connection: proved for all *)
(* transport parameters and ciphers, any number of datagrams in transit, and   *)
(* any loss, duplication and reordering.                                       *)
EXTENDS Connection, TLAPS

(* What the handshake of each end can be.                                     *)

Usable == {i \in DOMAIN Offer : Offer[i] \in Supported}
Algo == Offer[CHOOSE i \in Usable : \A j \in Usable : i <= j]

Hello(e) == [type |-> IF e = "client" THEN "CLIENT_HELLO" ELSE "SERVER_HELLO", pub |-> e,
             ciphers |-> IF e = "client" THEN Offer ELSE <<Algo>>,
             params |-> encode_transport_params(Params[e])]

Hash(e) == <<<<Hello(e).type, e>>>>
AppKey(label) == <<label, Ends, Hash("client") \o Hash("server"), Algo>>
AppKeys(e) ==
  IF e = "server"
  THEN [available |-> TRUE, send |-> AppKey("s ap traffic"), recv |-> AppKey("c ap traffic")]
  ELSE [available |-> TRUE, send |-> AppKey("c ap traffic"), recv |-> AppKey("s ap traffic")]

HsParts == {"state", "me", "is_server", "local", "algo", "initial", "app",
            "transcript", "shared", "send", "done", "peer"}

\* The record of a handshake of end e, as nxp_handshake_create makes it.
IsHs(e, h) ==
  /\ h = [f \in HsParts |-> h[f]]
  /\ h.me = e /\ h.is_server = (e = "server") /\ h.local = Params[e]
  /\ h.initial = InitialKeys("cid", e = "server")

Clear(h) == h.send = <<>> /\ h.done = FALSE

\* Before the peer's hello has come.
Waits(e, h) ==
  /\ IsHs(e, h) /\ h.app = NoKeys /\ h.peer = <<>> /\ h.done = FALSE
  /\ IF e = "client"
     THEN /\ h.state = "WAIT_SERVER_HELLO" /\ h.transcript = Hash("client")
          /\ h.send = <<>> \/ h.send = <<Hello("client")>>
     ELSE h.state = "WAIT_CLIENT_HELLO" /\ h.transcript = <<>> /\ h.send = <<>>

\* Once the peer's hello has come.
Keyed(e, h) ==
  /\ IsHs(e, h) /\ h.app = AppKeys(e)
  /\ h.peer = <<decode_transport_params(Hello(Peer(e)).params)>>
  /\ IF e = "client"
     THEN (h.state = "WAIT_HANDSHAKE_DONE" \/ h.state = "COMPLETE") /\ Clear(h)
     ELSE h.state = "COMPLETE" /\ (Clear(h) \/ (h.send = <<Hello("server")>> /\ h.done = TRUE))

\* What each end sends is its hello, and sending clears it.
LEMMA HasData ==
  ASSUME NEW e \in Ends, NEW h, Waits(e, h) \/ Keyed(e, h)
  PROVE  /\ ~nxp_handshake_has_data(h) => Clear(h)
         /\ nxp_handshake_has_data(h) => h.send = <<Hello(e)>> /\ (h.done => e = "server")
         /\ Keyed(e, h) /\ nxp_handshake_has_data(h) => e = "server" /\ h.done = TRUE
         /\ Waits(e, h) /\ nxp_handshake_has_data(h) => e = "client"
BY DEF Waits, Keyed, nxp_handshake_has_data, Clear, Ends

\* Once nxp_handshake_has_data's hello has been sent nothing is left to send.
LEMMA AfterSent ==
  ASSUME NEW e \in Ends, NEW h, Waits(e, h) \/ Keyed(e, h)
  PROVE  LET g == [h EXCEPT !.send = <<>>, !.done = FALSE] IN
         /\ g.state = h.state /\ Clear(g)
         /\ Waits(e, h) => Waits(e, g)
         /\ Keyed(e, h) => Keyed(e, g)
<1> DEFINE g == [h EXCEPT !.send = <<>>, !.done = FALSE]
<1>1. IsHs(e, g) /\ g.state = h.state /\ g.send = <<>> /\ g.done = FALSE
      /\ g.app = h.app /\ g.peer = h.peer /\ g.transcript = h.transcript
  BY DEF Waits, Keyed, IsHs, HsParts
<1> QED BY <1>1 DEF Waits, Keyed, Clear

\* The hash of a hello, in the transcripts.
LEMMA HashHello ==
  ASSUME NEW e \in Ends
  PROVE  nxp_crypto_hash(<<Hello(e)>>) = Hash(e) /\ <<>> \o Hash(e) = Hash(e)
BY DEF nxp_crypto_hash, Hash, Hello

\* A handshake that nxp_conn_connect or nxp_conn_accept starts waits for the peer's hello.
LEMMA StartWaits ==
  ASSUME NEW e \in Ends
  PROVE  LET h == nxp_handshake_create(e, e = "server", Params[e]) IN
         Waits(e, IF e = "server" THEN nxp_handshake_start_server(h, "cid")
                                  ELSE nxp_handshake_start_client(h, "cid"))
<1> DEFINE h == nxp_handshake_create(e, e = "server", Params[e])
<1>1. /\ h = [f \in HsParts |-> h[f]]
      /\ h.me = e /\ h.is_server = (e = "server") /\ h.local = Params[e] /\ h.app = NoKeys
      /\ h.peer = <<>> /\ h.done = FALSE /\ h.transcript = <<>> /\ h.send = <<>>
  BY DEF nxp_handshake_create, HsParts
<1>2. CASE e = "server"
  BY <1>1, <1>2 DEF nxp_handshake_start_server, Waits, IsHs, HsParts, InitialKeys
<1>3. CASE e = "client"
  <2>1. encode_client_hello(h) = Hello(e)
    BY <1>1, <1>3 DEF encode_client_hello, Hello
  <2>2. nxp_handshake_start_client(h, "cid")
          = [h EXCEPT !.initial = InitialKeys("cid", FALSE), !.send = <<Hello(e)>>,
                      !.transcript = Hash(e), !.state = "WAIT_SERVER_HELLO"]
    BY <2>1, HashHello DEF nxp_handshake_start_client
  <2> QED BY <1>1, <1>3, <2>2 DEF Waits, IsHs, HsParts, InitialKeys
<1> QED BY <1>2, <1>3 DEF Ends

\* The ClientHello at a server that waits for it.
LEMMA ClientHelloStep ==
  ASSUME NEW h, Waits("server", h)
  PROVE  LET r == process_client_hello(h, Hello("client")) IN
         \/ ~r.ok /\ r.hs = h
         \/ r.ok /\ Keyed("server", r.hs) /\ r.hs.state = "COMPLETE"
<1> DEFINE m == Hello("client")
           usable == {i \in DOMAIN m.ciphers : m.ciphers[i] \in Supported}
           first == CHOOSE i \in usable : \A j \in usable : i <= j
           h0 == [h EXCEPT !.algo = m.ciphers[first]]
           h1 == WithPeer(h0, m)
           reply == encode_server_hello(h1)
           h2 == [h1 EXCEPT !.send = <<reply>>, !.transcript = @ \o nxp_crypto_hash(<<reply>>)]
           h3 == derive_handshake_and_app_keys(h2)
           h4 == [h3 EXCEPT !.done = TRUE, !.state = "COMPLETE"]
<1>1. CASE m.type # "CLIENT_HELLO" \/ usable = {}
  BY <1>1 DEF process_client_hello, Failed
<1>2. CASE ~(m.type # "CLIENT_HELLO" \/ usable = {})
  <2>1. m.ciphers = Offer /\ m.ciphers[first] = Algo /\ m.pub = "client"
    BY DEF Hello, Algo, Usable
  <2>2. process_client_hello(h, m) = [ok |-> TRUE, hs |-> h4]
    BY <1>2, Zenon DEF process_client_hello
  <2> HIDE DEF usable, first
  <2>3. /\ IsHs("server", h0) /\ h0.algo = Algo /\ h0.transcript = <<>>
    BY <2>1 DEF Waits, IsHs, HsParts
  <2> HIDE DEF h0
  <2>4. h1 = [h0 EXCEPT !.peer = <<decode_transport_params(m.params)>>,
                        !.transcript = <<>> \o Hash("client"), !.shared = {"server", "client"}]
    BY <2>1, <2>3, HashHello DEF WithPeer, nxp_x25519_shared_secret, Ends, IsHs
  <2>5. /\ IsHs("server", h1) /\ h1.algo = Algo /\ h1.transcript = Hash("client")
        /\ h1.shared = Ends /\ h1.peer = <<decode_transport_params(m.params)>>
    BY <2>3, <2>4, HashHello DEF IsHs, HsParts, Ends
  <2> HIDE DEF h1
  <2>6. reply = Hello("server")
    BY <2>5 DEF encode_server_hello, Hello, IsHs
  <2>7. /\ IsHs("server", h2) /\ h2.algo = Algo /\ h2.transcript = Hash("client") \o Hash("server")
        /\ h2.shared = Ends /\ h2.peer = <<decode_transport_params(m.params)>>
        /\ h2.send = <<Hello("server")>>
    BY <2>5, <2>6, HashHello DEF IsHs, HsParts, Ends
  <2> HIDE DEF h2
  <2>8. h3 = [h2 EXCEPT !.app = AppKeys("server")]
    BY <2>7 DEF derive_handshake_and_app_keys, Secret, AppKeys, AppKey, IsHs
  <2>9. /\ IsHs("server", h4) /\ h4.app = AppKeys("server") /\ h4.state = "COMPLETE"
        /\ h4.send = <<Hello("server")>> /\ h4.done = TRUE
        /\ h4.peer = <<decode_transport_params(m.params)>>
    BY <2>7, <2>8 DEF IsHs, HsParts
  <2> HIDE DEF h4
  <2> QED BY <2>2, <2>9 DEF Keyed, Peer
<1> QED BY <1>1, <1>2

\* The ServerHello at a client that waits for it.
LEMMA ServerHelloStep ==
  ASSUME NEW h, Waits("client", h), h.send = <<>>
  PROVE  LET r == process_server_hello(h, Hello("server")) IN
         r.ok /\ Keyed("client", r.hs) /\ r.hs.state = "WAIT_HANDSHAKE_DONE"
<1> DEFINE m == Hello("server")
           h0 == [h EXCEPT !.algo = m.ciphers[1]]
           h1 == WithPeer(h0, m)
           h3 == derive_handshake_and_app_keys(h1)
           h4 == [h3 EXCEPT !.state = "WAIT_HANDSHAKE_DONE"]
<1>1. m.ciphers[1] = Algo /\ m.pub = "server" /\ m.type = "SERVER_HELLO"
  BY DEF Hello
<1>2. process_server_hello(h, m) = [ok |-> TRUE, hs |-> h4]
  BY <1>1 DEF process_server_hello
<1>3. /\ IsHs("client", h0) /\ h0.algo = Algo /\ h0.transcript = Hash("client") /\ Clear(h0)
  BY <1>1 DEF Waits, IsHs, HsParts, Clear
<1> HIDE DEF h0
<1>4. h1 = [h0 EXCEPT !.peer = <<decode_transport_params(m.params)>>,
                      !.transcript = Hash("client") \o Hash("server"),
                      !.shared = {"client", "server"}]
  BY <1>1, <1>3, HashHello DEF WithPeer, nxp_x25519_shared_secret, Ends, IsHs
<1>5. /\ IsHs("client", h1) /\ h1.algo = Algo /\ h1.transcript = Hash("client") \o Hash("server")
      /\ h1.shared = Ends /\ h1.peer = <<decode_transport_params(m.params)>> /\ Clear(h1)
  BY <1>3, <1>4 DEF IsHs, HsParts, Ends, Clear
<1> HIDE DEF h1
<1>6. h3 = [h1 EXCEPT !.app = AppKeys("client")]
  BY <1>5 DEF derive_handshake_and_app_keys, Secret, AppKeys, AppKey, IsHs
<1>7. /\ IsHs("client", h4) /\ h4.app = AppKeys("client") /\ h4.state = "WAIT_HANDSHAKE_DONE"
      /\ Clear(h4) /\ h4.peer = <<decode_transport_params(m.params)>>
  BY <1>5, <1>6 DEF IsHs, HsParts, Clear
<1> HIDE DEF h4
<1> QED BY <1>2, <1>7 DEF Keyed, Peer

\* The third parameter is the stream limit, and the only one.
OnlyThird(s) == Len(s) >= 3 /\ \A i \in 1..Len(s) : s[i][1] = "bidi" <=> i = 3

\* Appending other parameters does not change that.
LEMMA AppendOthers ==
  ASSUME NEW S, NEW s \in Seq(S), NEW t \in Seq(S), OnlyThird(s),
         \A i \in 1..Len(t) : t[i][1] # "bidi"
  PROVE  s \o t \in Seq(S) /\ OnlyThird(s \o t) /\ (s \o t)[3] = s[3]
<1> DEFINE u == s \o t
<1>1. /\ u \in Seq(S) /\ Len(u) = Len(s) + Len(t)
      /\ \A i \in 1..Len(s) : u[i] = s[i]
      /\ \A i \in 1..Len(u) : i > Len(s) => u[i] = t[i - Len(s)]
  OBVIOUS
<1>2. Len(s) \in Nat /\ Len(t) \in Nat /\ 3 \in 1..Len(s)
  BY DEF OnlyThird
<1> HIDE DEF u
<1>3. ASSUME NEW i \in 1..Len(u) PROVE u[i][1] = "bidi" <=> i = 3
  <2>1. CASE i <= Len(s)
    <3>1. i \in 1..Len(s) /\ u[i] = s[i]
      BY <1>1, <1>2, <2>1
    <3> QED BY <3>1 DEF OnlyThird
  <2>2. CASE i > Len(s)
    <3>1. i - Len(s) \in 1..Len(t) /\ u[i] = t[i - Len(s)] /\ i # 3
      BY <1>1, <1>2, <2>2
    <3> QED BY <3>1
  <2> QED BY <1>2, <2>1, <2>2
<1>4. u \in Seq(S) /\ OnlyThird(u) /\ u[3] = s[3]
  BY <1>1, <1>2, <1>3 DEF OnlyThird
<1> QED BY <1>4 DEF u

\* The stream limit survives encoding and decoding.
LEMMA BidiCarried ==
  ASSUME NEW tp \in [ParamIds -> Nat]
  PROVE  decode_transport_params(encode_transport_params(tp)).bidi = tp.bidi
<1> DEFINE S == ParamIds \X Int
           fixed == <<<<"data", tp["data"]>>, <<"stream_data", tp["stream_data"]>>,
                      <<"bidi", tp["bidi"]>>, <<"uni", tp["uni"]>>, <<"idle", tp.idle \div 1000>>>>
           early == IF tp["early"] > 0 THEN <<<<"early", tp["early"]>>>> ELSE <<>>
           cids == IF tp["cids"] > 0 THEN <<<<"cids", tp["cids"]>>>> ELSE <<>>
           seq == (fixed \o early) \o cids
           carried == {i \in DOMAIN seq : seq[i][1] = "bidi"}
<1>1. encode_transport_params(tp) = seq
  BY DEF encode_transport_params
<1>2. /\ \A id \in ParamIds : <<id, tp[id]>> \in S
      /\ <<"idle", tp.idle \div 1000>> \in S
  BY DEF ParamIds
<1>3. fixed \in Seq(S) /\ OnlyThird(fixed) /\ fixed[3][2] = tp.bidi
  <2>1. fixed \in Seq(S)
    <3>1. /\ <<"data", tp["data"]>> \in S /\ <<"stream_data", tp["stream_data"]>> \in S
          /\ <<"bidi", tp["bidi"]>> \in S /\ <<"uni", tp["uni"]>> \in S
      BY <1>2 DEF ParamIds
    <3> HIDE DEF S
    <3> QED BY <1>2, <3>1
  <2> QED BY <2>1 DEF OnlyThird
<1>4. early \in Seq(S) /\ \A i \in 1..Len(early) : early[i][1] # "bidi"
  <2>1. <<"early", tp["early"]>> \in S
    BY <1>2 DEF ParamIds
  <2> HIDE DEF S
  <2>2. CASE tp["early"] > 0
    BY <2>1, <2>2
  <2>3. CASE ~(tp["early"] > 0)
    BY <2>3
  <2> QED BY <2>2, <2>3
<1>5. cids \in Seq(S) /\ \A i \in 1..Len(cids) : cids[i][1] # "bidi"
  <2>1. <<"cids", tp["cids"]>> \in S
    BY <1>2 DEF ParamIds
  <2> HIDE DEF S
  <2>2. CASE tp["cids"] > 0
    BY <2>1, <2>2
  <2>3. CASE ~(tp["cids"] > 0)
    BY <2>3
  <2> QED BY <2>2, <2>3
<1>6. seq \in Seq(S) /\ OnlyThird(seq) /\ seq[3][2] = tp.bidi
  <2> DEFINE mid == fixed \o early
  <2> HIDE DEF fixed, early, cids, S
  <2>1. mid \in Seq(S) /\ OnlyThird(mid) /\ mid[3] = fixed[3]
    BY <1>3, <1>4, AppendOthers
  <2> HIDE DEF mid
  <2>2. mid \o cids \in Seq(S) /\ OnlyThird(mid \o cids) /\ (mid \o cids)[3] = mid[3]
    BY <1>5, <2>1, AppendOthers
  <2> QED BY <1>3, <2>1, <2>2 DEF mid
<1> HIDE DEF seq, S
<1>7. carried = {3}
  BY <1>6 DEF OnlyThird
<1>8. (CHOOSE i \in carried : \A j \in carried : j <= i) = 3
  BY <1>7
<1> QED BY <1>1, <1>6, <1>7, <1>8 DEF decode_transport_params, ParamIds

-----------------------------------------------------------------------------
(* One end.                                                                   *)

ConnParts == {"state", "hs", "crypto", "peer_data", "peer_bidi", "live", "busy", "close",
              "ping", "ack", "fly", "lossTimer", "pto", "data", "held", "hb"}
IsConn(x) == x = [f \in ConnParts |-> x[f]]

Gone == {"CLOSING", "DRAINING", "CLOSED"}

\* State, handshake, keys and limits of end e fit together.
EndOK(e, x) ==
  /\ IsConn(x)
  /\ \/ x.hs = NoHandshake /\ x.state = "IDLE" /\ x.crypto = NoKeys
     \/ /\ Waits(e, x.hs) /\ x.crypto = NoKeys
        /\ x.state \in {"HANDSHAKE_INITIAL", "CLOSED"}
     \/ /\ Keyed(e, x.hs) /\ x.crypto = AppKeys(e)
        /\ IF x.hs.state = "COMPLETE"
           THEN x.state \in PastHandshake \cup {"CLOSED"} /\ x.peer_bidi = Params[Peer(e)].bidi
           ELSE x.state \in {"HANDSHAKE_INITIAL", "CLOSED"}
  /\ nxp_handshake_has_data(x.hs) => x.state \in {"HANDSHAKE_INITIAL", "ESTABLISHED"}

\* y differs from x in what handshake and closing do not look at.
Kept(x, y) ==
  /\ IsConn(y) /\ y.hs = x.hs /\ y.crypto = x.crypto
  /\ y.peer_bidi = x.peer_bidi /\ y.busy = x.busy

\* An end stays sound when only what handshake and closing ignore changes.
LEMMA KeptOK ==
  ASSUME NEW e \in Ends, NEW x, NEW y, EndOK(e, x), Kept(x, y), y.state = x.state
  PROVE  EndOK(e, y)
BY DEF EndOK, Kept

\* set_conn_state changes nothing but the state.
LEMMA SetState ==
  ASSUME NEW x, IsConn(x), NEW new
  PROVE  LET y == set_conn_state(x, new) IN
         /\ Kept(x, y)
         /\ y.close = x.close /\ y.data = x.data /\ y.live = x.live
         /\ y.state = IF is_valid_conn_state_transition(x.state, new) THEN new ELSE x.state
BY DEF set_conn_state, IsConn, ConnParts, Kept

\* Ending a connection that has started and has no hello to send.
LEMMA EndingOK ==
  ASSUME NEW e \in Ends, NEW x, EndOK(e, x), ~nxp_handshake_has_data(x.hs), NEW new \in Gone,
         new = "CLOSED" => x.state # "IDLE"
  PROVE  LET y == set_conn_state(x, new) IN
         /\ EndOK(e, y) /\ Kept(x, y)
         /\ y.state = x.state \/ (y.state = new /\ x.state # "IDLE")
         /\ x.state \in {"DRAINING", "CLOSED"} => y.state \in {x.state, "CLOSED"}
         /\ x.state \in Gone => y.state \in Gone
<1> DEFINE y == set_conn_state(x, new)
<1>1. Kept(x, y) /\ y.state = IF is_valid_conn_state_transition(x.state, new) THEN new ELSE x.state
  BY SetState DEF EndOK
<1>2. y.state = x.state \/ new = "CLOSED" \/ (x.state \in {"ESTABLISHED", "CLOSING"} /\ y.state = new)
  BY <1>1 DEF is_valid_conn_state_transition, Gone
<1> HIDE DEF y
<1>3. EndOK(e, y)
  <2>1. CASE y.state = x.state
    BY <1>1, <2>1, KeptOK
  <2>2. CASE new = "CLOSED"
    BY <1>1, <2>2 DEF EndOK, Kept, is_valid_conn_state_transition, PastHandshake
  <2>3. CASE x.state \in {"ESTABLISHED", "CLOSING"} /\ y.state = new
    BY <1>1, <2>3 DEF EndOK, Kept, PastHandshake, Gone
  <2> QED BY <1>2, <2>1, <2>2, <2>3
<1>4. x.state \in {"DRAINING", "CLOSED"} => y.state \in {x.state, "CLOSED"}
  BY <1>1 DEF is_valid_conn_state_transition, Gone
<1>5. /\ y.state = x.state \/ (y.state = new /\ x.state # "IDLE")
      /\ x.state \in Gone => y.state \in Gone
  BY <1>1 DEF is_valid_conn_state_transition, Gone
<1> QED BY <1>1, <1>3, <1>4, <1>5 DEF y

\* The peer's parameters set the stream limit.
LEMMA ApplyParams ==
  ASSUME NEW e \in Ends, NEW x, IsConn(x), Keyed(e, x.hs)
  PROVE  LET y == apply_peer_params(x) IN
         /\ IsConn(y) /\ y.hs = x.hs /\ y.crypto = x.crypto /\ y.busy = x.busy
         /\ y.state = x.state /\ y.peer_bidi = Params[Peer(e)].bidi
<1> DEFINE tp == decode_transport_params(Hello(Peer(e)).params)
<1>1. x.hs.peer = <<tp>> /\ x.hs.peer # <<>> /\ x.hs.peer[1] = tp
  BY DEF Keyed
<1>2. Peer(e) \in Ends
  BY DEF Peer, Ends
<1>3. Hello(Peer(e)).params = encode_transport_params(Params[Peer(e)])
  BY DEF Hello
<1>4. tp.bidi = Params[Peer(e)].bidi /\ tp.bidi > 0
  BY <1>2, <1>3, BidiCarried, ConnectionAssumption
<1> HIDE DEF tp
<1> QED BY <1>1, <1>4 DEF apply_peer_params, IsConn, ConnParts

-----------------------------------------------------------------------------
(* Receiving.                                                                 *)

\* What an end never takes back.
Progress(e, x, y) ==
  /\ EndOK(e, y)
  /\ Keyed(e, x.hs) => /\ Keyed(e, y.hs)
                       /\ x.hs.state = "COMPLETE" => y.hs.state = "COMPLETE"
                       /\ ~nxp_handshake_has_data(x.hs) => ~nxp_handshake_has_data(y.hs)
  /\ x.state \in Gone => y.state \in Gone
  /\ x.state \in {"DRAINING", "CLOSED"} => y.state \in {x.state, "CLOSED"}

\* nxp_ack_on_ack_recv touches neither handshake, keys nor state.
LEMMA AckKeeps ==
  ASSUME NEW x, IsConn(x), NEW y \in nxp_ack_on_ack_recv(x)
  PROVE  Kept(x, y) /\ y.state = x.state
<1>1. PICK o : y = [x EXCEPT !.fly = o.fly, !.pto = 0, !.lossTimer = o.timer,
                             !.data = @ \/ o.lost, !.held = @ /\ ~o.done]
  BY DEF nxp_ack_on_ack_recv
<1> QED BY <1>1 DEF Kept, IsConn, ConnParts

\* HANDSHAKE_DONE, at a client that waits for it.
LEMMA DoneStep ==
  ASSUME NEW e \in Ends, NEW x, EndOK(e, x), ~nxp_handshake_has_data(x.hs),
         x.state # "CLOSED"
  PROVE  LET y == on_handshake_done(x) IN
         \/ y = x
         \/ /\ EndOK(e, y) /\ Keyed(e, x.hs) /\ Keyed(e, y.hs) /\ ~nxp_handshake_has_data(y.hs)
            /\ y.hs.state = "COMPLETE" /\ y.busy = x.busy
            /\ x.state = "HANDSHAKE_INITIAL" /\ y.state = "ESTABLISHED"
<1> DEFINE h == [x.hs EXCEPT !.state = "COMPLETE"]
           w == [x EXCEPT !.hs = h]
           z == set_conn_state(w, "ESTABLISHED")
<1>1. CASE x.hs = NoHandshake \/ x.hs.state # "WAIT_HANDSHAKE_DONE"
  BY <1>1 DEF on_handshake_done, nxp_handshake_on_handshake_done, Failed
<1>2. CASE x.hs # NoHandshake /\ x.hs.state = "WAIT_HANDSHAKE_DONE"
  <2>1. on_handshake_done(x) = apply_peer_params(z)
    BY <1>2 DEF on_handshake_done, nxp_handshake_on_handshake_done
  <2>2. Keyed(e, x.hs) /\ e = "client" /\ x.state = "HANDSHAKE_INITIAL" /\ x.crypto = AppKeys(e)
    BY <1>2 DEF EndOK, Waits, Keyed
  <2>3. Keyed(e, h) /\ h.state = "COMPLETE" /\ Clear(h)
    BY <2>2 DEF Keyed, IsHs, HsParts, Clear
  <2> HIDE DEF h
  <2>4. IsConn(w) /\ w.hs = h /\ w.crypto = x.crypto /\ w.busy = x.busy /\ w.state = x.state
    BY DEF EndOK, IsConn, ConnParts
  <2> HIDE DEF w
  <2>5. Kept(w, z) /\ z.state = "ESTABLISHED"
    BY <2>2, <2>4, SetState DEF is_valid_conn_state_transition
  <2> HIDE DEF z
  <2> DEFINE y == apply_peer_params(z)
  <2>6. /\ IsConn(y) /\ y.hs = z.hs /\ y.crypto = z.crypto /\ y.busy = z.busy
        /\ y.state = z.state /\ y.peer_bidi = Params[Peer(e)].bidi
    BY <2>3, <2>4, <2>5, ApplyParams DEF Kept
  <2> HIDE DEF y
  <2>7. ~nxp_handshake_has_data(y.hs)
    BY <2>3, <2>4, <2>5, <2>6 DEF nxp_handshake_has_data, Clear, Kept
  <2>8. EndOK(e, y)
    BY <2>2, <2>3, <2>4, <2>5, <2>6, <2>7 DEF EndOK, Kept, PastHandshake
  <2> QED BY <2>1, <2>2, <2>3, <2>4, <2>5, <2>6, <2>7, <2>8 DEF y, Kept
<1> QED BY <1>1, <1>2

\* The frames of a packet: they may complete the handshake of a client, and only
\* a CLOSE frame drains.
LEMMA FramesStep ==
  ASSUME NEW e \in Ends, NEW x, EndOK(e, x), ~nxp_handshake_has_data(x.hs),
         x.state \notin {"DRAINING", "CLOSED"},
         NEW frames, NEW y \in process_frames(x, frames)
  PROVE  /\ Progress(e, x, y) /\ y.busy = x.busy /\ ~nxp_handshake_has_data(y.hs)
         /\ y.hs = x.hs \/ (Keyed(e, x.hs) /\ Keyed(e, y.hs))
         /\ y.state = "DRAINING" => "CLOSE" \in frames /\ Keyed(e, x.hs)
<1> DEFINE acked == IF "ACK" \in frames THEN nxp_ack_on_ack_recv(x) ELSE {x}
           closed(v) == IF "CLOSE" \in frames THEN set_conn_state(v, "DRAINING") ELSE v
           beat(v) == IF "HEARTBEAT" \in frames
                      THEN [v EXCEPT !.hb = nxp_heartbeat_on_recv(@)] ELSE v
           done(v) == IF "DONE" \in frames THEN on_handshake_done(v) ELSE v
<1>1. PICK a \in acked : y = done(beat(closed(a)))
  BY DEF process_frames
<1>2. Kept(x, a) /\ a.state = x.state
  BY AckKeeps DEF EndOK, Kept
<1>3. EndOK(e, a) /\ ~nxp_handshake_has_data(a.hs)
  BY <1>2, KeptOK DEF Kept
<1> DEFINE b == closed(a)
<1>4. /\ EndOK(e, b) /\ Kept(x, b)
      /\ b.state = x.state \/ (b.state = "DRAINING" /\ "CLOSE" \in frames)
      /\ x.state \in Gone => b.state \in Gone
  <2>1. CASE "CLOSE" \notin frames
    BY <1>2, <1>3, <2>1
  <2>2. CASE "CLOSE" \in frames
    BY <1>2, <1>3, <2>2, EndingOK DEF Gone, Kept
  <2> QED BY <2>1, <2>2
<1> HIDE DEF b
<1> DEFINE d == beat(b)
<1>5. Kept(b, d) /\ d.state = b.state
  BY <1>4 DEF Kept, IsConn, ConnParts
<1>6. EndOK(e, d) /\ Kept(x, d) /\ ~nxp_handshake_has_data(d.hs)
  BY <1>3, <1>4, <1>5, KeptOK DEF Kept
<1> HIDE DEF d
<1>7. b.state = "DRAINING" => Keyed(e, x.hs)
  BY <1>4 DEF EndOK, Kept
<1>8. d.state # "CLOSED"
  BY <1>4, <1>5
<1>9. y = d \/ y = on_handshake_done(d)
  BY <1>1 DEF d, b
<1>10. CASE y = d
  BY <1>4, <1>5, <1>6, <1>7, <1>10 DEF Progress, Kept
<1>11. CASE y = on_handshake_done(d) /\ y # d
  <2>1. /\ EndOK(e, y) /\ Keyed(e, d.hs) /\ Keyed(e, y.hs) /\ ~nxp_handshake_has_data(y.hs)
        /\ y.hs.state = "COMPLETE" /\ y.busy = d.busy
        /\ d.state = "HANDSHAKE_INITIAL" /\ y.state = "ESTABLISHED"
    BY <1>6, <1>8, <1>11, DoneStep
  <2>2. x.state \notin Gone
    BY <1>4, <1>5, <2>1 DEF Gone
  <2> QED BY <1>6, <2>1, <2>2 DEF Progress, Kept, Gone
<1> QED BY <1>9, <1>10, <1>11

\* A hello of the peer: it gives a waiting end its keys, and nothing else.
LEMMA HelloStep ==
  ASSUME NEW e \in Ends, NEW x, EndOK(e, x), Waits(e, x.hs) => Clear(x.hs),
         x.state \notin {"DRAINING", "CLOSED"},
         NEW p, p.hello = <<Hello(Peer(e))>>
  PROVE  LET y == recv_handshake_packet(x, p) IN
         /\ Progress(e, x, y) /\ y.busy = x.busy
         /\ y.state # "DRAINING"
         /\ y.hs = x.hs \/ (Waits(e, x.hs) /\ Keyed(e, y.hs))
<1> DEFINE m == p.hello[1]
           r == nxp_handshake_recv_crypto(x.hs, m)
           w == [x EXCEPT !.hs = r.hs,
                          !.crypto = IF r.hs.app.available /\ ~x.crypto.available
                                     THEN r.hs.app ELSE @]
           z == set_conn_state(w, "ESTABLISHED")
           y == recv_handshake_packet(x, p)
<1>1. CASE x.hs = NoHandshake \/ p.key # x.hs.initial.recv
  BY <1>1 DEF recv_handshake_packet, Progress, EndOK
<1>2. CASE ~(x.hs = NoHandshake \/ p.key # x.hs.initial.recv)
  <2>1. Waits(e, x.hs) \/ Keyed(e, x.hs)
    BY <1>2 DEF EndOK
  <2>2. \/ ~r.ok /\ r.hs = x.hs
        \/ r.ok /\ Waits(e, x.hs) /\ Keyed(e, r.hs) /\ (e = "server" <=> r.hs.state = "COMPLETE")
    <3>1. CASE Keyed(e, x.hs)
      BY <3>1 DEF nxp_handshake_recv_crypto, Failed, Keyed
    <3>2. CASE Waits(e, x.hs) /\ e = "server"
      <4>1. r = process_client_hello(x.hs, Hello("client"))
        BY <3>2 DEF nxp_handshake_recv_crypto, Waits, Peer
      <4> QED BY <3>2, <4>1, ClientHelloStep
    <3>3. CASE Waits(e, x.hs) /\ e = "client"
      <4>1. r = process_server_hello(x.hs, Hello("server"))
        BY <3>3 DEF nxp_handshake_recv_crypto, Waits, Peer
      <4> QED BY <3>3, <4>1, ServerHelloStep DEF Clear
    <3> QED BY <2>1, <3>1, <3>2, <3>3 DEF Ends
  <2>3. CASE ~r.ok /\ r.hs = x.hs
    <3>1. y = [x EXCEPT !.hs = x.hs]
      BY <1>2, <2>3 DEF recv_handshake_packet
    <3>2. Kept(x, y) /\ y.state = x.state
      BY <3>1 DEF EndOK, IsConn, ConnParts, Kept
    <3> HIDE DEF y
    <3> QED BY <3>2, KeptOK DEF Progress, Kept, y
  <2>4. CASE r.ok /\ Waits(e, x.hs) /\ Keyed(e, r.hs) /\ (e = "server" <=> r.hs.state = "COMPLETE")
    <3>1. x.crypto = NoKeys /\ x.state = "HANDSHAKE_INITIAL"
      <4>1. x.hs.state \in {"WAIT_SERVER_HELLO", "WAIT_CLIENT_HELLO"}
        BY <2>4 DEF Waits
      <4>2. ~Keyed(e, x.hs)
        BY <4>1 DEF Keyed
      <4>3. x.hs # NoHandshake
        BY <4>1 DEF NoHandshake
      <4> QED BY <4>2, <4>3 DEF EndOK
    <3>2. r.hs.app = AppKeys(e) /\ AppKeys(e).available /\ ~NoKeys.available
      BY <2>4 DEF Keyed, AppKeys, NoKeys
    <3>3. y = IF r.hs.state = "COMPLETE" THEN apply_peer_params(z) ELSE w
      BY <1>2, <2>4 DEF recv_handshake_packet
    <3> HIDE DEF r
    <3>4. /\ IsConn(w) /\ w.hs = r.hs /\ w.crypto = AppKeys(e) /\ w.busy = x.busy
          /\ w.state = x.state
      BY <3>1, <3>2 DEF EndOK, IsConn, ConnParts
    <3> HIDE DEF w
    <3>5. Kept(w, z) /\ z.state = "ESTABLISHED"
      BY <3>1, <3>4, SetState DEF is_valid_conn_state_transition
    <3> HIDE DEF z, y
    <3>6. CASE r.hs.state = "COMPLETE"
      <4>1. /\ IsConn(y) /\ y.hs = z.hs /\ y.crypto = z.crypto /\ y.busy = z.busy
            /\ y.state = z.state /\ y.peer_bidi = Params[Peer(e)].bidi
        BY <2>4, <3>3, <3>4, <3>5, <3>6, ApplyParams DEF Kept
      <4>2. EndOK(e, y)
        BY <2>4, <3>4, <3>5, <3>6, <4>1 DEF EndOK, Kept, PastHandshake
      <4>3. ~Keyed(e, x.hs) /\ x.state \notin Gone
        BY <2>4, <3>1 DEF Waits, Keyed, Gone
      <4>4. y.hs = r.hs /\ y.busy = x.busy /\ y.state = "ESTABLISHED"
        BY <3>4, <3>5, <4>1 DEF Kept
      <4> QED BY <2>4, <3>1, <4>2, <4>3, <4>4 DEF Progress, y
    <3>7. CASE r.hs.state # "COMPLETE"
      <4>1. EndOK(e, y)
        BY <2>4, <3>1, <3>3, <3>4, <3>7 DEF EndOK
      <4>2. ~Keyed(e, x.hs) /\ x.state \notin Gone
        BY <2>4, <3>1 DEF Waits, Keyed, Gone
      <4> QED BY <2>4, <3>1, <3>3, <3>4, <3>7, <4>1, <4>2 DEF Progress, y
    <3> QED BY <3>6, <3>7
  <2> QED BY <2>2, <2>3, <2>4
<1> QED BY <1>1, <1>2

\* A datagram of the peer.
LEMMA RecvStep ==
  ASSUME NEW e \in Ends, NEW x, EndOK(e, x), Waits(e, x.hs) => Clear(x.hs),
         NEW p, p.hello = <<>> \/ p.hello = <<Hello(Peer(e))>>,
         p.hello = <<>> => ~nxp_handshake_has_data(x.hs),
         NEW y \in nxp_conn_recv(x, p)
  PROVE  /\ Progress(e, x, y) /\ y.busy = x.busy
         /\ \/ y.hs = x.hs
            \/ Keyed(e, x.hs) /\ Keyed(e, y.hs) /\ ~nxp_handshake_has_data(y.hs)
            \/ Waits(e, x.hs) /\ Keyed(e, y.hs) /\ p.hello # <<>>
         /\ y.state = "DRAINING" =>
              \/ x.state = "DRAINING"
              \/ "CLOSE" \in p.frames /\ p.hello = <<>>
         /\ x.state \in {"DRAINING", "CLOSED"} => y = x
<1> DEFINE v == [x EXCEPT !.live = TRUE]
           z == [v EXCEPT !.ack = TRUE]
<1>1. CASE x.state \in {"DRAINING", "CLOSED"}
  <2>1. y = x
    BY <1>1 DEF nxp_conn_recv
  <2> QED BY <1>1, <2>1 DEF Progress
<1>2. CASE x.state \notin {"DRAINING", "CLOSED"}
  <2>1. Kept(x, v) /\ v.state = x.state
    BY DEF EndOK, IsConn, ConnParts, Kept
  <2>2. Kept(v, z) /\ z.state = x.state
    BY <2>1 DEF IsConn, ConnParts, Kept
  <2>3. EndOK(e, v) /\ EndOK(e, z) /\ z.hs = x.hs /\ z.busy = x.busy /\ v.hs = x.hs /\ v.busy = x.busy
    BY <2>1, <2>2, KeptOK DEF Kept
  <2>4. CASE p.hello # <<>>
    <3>1. y = recv_handshake_packet(v, p)
      BY <1>2, <2>4 DEF nxp_conn_recv
    <3> HIDE DEF v, z
    <3>2. /\ Progress(e, v, y) /\ y.busy = v.busy /\ y.state # "DRAINING"
          /\ y.hs = v.hs \/ (Waits(e, v.hs) /\ Keyed(e, y.hs))
      BY <1>2, <2>1, <2>3, <2>4, <3>1, HelloStep
    <3> QED BY <1>2, <2>1, <2>3, <2>4, <3>2 DEF Progress
  <2>5. CASE p.hello = <<>>
    <3>1. \/ y = v \/ y = z
          \/ x.crypto.available /\ y \in process_frames(z, p.frames)
          \/ ~x.crypto.available /\ \E g \in Garbage : y \in process_frames(z, g)
      BY <1>2, <2>5 DEF nxp_conn_recv
    <3> HIDE DEF v, z
    <3>2. CASE y = v \/ y = z
      BY <1>2, <2>1, <2>2, <2>3, <3>2 DEF Progress
    <3>3. ASSUME NEW g, y \in process_frames(z, g)
          PROVE  /\ Progress(e, z, y) /\ y.busy = z.busy /\ ~nxp_handshake_has_data(y.hs)
                 /\ y.hs = z.hs \/ (Keyed(e, z.hs) /\ Keyed(e, y.hs))
                 /\ y.state = "DRAINING" => "CLOSE" \in g /\ Keyed(e, z.hs)
      BY <1>2, <2>2, <2>3, <2>5, <3>3, FramesStep
    <3>4. CASE x.crypto.available /\ y \in process_frames(z, p.frames)
      BY <1>2, <2>2, <2>3, <2>5, <3>3, <3>4 DEF Progress
    <3>5. CASE ~x.crypto.available /\ \E g \in Garbage : y \in process_frames(z, g)
      <4>1. ~Keyed(e, x.hs)
        <5>1. AppKeys(e).available
          BY DEF AppKeys
        <5>2. Keyed(e, x.hs) => x.hs # NoHandshake /\ ~Waits(e, x.hs)
          BY DEF Keyed, Waits, NoHandshake
        <5> QED BY <3>5, <5>1, <5>2 DEF EndOK
      <4> QED BY <1>2, <2>2, <2>3, <2>5, <3>3, <3>5, <4>1 DEF Progress
    <3> QED BY <3>1, <3>2, <3>4, <3>5
  <2> QED BY <2>4, <2>5
<1> QED BY <1>1, <1>2

-----------------------------------------------------------------------------
(* Sending.                                                                   *)

\* The hello leaves.
LEMMA HelloLeaves ==
  ASSUME NEW e \in Ends, NEW x, EndOK(e, x)
  PROVE  LET y == after_handshake_packets(x) IN
         /\ EndOK(e, y) /\ ~nxp_handshake_has_data(y.hs) /\ y.state = x.state
         /\ y.close = x.close
         /\ ~nxp_handshake_has_data(x.hs) => y.hs = x.hs
         /\ Waits(e, x.hs) => Waits(e, y.hs)
         /\ Keyed(e, x.hs) => Keyed(e, y.hs) /\ y.hs.state = x.hs.state
<1> DEFINE y == after_handshake_packets(x)
           g == [x.hs EXCEPT !.send = <<>>, !.done = FALSE]
<1>1. CASE ~nxp_handshake_has_data(x.hs)
  BY <1>1 DEF after_handshake_packets
<1>2. CASE nxp_handshake_has_data(x.hs)
  <2>1. Waits(e, x.hs) \/ Keyed(e, x.hs)
    BY <1>2 DEF EndOK, nxp_handshake_has_data, NoHandshake
  <2>2. /\ g.state = x.hs.state /\ Clear(g)
        /\ Waits(e, x.hs) => Waits(e, g)
        /\ Keyed(e, x.hs) => Keyed(e, g)
    BY <2>1, AfterSent
  <2>3. y = [x EXCEPT !.live = TRUE, !.hs = g]
    BY <1>2 DEF after_handshake_packets, EndOK, IsConn, ConnParts
  <2> HIDE DEF g
  <2>4. /\ IsConn(y) /\ y.hs = g /\ y.crypto = x.crypto /\ y.peer_bidi = x.peer_bidi
        /\ y.state = x.state /\ y.close = x.close
    BY <2>3 DEF EndOK, IsConn, ConnParts
  <2> HIDE DEF y
  <2>5. ~nxp_handshake_has_data(y.hs)
    BY <2>2, <2>4 DEF nxp_handshake_has_data, Clear
  <2>6. x.hs # NoHandshake
    BY <2>1 DEF Waits, Keyed, NoHandshake
  <2>7. EndOK(e, y)
    BY <2>1, <2>2, <2>4, <2>5, <2>6 DEF EndOK
  <2> QED BY <1>2, <2>2, <2>4, <2>5, <2>7 DEF y
<1> QED BY <1>1, <1>2

\* The packet with the frames leaves; with a CLOSE frame the end is closing.
LEMMA FramesLeave ==
  ASSUME NEW e \in Ends, NEW x, EndOK(e, x), ~nxp_handshake_has_data(x.hs), NEW d \in BOOLEAN
  PROVE  LET y == [after_send(x, d) EXCEPT !.busy = FALSE]
             F == frames_to_send(x, d) IN
         /\ Progress(e, x, y) /\ y.hs = x.hs /\ y.busy = FALSE
         /\ y.state = "DRAINING" => x.state = "DRAINING"
         /\ "CLOSE" \in F => y.state \in Gone
         /\ F # {} => Keyed(e, x.hs) /\ x.hs.state = "COMPLETE" /\ x.crypto = AppKeys(e)
         /\ x.state \in {"DRAINING", "CLOSED"} => F = {}
<1> DEFINE F == frames_to_send(x, d)
           w == IF "CLOSE" \in F THEN set_conn_state(x, "CLOSING") ELSE x
           s == after_send(x, d)
           y == [s EXCEPT !.busy = FALSE]
<1>1. /\ EndOK(e, w) /\ Kept(x, w)
      /\ w.state = x.state \/ w.state = "CLOSING"
      /\ x.state \in Gone => w.state \in Gone
      /\ x.state \in {"DRAINING", "CLOSED"} => w.state \in {x.state, "CLOSED"}
  <2>1. CASE "CLOSE" \in F
    BY <2>1, EndingOK DEF Gone
  <2>2. CASE "CLOSE" \notin F
    BY <2>2 DEF EndOK, Kept
  <2> QED BY <2>1, <2>2
<1>2. F # {} => x.state \in {"ESTABLISHED", "CLOSING"}
  BY DEF frames_to_send, CanSend
<1>3. "CLOSE" \in F => w.state = "CLOSING"
  <2> SUFFICES ASSUME "CLOSE" \in F PROVE w.state = "CLOSING"
    OBVIOUS
  <2> HIDE DEF F
  <2>1. w = set_conn_state(x, "CLOSING") /\ x.state \in {"ESTABLISHED", "CLOSING"}
    BY <1>2
  <2>2. w.state = IF is_valid_conn_state_transition(x.state, "CLOSING") THEN "CLOSING" ELSE x.state
    BY <2>1, SetState DEF EndOK
  <2> QED BY <2>1, <2>2 DEF is_valid_conn_state_transition
<1>4. /\ IsConn(s) /\ s.hs = w.hs /\ s.crypto = w.crypto /\ s.peer_bidi = w.peer_bidi
      /\ s.state = w.state
  <2>1. CASE CanSend(x)
    <3>1. IsConn(w)
      BY <1>1 DEF EndOK
    <3>2. s = [w EXCEPT !.live = TRUE, !.ack = FALSE, !.close = FALSE, !.ping = FALSE,
                        !.hb.send = FALSE, !.hb.echo = FALSE,
                        !.data = @ /\ ~d, !.held = @ \/ ("STREAM" \in F),
                        !.fly = IF F \subseteq {"ACK"} THEN @ ELSE Min({MaxFly, @ + 1})]
      BY <2>1, Zenon DEF after_send
    <3> HIDE DEF w, F, s
    <3>3. IsConn(s)
      BY <3>1, <3>2 DEF IsConn, ConnParts
    <3>4. s.hs = w.hs /\ s.crypto = w.crypto
      BY <3>1, <3>2 DEF IsConn, ConnParts
    <3>5. s.peer_bidi = w.peer_bidi /\ s.state = w.state
      BY <3>1, <3>2 DEF IsConn, ConnParts
    <3> QED BY <3>3, <3>4, <3>5
  <2>2. CASE ~CanSend(x)
    <3>1. s = x
      BY <2>2 DEF after_send
    <3>2. w = x
      BY <2>2 DEF frames_to_send
    <3> QED BY <3>1, <3>2 DEF EndOK
  <2> QED BY <2>1, <2>2
<1> HIDE DEF s, w, F
<1>5. /\ IsConn(y) /\ y.hs = w.hs /\ y.crypto = w.crypto /\ y.peer_bidi = w.peer_bidi
      /\ y.state = w.state /\ y.busy = FALSE
  BY <1>4 DEF IsConn, ConnParts
<1> HIDE DEF y
<1>6. EndOK(e, y) /\ y.hs = x.hs
  BY <1>1, <1>5 DEF EndOK, Kept
<1>7. F # {} => Keyed(e, x.hs) /\ x.hs.state = "COMPLETE" /\ x.crypto = AppKeys(e)
  <2> SUFFICES ASSUME x.state \in {"ESTABLISHED", "CLOSING"}
               PROVE  Keyed(e, x.hs) /\ x.hs.state = "COMPLETE" /\ x.crypto = AppKeys(e)
    BY <1>2
  <2> QED BY DEF EndOK
<1>8. x.state \in {"DRAINING", "CLOSED"} => F = {}
  BY <1>2
<1>9. Progress(e, x, y)
  BY <1>1, <1>5, <1>6 DEF Progress
<1> QED BY <1>1, <1>3, <1>5, <1>6, <1>7, <1>8, <1>9 DEF y, s, F, Gone

\* p is a datagram that end e, now in state x, has sent.
InTransit(e, x, p) ==
  /\ p.to = Peer(e)
  /\ \/ /\ p.hello = <<Hello(e)>>
        /\ e = "server" => Keyed(e, x.hs) /\ ~nxp_handshake_has_data(x.hs)
     \/ /\ p.hello = <<>> /\ p.key = AppKeys(e).send
        /\ Keyed(e, x.hs) /\ x.hs.state = "COMPLETE" /\ ~nxp_handshake_has_data(x.hs)
        /\ "CLOSE" \in p.frames => x.state \in Gone

\* A datagram stays explained by its sender while the sender progresses.
LEMMA StaysInTransit ==
  ASSUME NEW e \in Ends, NEW x, NEW y, NEW p, InTransit(e, x, p), Progress(e, x, y)
  PROVE  InTransit(e, y, p)
BY DEF InTransit, Progress

\* A flush leaves nothing of the hello behind, and its datagrams are in transit.
LEMMA FlushStep ==
  ASSUME NEW e \in Ends, NEW x, EndOK(e, x), flush(e, x)
  PROVE  \E y : /\ c' = [c EXCEPT ![e] = y]
                /\ Progress(e, x, y) /\ ~nxp_handshake_has_data(y.hs) /\ y.busy = FALSE
                /\ Keyed(e, y.hs) => Keyed(e, x.hs)
                /\ y.state = "DRAINING" => x.state = "DRAINING"
                /\ \A p \in net' : p \in net \/ InTransit(e, y, p)
                /\ x.state \in {"DRAINING", "CLOSED"} => net' \subseteq net
<1>1. PICK d \in BOOLEAN : \E kept \in SUBSET Packets(e, x, d) :
        /\ net' = net \cup kept
        /\ c' = [c EXCEPT ![e] = [after_send(after_handshake_packets(x), d) EXCEPT !.busy = FALSE]]
  BY DEF flush
<1>2. PICK kept \in SUBSET Packets(e, x, d) :
        /\ net' = net \cup kept
        /\ c' = [c EXCEPT ![e] = [after_send(after_handshake_packets(x), d) EXCEPT !.busy = FALSE]]
  BY <1>1
<1> DEFINE m == after_handshake_packets(x)
           F == frames_to_send(m, d)
           y == [after_send(m, d) EXCEPT !.busy = FALSE]
<1>3. /\ EndOK(e, m) /\ ~nxp_handshake_has_data(m.hs) /\ m.state = x.state
      /\ ~nxp_handshake_has_data(x.hs) => m.hs = x.hs
      /\ Waits(e, x.hs) => Waits(e, m.hs)
      /\ Keyed(e, x.hs) => Keyed(e, m.hs) /\ m.hs.state = x.hs.state
  BY HelloLeaves
<1>4. Packets(e, x, d) = send_handshake_packet(e, x)
        \cup (IF F = {} THEN {} ELSE {Datagram(e, <<>>, m.crypto.send, F)})
  BY DEF Packets
<1> HIDE DEF m
<1>5. /\ Progress(e, m, y) /\ y.hs = m.hs /\ y.busy = FALSE
      /\ y.state = "DRAINING" => m.state = "DRAINING"
      /\ "CLOSE" \in F => y.state \in Gone
      /\ F # {} => Keyed(e, m.hs) /\ m.hs.state = "COMPLETE" /\ m.crypto = AppKeys(e)
      /\ m.state \in {"DRAINING", "CLOSED"} => F = {}
  BY <1>3, FramesLeave
<1> HIDE DEF y, F
<1>6. Progress(e, x, y) /\ ~nxp_handshake_has_data(y.hs) /\ (Keyed(e, y.hs) => Keyed(e, x.hs))
  <2>1. Progress(e, x, y) /\ ~nxp_handshake_has_data(y.hs)
    BY <1>3, <1>5 DEF Progress
  <2>2. nxp_handshake_has_data(x.hs) => Waits(e, x.hs) \/ Keyed(e, x.hs)
    BY DEF EndOK, nxp_handshake_has_data, NoHandshake
  <2>3. Waits(e, m.hs) => ~Keyed(e, m.hs)
    BY DEF Waits, Keyed
  <2> QED BY <1>3, <1>5, <2>1, <2>2, <2>3
<1>7. ASSUME NEW p \in send_handshake_packet(e, x) PROVE InTransit(e, y, p)
  <2>1. nxp_handshake_has_data(x.hs)
    BY DEF send_handshake_packet
  <2>2. Waits(e, x.hs) \/ Keyed(e, x.hs)
    BY <2>1 DEF EndOK, nxp_handshake_has_data, NoHandshake
  <2>3. /\ x.hs.send = <<Hello(e)>> /\ (x.hs.done => e = "server")
        /\ Keyed(e, x.hs) => e = "server"
        /\ Waits(e, x.hs) => e = "client"
    BY <2>1, <2>2, HasData
  <2>4. CASE p = Datagram(e, x.hs.send, x.hs.initial.send, {})
    <3>1. p.to = Peer(e) /\ p.hello = <<Hello(e)>>
      BY <2>3, <2>4 DEF Datagram
    <3> QED BY <1>3, <1>5, <1>6, <2>2, <2>3, <3>1 DEF InTransit
  <2>5. CASE x.hs.done /\ p = Datagram(e, <<>>, x.hs.app.send, {"DONE"})
    <3>1. p.to = Peer(e) /\ p.hello = <<>> /\ p.key = x.hs.app.send /\ p.frames = {"DONE"}
      BY <2>5 DEF Datagram
    <3>2. Keyed(e, x.hs) /\ x.hs.app = AppKeys(e) /\ x.hs.state = "COMPLETE"
      BY <2>2, <2>3, <2>5 DEF Keyed
    <3>3. Keyed(e, y.hs) /\ y.hs.state = "COMPLETE" /\ "CLOSE" \notin p.frames
      BY <1>3, <1>5, <3>1, <3>2
    <3> QED BY <1>6, <3>1, <3>2, <3>3 DEF InTransit
  <2> QED BY <2>1, <2>4, <2>5 DEF send_handshake_packet
<1>8. CASE F = {}
  <2>1. x.state \in {"DRAINING", "CLOSED"} => send_handshake_packet(e, x) = {}
    BY DEF EndOK, send_handshake_packet
  <2> QED BY <1>2, <1>3, <1>4, <1>5, <1>6, <1>7, <1>8, <2>1 DEF y, m
<1>9. CASE F # {}
  <2> DEFINE q == Datagram(e, <<>>, m.crypto.send, F)
  <2>1. q.to = Peer(e) /\ q.hello = <<>> /\ q.key = AppKeys(e).send /\ q.frames = F
    BY <1>5, <1>9 DEF Datagram
  <2> HIDE DEF q
  <2>2. InTransit(e, y, q)
    BY <1>5, <1>6, <1>9, <2>1 DEF InTransit
  <2>3. \A p \in net' : p \in net \/ InTransit(e, y, p)
    BY <1>2, <1>4, <1>7, <1>9, <2>2 DEF q
  <2> QED BY <1>2, <1>3, <1>5, <1>6, <1>9, <2>3 DEF y, m
<1> QED BY <1>8, <1>9

-----------------------------------------------------------------------------
(* Both ends and the network.                                                 *)

\* The inductive invariant.  The properties only speak of ends that are past
\* their handshake; what carries them there is what each datagram in transit
\* says of its sender: who sent a ServerHello has keys and nothing more to say
\* of the handshake, who sent a CLOSE frame is gone.
IInv ==
  /\ c = [e \in Ends |-> c[e]]
  /\ \A e \in Ends : /\ EndOK(e, c[e])
                     /\ nxp_handshake_has_data(c[e].hs) => c[e].busy /\ e = "server"
                     /\ c[e].state = "DRAINING" => c[Peer(e)].state \in Gone
  /\ \A p \in net : \E e \in Ends : InTransit(e, c[e], p)
  /\ Keyed("client", c["client"].hs) =>
       Keyed("server", c["server"].hs) /\ ~nxp_handshake_has_data(c["server"].hs)

\* A step of end e to state y that keeps the invariant.
Step(e, y) ==
  /\ c' = [c EXCEPT ![e] = y]
  /\ Progress(e, c[e], y)
  /\ nxp_handshake_has_data(y.hs) => y.busy /\ e = "server"
  /\ y.state = "DRAINING" => c[e].state = "DRAINING" \/ c[Peer(e)].state \in Gone
  /\ \A p \in net' : p \in net \/ InTransit(e, y, p)
  /\ c[e].state \in {"DRAINING", "CLOSED"} => net' \subseteq net
  /\ e = "client" /\ Keyed("client", y.hs) =>
       \/ Keyed("client", c["client"].hs)
       \/ Keyed("server", c["server"].hs) /\ ~nxp_handshake_has_data(c["server"].hs)

\* What SilentOnceDone says of a step.
Quiet ==
  \A e \in Ends : c[e].state \in {"DRAINING", "CLOSED"} =>
    /\ {p \in net' : p.to = Peer(e)} \subseteq net
    /\ c'[e].state \in {c[e].state, "CLOSED"}

\* The two ends are each other's peer.
LEMMA PeerPeer == \A e \in Ends : Peer(e) \in Ends /\ Peer(Peer(e)) = e /\ Peer(e) # e
BY DEF Ends, Peer

\* A sound step of one end keeps the invariant, and is silent at a finished end.
LEMMA StepInv ==
  ASSUME IInv, NEW e \in Ends, NEW y, Step(e, y)
  PROVE  IInv' /\ Quiet
<1>1. c' = [c EXCEPT ![e] = y] /\ c = [f \in Ends |-> c[f]]
  BY DEF Step, IInv
<1>2. /\ c' = [f \in Ends |-> c'[f]] /\ c'[e] = y
      /\ Peer(e) \in Ends /\ Peer(e) # e /\ c'[Peer(e)] = c[Peer(e)]
      /\ \A f \in Ends : f = e \/ f = Peer(e)
  <2>1. \A f \in Ends : f = e \/ f = Peer(e)
    BY DEF Ends, Peer
  <2> QED BY <1>1, <2>1, PeerPeer
<1>3. \A f \in Ends : Progress(f, c[f], c'[f])
  <2>1. Progress(e, c[e], c'[e])
    BY <1>2 DEF Step
  <2>2. Progress(Peer(e), c[Peer(e)], c'[Peer(e)])
    BY <1>2 DEF IInv, Progress
  <2> QED BY <1>2, <2>1, <2>2
<1>4. \A f \in Ends : nxp_handshake_has_data(c'[f].hs) => c'[f].busy /\ f = "server"
  BY <1>2 DEF IInv, Step
<1>5. \A f \in Ends : c'[f].state = "DRAINING" => c'[Peer(f)].state \in Gone
  <2>1. c'[e].state = "DRAINING" => c'[Peer(e)].state \in Gone
    BY <1>2 DEF IInv, Step
  <2>2. c[Peer(e)].state = "DRAINING" => c'[e].state \in Gone
    BY <1>2, <1>3, PeerPeer DEF IInv, Progress
  <2> QED BY <1>2, <2>1, <2>2, PeerPeer
<1>6. \A p \in net' : \E f \in Ends : InTransit(f, c'[f], p)
  <2> SUFFICES ASSUME NEW p \in net' PROVE \E f \in Ends : InTransit(f, c'[f], p)
    OBVIOUS
  <2>1. CASE p \in net
    <3>1. PICK f \in Ends : InTransit(f, c[f], p)
      BY <2>1 DEF IInv
    <3>2. InTransit(f, c'[f], p)
      BY <1>3, <3>1, StaysInTransit
    <3> QED BY <3>2
  <2>2. CASE p \notin net
    BY <1>2, <2>2 DEF Step
  <2> QED BY <2>1, <2>2
<1>7. Keyed("client", c'["client"].hs) =>
        Keyed("server", c'["server"].hs) /\ ~nxp_handshake_has_data(c'["server"].hs)
  <2> SUFFICES ASSUME Keyed("client", c'["client"].hs)
               PROVE  Keyed("server", c'["server"].hs) /\ ~nxp_handshake_has_data(c'["server"].hs)
    OBVIOUS
  <2>1. Keyed("server", c["server"].hs) /\ ~nxp_handshake_has_data(c["server"].hs)
    <3>1. CASE e = "client"
      BY <1>2, <3>1 DEF Step, IInv
    <3>2. CASE e # "client"
      BY <1>2, <3>2 DEF IInv, Ends
    <3> QED BY <3>1, <3>2
  <2>2. "server" \in Ends
    BY DEF Ends
  <2> QED BY <1>3, <2>1, <2>2 DEF Progress
<1>8. IInv'
  BY <1>2, <1>3, <1>4, <1>5, <1>6, <1>7 DEF IInv, Progress
<1>9. Quiet
  <2> SUFFICES ASSUME NEW f \in Ends, c[f].state \in {"DRAINING", "CLOSED"}
               PROVE  /\ {p \in net' : p.to = Peer(f)} \subseteq net
                      /\ c'[f].state \in {c[f].state, "CLOSED"}
    BY DEF Quiet
  <2>1. c'[f].state \in {c[f].state, "CLOSED"}
    BY <1>3 DEF Progress
  <2>2. CASE f = e
    BY <2>1, <2>2 DEF Step
  <2>3. CASE f = Peer(e)
    BY <2>1, <2>3, PeerPeer DEF Step, InTransit
  <2> QED BY <1>2, <2>2, <2>3
<1> QED BY <1>8, <1>9

-----------------------------------------------------------------------------
(* The actions.                                                               *)

\* Progress composes.
LEMMA ProgressTrans ==
  ASSUME NEW e \in Ends, NEW x, NEW y, NEW z, Progress(e, x, y), Progress(e, y, z)
  PROVE  Progress(e, x, z)
BY DEF Progress

\* The flush that ends a handler which brought end e to x.
LEMMA FlushAction ==
  ASSUME IInv, NEW e \in Ends, NEW x, Progress(e, c[e], x),
         x.state = "DRAINING" => c[e].state = "DRAINING",
         Keyed(e, x.hs) => Keyed(e, c[e].hs),
         flush(e, x)
  PROVE  \E y : Step(e, y)
<1>1. EndOK(e, x)
  BY DEF Progress
<1>2. PICK y : /\ c' = [c EXCEPT ![e] = y]
               /\ Progress(e, x, y) /\ ~nxp_handshake_has_data(y.hs) /\ y.busy = FALSE
               /\ Keyed(e, y.hs) => Keyed(e, x.hs)
               /\ y.state = "DRAINING" => x.state = "DRAINING"
               /\ \A p \in net' : p \in net \/ InTransit(e, y, p)
               /\ x.state \in {"DRAINING", "CLOSED"} => net' \subseteq net
  BY <1>1, FlushStep
<1>3. Progress(e, c[e], y)
  BY <1>2, ProgressTrans
<1>4. c[e].state \in {"DRAINING", "CLOSED"} => x.state \in {"DRAINING", "CLOSED"}
  BY DEF Progress
<1> QED BY <1>2, <1>3, <1>4 DEF Step

\* nxp_conn_start_handshake at an idle end.
LEMMA StartStep ==
  ASSUME NEW e \in Ends, NEW x, EndOK(e, x), x.state = "IDLE"
  PROVE  LET y == nxp_conn_start_handshake(e, x) IN
         Progress(e, x, y) /\ Waits(e, y.hs) /\ y.state = "HANDSHAKE_INITIAL" /\ y.busy = x.busy
<1> DEFINE h == nxp_handshake_create(e, e = "server", Params[e])
           g == IF e = "server" THEN nxp_handshake_start_server(h, "cid")
                                ELSE nxp_handshake_start_client(h, "cid")
           w == set_conn_state(x, "HANDSHAKE_INITIAL")
           y == [w EXCEPT !.hs = g]
<1>1. nxp_conn_start_handshake(e, x) = y
  BY DEF nxp_conn_start_handshake
<1>2. Waits(e, g)
  BY StartWaits
<1> HIDE DEF g
<1>3. Kept(x, w) /\ w.state = "HANDSHAKE_INITIAL"
  BY SetState DEF EndOK, is_valid_conn_state_transition
<1> HIDE DEF w
<1>4. x.hs = NoHandshake /\ x.crypto = NoKeys
  BY DEF EndOK, PastHandshake
<1>5. /\ IsConn(y) /\ y.hs = g /\ y.crypto = NoKeys /\ y.state = "HANDSHAKE_INITIAL"
      /\ y.busy = x.busy
  BY <1>3, <1>4 DEF Kept, IsConn, ConnParts
<1> HIDE DEF y
<1>6. EndOK(e, y)
  BY <1>2, <1>5 DEF EndOK
<1>7. ~Keyed(e, x.hs) /\ x.state \notin Gone
  BY <1>4 DEF Keyed, NoHandshake, Gone
<1> QED BY <1>1, <1>2, <1>5, <1>6, <1>7 DEF Progress, Gone

\* nxp_conn_connect and the flush that sends the ClientHello are a sound step.
LEMMA ConnectStep ==
  ASSUME IInv, Connect PROVE \E y : Step("client", y)
<1> DEFINE e == "client"
           x == nxp_conn_start_handshake(e, c[e])
<1>1. e \in Ends /\ EndOK(e, c[e]) /\ c[e].state = "IDLE"
  BY DEF Connect, IInv, Ends
<1>2. Progress(e, c[e], x) /\ Waits(e, x.hs) /\ x.state = "HANDSHAKE_INITIAL"
  BY <1>1, StartStep
<1>3. ~Keyed(e, x.hs)
  BY <1>2 DEF Waits, Keyed
<1>4. flush(e, x)
  BY DEF Connect
<1> HIDE DEF x
<1> QED BY <1>1, <1>2, <1>3, <1>4, FlushAction

\* A change of what handshake and closing do not look at, with a flush.
LEMMA KeptFlush ==
  ASSUME IInv, NEW e \in Ends, NEW x, Kept(c[e], x), x.state = c[e].state, flush(e, x)
  PROVE  \E y : Step(e, y)
<1>1. EndOK(e, x)
  BY KeptOK DEF IInv
<1>2. Progress(e, c[e], x) /\ x.hs = c[e].hs
  BY <1>1 DEF Progress, Kept
<1> QED BY <1>2, FlushAction

\* nxp_conn_on_timeout, on each of its timers, is a sound step.
LEMMA TimerStep ==
  ASSUME IInv, NEW e \in Ends, Timer(e) PROVE \E y : Step(e, y)
<1>1. PICK loss \in BOOLEAN, fire \in BOOLEAN :
        Ready(e) /\ \E x \in nxp_conn_on_timeout(c[e], loss, fire) : flush(e, x)
  BY DEF Timer, OnTimeout
<1>2. PICK x \in nxp_conn_on_timeout(c[e], loss, fire) : flush(e, x)
  BY <1>1
<1>3. EndOK(e, c[e]) /\ c[e].state # "IDLE" /\ ~nxp_handshake_has_data(c[e].hs)
  BY <1>1 DEF Ready, IInv
<1> DEFINE probe(v) == IF loss /\ v.pto > 0 THEN [v EXCEPT !.ping = TRUE] ELSE v
           lost == IF loss THEN nxp_ack_on_loss_timeout(c[e]) ELSE {c[e]}
           beat(v) == [v EXCEPT !.hb = nxp_heartbeat_check(@, fire)]
<1>4. PICK v \in lost : x = IF nxp_heartbeat_is_dead(beat(probe(v)).hb)
                            THEN set_conn_state(beat(probe(v)), "CLOSED") ELSE beat(probe(v))
  BY DEF nxp_conn_on_timeout
<1>5. Kept(c[e], v) /\ v.state = c[e].state
  <2>1. CASE v = c[e]
    BY <1>3, <2>1 DEF EndOK, Kept
  <2>2. CASE \E o : v = [c[e] EXCEPT !.fly = o.fly, !.lossTimer = o.fly > 0, !.data = @ \/ o.lost]
    BY <1>3, <2>2 DEF EndOK, Kept, IsConn, ConnParts
  <2>3. CASE v = [c[e] EXCEPT !.pto = @ + 1]
    BY <1>3, <2>3 DEF EndOK, Kept, IsConn, ConnParts
  <2> QED BY <2>1, <2>2, <2>3 DEF nxp_ack_on_loss_timeout
<1> DEFINE q == beat(probe(v))
<1>6. Kept(c[e], q) /\ q.state = c[e].state
  <2>1. Kept(c[e], probe(v)) /\ probe(v).state = c[e].state
    BY <1>5 DEF Kept, IsConn, ConnParts
  <2> HIDE DEF probe
  <2> QED BY <2>1 DEF Kept, IsConn, ConnParts
<1> HIDE DEF q
<1>7. EndOK(e, q) /\ ~nxp_handshake_has_data(q.hs) /\ q.hs = c[e].hs
  BY <1>3, <1>6, KeptOK DEF Kept
<1>8. CASE x = q
  BY <1>2, <1>6, <1>8, KeptFlush
<1>9. CASE x = set_conn_state(q, "CLOSED")
  <2>1. /\ EndOK(e, x) /\ Kept(q, x)
        /\ x.state = q.state \/ x.state = "CLOSED"
        /\ q.state \in {"DRAINING", "CLOSED"} => x.state \in {q.state, "CLOSED"}
        /\ q.state \in Gone => x.state \in Gone
    BY <1>3, <1>6, <1>7, <1>9, EndingOK DEF Gone
  <2>2. Progress(e, c[e], x) /\ x.hs = c[e].hs
    BY <1>6, <1>7, <2>1 DEF Progress, Kept
  <2> QED BY <1>2, <1>6, <2>1, <2>2, FlushAction
<1> QED BY <1>4, <1>8, <1>9 DEF q

\* A datagram arrives, to be kept by the network or not.
LEMMA ArriveStep ==
  ASSUME IInv, NEW e \in Ends, NEW p, NEW keep \in BOOLEAN, Arrive(e, p, keep)
  PROVE  \E y : Step(e, y)
<1> DEFINE started == e = "server" /\ c[e].state = "IDLE" /\ p.hello # <<>>
           x == IF started THEN nxp_conn_start_handshake(e, c[e]) ELSE c[e]
<1>1. p \in net /\ p.to = e /\ net' \subseteq net
  BY DEF Arrive
<1>2. EndOK(e, c[e]) /\ c = [f \in Ends |-> c[f]]
  BY DEF IInv
<1>3. InTransit(Peer(e), c[Peer(e)], p) /\ Peer(e) \in Ends
  <2>1. PICK f \in Ends : InTransit(f, c[f], p)
    BY <1>1 DEF IInv
  <2>2. f = Peer(e)
    BY <1>1, <2>1, PeerPeer DEF InTransit
  <2> QED BY <2>1, <2>2
<1>4. p.hello = <<>> \/ p.hello = <<Hello(Peer(e))>>
  BY <1>3 DEF InTransit
<1>5. /\ Progress(e, c[e], x) /\ x.busy = c[e].busy
      /\ x.state = "DRAINING" => c[e].state = "DRAINING"
      /\ nxp_handshake_has_data(x.hs) => e = "server" /\ x.hs = c[e].hs
      /\ Keyed(e, x.hs) => Keyed(e, c[e].hs)
      /\ p.hello = <<>> => x = c[e]
  <2>1. CASE started
    <3>1. Progress(e, c[e], x) /\ Waits(e, x.hs) /\ x.state = "HANDSHAKE_INITIAL"
          /\ x.busy = c[e].busy
      BY <1>2, <2>1, StartStep
    <3>2. ~nxp_handshake_has_data(x.hs)
      BY <2>1, <3>1, HasData
    <3>3. ~Keyed(e, x.hs)
      BY <3>1 DEF Waits, Keyed
    <3> HIDE DEF x
    <3> QED BY <2>1, <3>1, <3>2, <3>3
  <2>2. CASE ~started
    BY <1>2, <2>2 DEF Progress, IInv
  <2> QED BY <2>1, <2>2
<1>6. IF e = "server" /\ x.state = "IDLE" THEN c' = c
      ELSE \E y \in nxp_conn_recv(x, p) :
             c' = [c EXCEPT ![e] = [y EXCEPT !.busy = @ \/ x.state \notin {"DRAINING", "CLOSED"}]]
  BY DEF Arrive
<1> HIDE DEF x, started
<1>7. EndOK(e, x)
  BY <1>5 DEF Progress
<1>8. CASE c' = c
  <2>1. c' = [c EXCEPT ![e] = c[e]]
    BY <1>2, <1>8
  <2>2. Step(e, c[e])
    BY <1>1, <1>2, <2>1 DEF Step, Progress, IInv
  <2> QED BY <2>2
<1>9. CASE \E y \in nxp_conn_recv(x, p) :
             c' = [c EXCEPT ![e] = [y EXCEPT !.busy = @ \/ x.state \notin {"DRAINING", "CLOSED"}]]
  <2>1. PICK y \in nxp_conn_recv(x, p) :
          c' = [c EXCEPT ![e] = [y EXCEPT !.busy = @ \/ x.state \notin {"DRAINING", "CLOSED"}]]
    BY <1>9
  <2>2. Waits(e, x.hs) => Clear(x.hs)
    BY <1>5, HasData
  <2>3. p.hello = <<>> => ~nxp_handshake_has_data(x.hs)
    <3> SUFFICES ASSUME p.hello = <<>>, nxp_handshake_has_data(x.hs) PROVE FALSE
      OBVIOUS
    <3>1. e = "server" /\ Peer(e) = "client" /\ x = c[e]
      BY <1>5 DEF Peer
    <3>2. Keyed("client", c["client"].hs)
      BY <1>3, <3>1 DEF InTransit
    <3> QED BY <3>1, <3>2 DEF IInv
  <2>4. /\ Progress(e, x, y) /\ y.busy = x.busy
        /\ \/ y.hs = x.hs
           \/ Keyed(e, x.hs) /\ Keyed(e, y.hs) /\ ~nxp_handshake_has_data(y.hs)
           \/ Waits(e, x.hs) /\ Keyed(e, y.hs) /\ p.hello # <<>>
        /\ y.state = "DRAINING" =>
             \/ x.state = "DRAINING"
             \/ "CLOSE" \in p.frames /\ p.hello = <<>>
        /\ x.state \in {"DRAINING", "CLOSED"} => y = x
    BY <1>4, <1>7, <2>2, <2>3, RecvStep, ZenonT(60)
  <2> DEFINE z == [y EXCEPT !.busy = @ \/ x.state \notin {"DRAINING", "CLOSED"}]
  <2>5. /\ IsConn(z) /\ z.hs = y.hs /\ z.crypto = y.crypto /\ z.peer_bidi = y.peer_bidi
        /\ z.state = y.state
        /\ x.state \notin {"DRAINING", "CLOSED"} => z.busy
    <3>1. IsConn(y)
      BY <2>4 DEF Progress, EndOK
    <3> QED BY <3>1 DEF IsConn, ConnParts
  <2> HIDE DEF z
  <2>6. EndOK(e, z)
    BY <2>4, <2>5 DEF Progress, EndOK
  <2>7. Progress(e, c[e], z)
    <3>1. Progress(e, x, z)
      BY <2>4, <2>5, <2>6 DEF Progress
    <3> QED BY <1>5, <3>1, ProgressTrans
  <2>8. nxp_handshake_has_data(z.hs) => z.busy /\ e = "server"
    <3> SUFFICES ASSUME nxp_handshake_has_data(z.hs) PROVE z.busy /\ e = "server"
      OBVIOUS
    <3>1. z.state \notin {"DRAINING", "CLOSED"}
      BY <2>6 DEF EndOK
    <3>2. x.state \notin {"DRAINING", "CLOSED"}
      BY <2>4, <2>5, <3>1
    <3>3. e = "server"
      <4>1. CASE y.hs = x.hs
        BY <1>5, <2>5, <4>1
      <4>2. CASE Keyed(e, y.hs)
        BY <2>5, <4>2, HasData
      <4> QED BY <2>4, <4>1, <4>2
    <3> QED BY <2>5, <3>2, <3>3
  <2>9. z.state = "DRAINING" => c[e].state = "DRAINING" \/ c[Peer(e)].state \in Gone
    <3>1. p.hello = <<>> => p.hello # <<Hello(Peer(e))>>
      OBVIOUS
    <3>2. p.hello = <<>> /\ "CLOSE" \in p.frames => c[Peer(e)].state \in Gone
      BY <1>3, <3>1 DEF InTransit
    <3> QED BY <1>5, <2>4, <2>5, <3>2
  <2>10. e = "client" /\ Keyed("client", z.hs) =>
           \/ Keyed("client", c["client"].hs)
           \/ Keyed("server", c["server"].hs) /\ ~nxp_handshake_has_data(c["server"].hs)
    <3> SUFFICES ASSUME e = "client", Keyed("client", z.hs), ~Keyed("client", c["client"].hs)
                 PROVE  Keyed("server", c["server"].hs) /\ ~nxp_handshake_has_data(c["server"].hs)
      OBVIOUS
    <3>1. p.hello # <<>>
      BY <1>5, <2>4, <2>5
    <3>2. Peer(e) = "server"
      BY DEF Peer
    <3> QED BY <1>3, <3>1, <3>2 DEF InTransit
  <2>11. c' = [c EXCEPT ![e] = z]
    BY <2>1 DEF z
  <2>12. Step(e, z)
    BY <1>1, <2>7, <2>8, <2>9, <2>10, <2>11 DEF Step
  <2> QED BY <2>12
<1> QED BY <1>6, <1>8, <1>9

\* Every step of the connection is a step of one end that keeps the invariant.
LEMMA NextStep ==
  ASSUME IInv, Next PROVE \E e \in Ends : \E y : Step(e, y)
<1>1. CASE Connect
  BY <1>1, ConnectStep DEF Ends
<1>2. ASSUME NEW e \in Ends,
             \/ Recv(e) \/ RecvDuplicate(e) \/ Flush(e) \/ IdleTimeout(e) \/ Timer(e) \/ Pace(e)
             \/ nxp_conn_initiate_close(e) \/ nxp_conn_stream_send(e) \/ nxp_conn_set_heartbeat(e)
      PROVE  \E y : Step(e, y)
  <2>1. EndOK(e, c[e]) /\ IsConn(c[e]) /\ c = [f \in Ends |-> c[f]]
    BY DEF IInv, EndOK
  <2>2. Kept(c[e], c[e])
    BY <2>1 DEF Kept
  <2>3. CASE Recv(e)
    BY <2>3, ArriveStep DEF Recv
  <2>4. CASE RecvDuplicate(e)
    BY <2>4, ArriveStep DEF RecvDuplicate
  <2>5. CASE Flush(e)
    BY <2>2, <2>5, KeptFlush DEF Flush
  <2>6. CASE IdleTimeout(e)
    <3> DEFINE y == set_conn_state(c[e], "CLOSED")
    <3>1. /\ c' = [c EXCEPT ![e] = y] /\ net' = net
          /\ c[e].state # "IDLE" /\ ~nxp_handshake_has_data(c[e].hs)
      BY <2>6 DEF IdleTimeout, Ready, IInv
    <3>2. /\ EndOK(e, y) /\ Kept(c[e], y)
          /\ y.state = c[e].state \/ y.state = "CLOSED"
          /\ c[e].state \in {"DRAINING", "CLOSED"} => y.state \in {c[e].state, "CLOSED"}
          /\ c[e].state \in Gone => y.state \in Gone
      BY <2>1, <3>1, EndingOK DEF Gone
    <3> HIDE DEF y
    <3>3. Step(e, y)
      BY <3>1, <3>2 DEF Step, Progress, Kept
    <3> QED BY <3>3
  <2>7. CASE Timer(e)
    BY <2>7, TimerStep
  <2>8. CASE Pace(e)
    BY <2>2, <2>8, KeptFlush DEF Pace
  <2>9. CASE nxp_conn_initiate_close(e)
    <3> DEFINE x == [c[e] EXCEPT !.close = TRUE]
    <3>1. Kept(c[e], x) /\ x.state = c[e].state
      BY <2>1 DEF Kept, IsConn, ConnParts
    <3> QED BY <2>9, <3>1, KeptFlush DEF nxp_conn_initiate_close
  <2>10. CASE nxp_conn_stream_send(e)
    <3> DEFINE x == [c[e] EXCEPT !.data = TRUE]
    <3>1. Kept(c[e], x) /\ x.state = c[e].state
      BY <2>1 DEF Kept, IsConn, ConnParts
    <3> QED BY <2>10, <3>1, KeptFlush DEF nxp_conn_stream_send
  <2>11. CASE nxp_conn_set_heartbeat(e)
    <3> DEFINE x == [c[e] EXCEPT !.hb = [NoHeartbeat EXCEPT !.enabled = TRUE]]
    <3>1. Kept(c[e], x) /\ x.state = c[e].state
      BY <2>1 DEF Kept, IsConn, ConnParts
    <3>2. c' = [c EXCEPT ![e] = x] /\ net' = net
      BY <2>1, <2>11 DEF nxp_conn_set_heartbeat
    <3> HIDE DEF x
    <3>3. EndOK(e, x)
      BY <2>1, <3>1, KeptOK
    <3>4. Step(e, x)
      BY <3>1, <3>2, <3>3 DEF Step, Progress, Kept, IInv
    <3> QED BY <3>4
  <2> QED BY <1>2, <2>3, <2>4, <2>5, <2>6, <2>7, <2>8, <2>9, <2>10, <2>11
<1> QED BY <1>1, <1>2 DEF Next

\* Two connections just created satisfy the invariant.
LEMMA InitIInv == Init => IInv
<1> SUFFICES ASSUME Init PROVE IInv
  OBVIOUS
<1>1. \A e \in Ends : /\ IsConn(c[e]) /\ c[e].hs = NoHandshake /\ c[e].state = "IDLE"
                      /\ c[e].crypto = NoKeys
  BY DEF Init, nxp_conn_create, IsConn, ConnParts
<1>2. ~nxp_handshake_has_data(NoHandshake) /\ ~Keyed("client", NoHandshake)
  BY DEF nxp_handshake_has_data, NoHandshake, Keyed
<1>3. c = [e \in Ends |-> c[e]] /\ net = {}
  BY DEF Init
<1> QED BY <1>1, <1>2, <1>3 DEF IInv, EndOK, Ends

\* The invariant holds for ever, and every step is quiet where it has to be.
LEMMA Invariance == Spec => []IInv /\ [][Quiet]_vars
<1>1. IInv /\ [Next]_vars => IInv' /\ [Quiet]_vars
  <2> SUFFICES ASSUME IInv, [Next]_vars PROVE IInv' /\ [Quiet]_vars
    OBVIOUS
  <2>1. CASE UNCHANGED vars
    BY <2>1 DEF vars, IInv, InTransit
  <2>2. CASE Next
    BY <2>2, NextStep, StepInv
  <2> QED BY <2>1, <2>2
<1> QED BY <1>1, InitIInv, PTL DEF Spec

\* Keys, and a state past the handshake, both mean the hellos were exchanged.
LEMMA StatesDiffer ==
  ASSUME NEW e \in Ends, EndOK(e, c[e])
  PROVE  /\ c[e].crypto.available => Keyed(e, c[e].hs) /\ c[e].crypto = AppKeys(e)
         /\ c[e].state \in PastHandshake =>
              Keyed(e, c[e].hs) /\ c[e].hs.state = "COMPLETE" /\ c[e].peer_bidi = Params[Peer(e)].bidi
<1>1. CASE c[e].crypto = NoKeys
  <2>1. NoKeys.available = FALSE /\ AppKeys(e).available = TRUE
    BY DEF NoKeys, AppKeys
  <2>2. c[e].crypto # AppKeys(e) /\ c[e].crypto.available = FALSE
    BY <1>1, <2>1
  <2>3. c[e].state \in {"IDLE", "HANDSHAKE_INITIAL", "CLOSED"}
    BY <2>2 DEF EndOK
  <2> QED BY <2>2, <2>3 DEF PastHandshake
<1>2. CASE Keyed(e, c[e].hs) /\ c[e].crypto = AppKeys(e) /\ c[e].crypto # NoKeys
  <2>1. IF c[e].hs.state = "COMPLETE"
        THEN c[e].peer_bidi = Params[Peer(e)].bidi
        ELSE c[e].state \in {"HANDSHAKE_INITIAL", "CLOSED"}
    BY <1>2 DEF EndOK
  <2> QED BY <1>2, <2>1 DEF PastHandshake
<1> QED BY <1>1, <1>2 DEF EndOK

\* What process_client_hello and process_server_hello derive are the two
\* directions of one pair of keys.
LEMMA KeysPair ==
  \A e \in Ends : AppKeys(e).send = AppKeys(Peer(e)).recv /\ AppKeys(e).send # <<>>
BY DEF AppKeys, AppKey, Ends, Peer

\* When both ends hold application keys, each decrypts with the key the other
\* encrypts with, in every reachable state.
THEOREM KeysAlwaysAgree == Spec => []KeysAgree
<1>1. IInv => KeysAgree
  BY StatesDiffer, KeysPair, PeerPeer DEF IInv, KeysAgree
<1> QED BY <1>1, Invariance, PTL

\* An end past its handshake has completed it with its peer's parameters, and a
\* client is never ahead of its server.
THEOREM EstablishedAlwaysAgreed == Spec => []EstablishedIsAgreed
<1>1. IInv => EstablishedIsAgreed
  <2> SUFFICES ASSUME IInv, NEW e \in Ends, c[e].state \in PastHandshake
               PROVE  /\ c[e].hs.state = "COMPLETE"
                      /\ e = "client" => c["server"].hs.state = "COMPLETE"
                      /\ c[e].peer_bidi = Params[Peer(e)].bidi
    BY DEF EstablishedIsAgreed
  <2>1. /\ Keyed(e, c[e].hs) /\ c[e].hs.state = "COMPLETE"
        /\ c[e].peer_bidi = Params[Peer(e)].bidi
    BY StatesDiffer DEF IInv
  <2>2. e = "client" => Keyed("server", c["server"].hs)
    BY <2>1 DEF IInv
  <2>3. e = "client" => c["server"].hs.state = "COMPLETE"
    BY <2>2 DEF Keyed
  <2> QED BY <2>1, <2>3
<1> QED BY <1>1, Invariance, PTL

\* Every short-header datagram nxp_conn_send produces carries an application key.
THEOREM NeverInPlaintext == Spec => []NothingInPlaintext
<1>1. IInv => NothingInPlaintext
  <2> SUFFICES ASSUME IInv, NEW p \in net, p.hello = <<>> PROVE p.key # <<>>
    BY DEF NothingInPlaintext
  <2>1. PICK e \in Ends : InTransit(e, c[e], p)
    BY DEF IInv
  <2>2. p.hello # <<Hello(e)>>
    OBVIOUS
  <2> QED BY <2>1, <2>2, KeysPair DEF InTransit
<1> QED BY <1>1, Invariance, PTL

\* An end drains only when its peer has closed.
THEOREM DrainNeedsClose == Spec => []DrainsOnlyOnClose
<1>1. IInv => DrainsOnlyOnClose
  BY DEF IInv, DrainsOnlyOnClose, Gone
<1> QED BY <1>1, Invariance, PTL

\* A draining or closed end never sends again and never leaves the end of its life.
THEOREM DoneIsSilent == Spec => SilentOnceDone
BY Invariance, PTL DEF SilentOnceDone, Quiet
=============================================================================
