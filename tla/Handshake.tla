------------------------------ MODULE Handshake ------------------------------
(* The 1-RTT handshake of core/handshake.c, as operators on the record of one
   endpoint's nxp_handshake.  Cryptography is symbolic: a public key is the name
   of its owner, a shared secret is the pair of the two owners, a derived key is
   the tuple of everything it was derived from.  Two endpoints hold the same key
   exactly when they fed the key schedule the same inputs.                     *)
EXTENDS Naturals, Sequences

CONSTANTS
  Offer,      \* the ciphers a ClientHello lists, in order
  Supported   \* the ciphers the server accepts

NoKeys == [available |-> FALSE, send |-> <<>>, recv |-> <<>>]

NoHandshake == [state |-> "NONE"]

(* Transport parameters: a list of (id, value) pairs.  The idle timeout is
   carried in milliseconds; two parameters are left out when they are zero.   *)
ParamIds == {"data", "stream_data", "bidi", "uni", "idle", "early", "cids"}

encode_transport_params(tp) ==
  LET always(id) == <<id, tp[id]>>
      present(id) == IF tp[id] > 0 THEN <<always(id)>> ELSE <<>>
  IN  <<always("data"), always("stream_data"), always("bidi"), always("uni"),
        <<"idle", tp.idle \div 1000>>>> \o present("early") \o present("cids")

decode_transport_params(seq) ==
  LET carried(id) == {i \in DOMAIN seq : seq[i][1] = id}
      last(id)    == CHOOSE i \in carried(id) : \A j \in carried(id) : j <= i
      val(id)     == IF carried(id) = {} THEN 0 ELSE seq[last(id)][2]
  IN  [id \in ParamIds |-> IF id = "idle" THEN val(id) * 1000 ELSE val(id)]

encode_client_hello(hs) ==
  [type |-> "CLIENT_HELLO", pub |-> hs.me, ciphers |-> Offer,
   params |-> encode_transport_params(hs.local)]

encode_server_hello(hs) ==
  [type |-> "SERVER_HELLO", pub |-> hs.me, ciphers |-> <<hs.algo>>,
   params |-> encode_transport_params(hs.local)]

(* A hello is determined by its kind and its sender, so that is all the hash of
   a transcript has to tell apart.                                            *)
nxp_crypto_hash(transcript) == [i \in DOMAIN transcript |-> <<transcript[i].type, transcript[i].pub>>]

(* A traffic secret depends on the shared secret, the label of its direction,
   the transcript and the cipher.                                             *)
Secret(hs, label) == <<label, hs.shared, hs.transcript, hs.algo>>

derive_handshake_and_app_keys(hs) ==
  LET c == Secret(hs, "c ap traffic")
      s == Secret(hs, "s ap traffic")
  IN  [hs EXCEPT !.app = IF hs.is_server
                         THEN [available |-> TRUE, send |-> s, recv |-> c]
                         ELSE [available |-> TRUE, send |-> c, recv |-> s]]

nxp_x25519_shared_secret(me, peer) == {me, peer}

(* Initial keys come from the connection id in the client's first packet; the
   server swaps the two directions.                                           *)
InitialKeys(id, is_server) ==
  IF is_server
  THEN [available |-> TRUE, send |-> <<"server in", id>>, recv |-> <<"client in", id>>]
  ELSE [available |-> TRUE, send |-> <<"client in", id>>, recv |-> <<"server in", id>>]

nxp_handshake_create(me, is_server, tp) ==
  [state |-> "IDLE", me |-> me, is_server |-> is_server, local |-> tp,
   algo |-> "AES_256_GCM", initial |-> NoKeys, app |-> NoKeys,
   transcript |-> <<>>, shared |-> {}, send |-> <<>>, done |-> FALSE,
   peer |-> <<>>]

nxp_handshake_start_client(hs, id) ==
  LET hello == encode_client_hello(hs)
  IN  [hs EXCEPT !.initial = InitialKeys(id, FALSE), !.send = <<hello>>,
                 !.transcript = nxp_crypto_hash(<<hello>>), !.state = "WAIT_SERVER_HELLO"]

nxp_handshake_start_server(hs, id) ==
  [hs EXCEPT !.initial = InitialKeys(id, TRUE), !.state = "WAIT_CLIENT_HELLO"]

(* Receiving CRYPTO data.  A result is the record after the call and whether
   the call returned success; a failed call may have changed the record.      *)
Failed(hs) == [hs |-> hs, ok |-> FALSE]

WithPeer(hs, m) ==
  [hs EXCEPT !.peer = <<decode_transport_params(m.params)>>,
             !.transcript = @ \o nxp_crypto_hash(<<m>>),
             !.shared = nxp_x25519_shared_secret(hs.me, m.pub)]

process_client_hello(hs, m) ==
  LET usable == {i \in DOMAIN m.ciphers : m.ciphers[i] \in Supported}
      first  == CHOOSE i \in usable : \A j \in usable : i <= j
      h1     == WithPeer([hs EXCEPT !.algo = m.ciphers[first]], m)
      reply  == encode_server_hello(h1)
      h2     == [h1 EXCEPT !.send = <<reply>>, !.transcript = @ \o nxp_crypto_hash(<<reply>>)]
  IN  IF m.type # "CLIENT_HELLO" \/ usable = {} THEN Failed(hs)
      ELSE [ok |-> TRUE,
            hs |-> [derive_handshake_and_app_keys(h2) EXCEPT
                       !.done = TRUE, !.state = "COMPLETE"]]

\* Mutant: the client leaves the ServerHello out of its transcript.
hello_not_in_transcript(hs, m) ==
  LET h1 == [WithPeer([hs EXCEPT !.algo = m.ciphers[1]], m) EXCEPT !.transcript = hs.transcript]
  IN  IF m.type # "SERVER_HELLO" THEN Failed(hs)
      ELSE [ok |-> TRUE,
            hs |-> [derive_handshake_and_app_keys(h1) EXCEPT
                       !.state = "WAIT_HANDSHAKE_DONE"]]


process_server_hello(hs, m) ==
  LET h1 == WithPeer([hs EXCEPT !.algo = m.ciphers[1]], m)
  IN  IF m.type # "SERVER_HELLO" THEN Failed(hs)
      ELSE [ok |-> TRUE,
            hs |-> [derive_handshake_and_app_keys(h1) EXCEPT
                       !.state = "WAIT_HANDSHAKE_DONE"]]

nxp_handshake_recv_crypto(hs, m) ==
  CASE hs.state = "WAIT_CLIENT_HELLO" -> process_client_hello(hs, m)
    [] hs.state = "WAIT_SERVER_HELLO" -> process_server_hello(hs, m)
    [] OTHER -> Failed(hs)

\* Mutant: HANDSHAKE_DONE is accepted in any state.
done_at_any_time(hs) == [hs |-> [hs EXCEPT !.state = "COMPLETE"], ok |-> TRUE]


nxp_handshake_on_handshake_done(hs) ==
  IF hs.state # "WAIT_HANDSHAKE_DONE" THEN Failed(hs)
  ELSE [hs |-> [hs EXCEPT !.state = "COMPLETE"], ok |-> TRUE]

nxp_handshake_has_data(hs) ==
  hs.state # "NONE" /\ (hs.send # <<>> \/ hs.done)

=============================================================================
