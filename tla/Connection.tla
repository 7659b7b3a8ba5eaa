----------------------------- MODULE Connection -----------------------------
(* Life of one connection between a client and a server: core/connection.c with
   core/handshake.c (module Handshake) and core/heartbeat.c, over a network that
   loses, duplicates and reorders datagrams.  An event handler is a batch of
   received datagrams followed by a flush, or a timer or an API call with its
   flush.  The contents of streams and acknowledgements are the business of
   modules Transfer and AckRanges; here a connection only remembers whether
   stream data is unsent or unacknowledged and how many tracked packets fly.  *)
EXTENDS Handshake, FiniteSets, FiniteSetsExt

CONSTANTS
  Params,         \* transport parameters configured at each end
  Heartbeats,     \* ends whose application turns the heartbeat on
  Closers,        \* ends whose application may close the connection
  Writers,        \* ends whose application writes to a stream
  MissThreshold,  \* NXP_HEARTBEAT_MISS_THRESHOLD
  MaxPto,         \* probes that fit in one idle timeout
  MaxFly,         \* bound: tracked packets in flight
  MaxNet,         \* bound: 1-RTT datagrams in transit in one direction
  MaxEvents       \* bound: calls of the applications and duplicated datagrams

VARIABLES
  c,     \* c[e]: the nxp_conn of end e
  net,   \* datagrams in transit
  events \* calls and duplications so far

vars == <<c, net, events>>

Ends == {"client", "server"}
Peer(e) == IF e = "client" THEN "server" ELSE "client"

\* A limit of zero streams is taken for a limit that was not sent.
ASSUME ConnectionAssumption ==
  /\ Params \in [Ends -> [ParamIds -> Nat]]
  /\ \A e \in Ends : Params[e].bidi > 0
  /\ MaxFly \in Nat

NoHeartbeat == [enabled |-> FALSE, send |-> FALSE, echo |-> FALSE,
                awaiting |-> FALSE, misses |-> 0]

-----------------------------------------------------------------------------
(* Connection state.                                                          *)

\* Mutant: a handshaking connection may drain.
transition_from_any(from, to) == from # "CLOSED" \/ to = "CLOSED"


is_valid_conn_state_transition(from, to) ==
  \/ to = "CLOSED"
  \/ <<from, to>> \in {<<"IDLE", "HANDSHAKE_INITIAL">>, <<"IDLE", "ESTABLISHED">>,
                       <<"HANDSHAKE_INITIAL", "ESTABLISHED">>,
                       <<"HANDSHAKE_INITIAL", "HANDSHAKE_INITIAL">>,
                       <<"ESTABLISHED", "CLOSING">>, <<"ESTABLISHED", "DRAINING">>,
                       <<"ESTABLISHED", "ESTABLISHED">>, <<"CLOSING", "DRAINING">>}

set_conn_state(x, new) ==
  IF is_valid_conn_state_transition(x.state, new) THEN [x EXCEPT !.state = new] ELSE x

nxp_conn_create(e) ==
  [state |-> "IDLE", hs |-> NoHandshake, crypto |-> NoKeys,
   peer_data |-> Params[e].data, peer_bidi |-> Params[e].bidi,
   live |-> FALSE, busy |-> FALSE, close |-> FALSE, ping |-> FALSE, ack |-> FALSE,
   fly |-> 0, lossTimer |-> FALSE, pto |-> 0, data |-> FALSE, held |-> FALSE,
   hb |-> NoHeartbeat]

nxp_conn_start_handshake(e, x) ==
  LET hs == nxp_handshake_create(e, e = "server", Params[e])
  IN  [set_conn_state(x, "HANDSHAKE_INITIAL") EXCEPT
         !.hs = IF e = "server" THEN nxp_handshake_start_server(hs, "cid")
                                ELSE nxp_handshake_start_client(hs, "cid")]

\* nxp_flow_set_peer_max only raises the limit; a stream limit is overwritten.
nxp_flow_set_peer_max(old, new) == IF new > old THEN new ELSE old

apply_peer_params(x) ==
  LET tp == x.hs.peer[1]
  IN  IF x.hs.peer = <<>> THEN x
      ELSE [x EXCEPT !.peer_data = IF tp.data > 0 THEN nxp_flow_set_peer_max(@, tp.data) ELSE @,
                     !.peer_bidi = IF tp.bidi > 0 THEN tp.bidi ELSE @]

-----------------------------------------------------------------------------
(* Heartbeat.                                                                 *)

nxp_heartbeat_on_recv(hb) ==
  [hb EXCEPT !.echo = TRUE, !.misses = 0, !.awaiting = FALSE]

nxp_heartbeat_check(hb, fire) ==
  IF ~hb.enabled \/ ~fire THEN hb
  ELSE [hb EXCEPT !.misses = IF hb.awaiting THEN @ + 1 ELSE @,
                  !.send = TRUE, !.awaiting = TRUE]

nxp_heartbeat_is_dead(hb) == hb.enabled /\ hb.misses >= MissThreshold

-----------------------------------------------------------------------------
(* Receiving.  Where the result depends on data that is not modelled (which
   packets an ACK names) the operator returns the set of possible results.    *)

\* An ACK resets the probe count, removes packets, and may arm the loss timer or
\* declare stream data lost.
nxp_ack_on_ack_recv(x) ==
  LET Outcome == [fly : 0..x.fly, timer : BOOLEAN, lost : BOOLEAN, done : BOOLEAN]
      possible(o) == /\ o.timer => o.fly > 0
                     /\ o.lost \/ o.done => x.held /\ o.fly < x.fly
                     /\ ~(o.lost /\ o.done)
                     /\ x.held /\ ~o.done /\ o.fly = 0 => x.data \/ o.lost
  IN  {[x EXCEPT !.fly = o.fly, !.pto = 0, !.lossTimer = o.timer,
                 !.data = @ \/ o.lost, !.held = @ /\ ~o.done] :
         o \in {o \in Outcome : possible(o)}}

on_handshake_done(x) ==
  LET r == nxp_handshake_on_handshake_done(x.hs)
  IN  IF x.hs = NoHandshake \/ ~r.ok THEN x
      ELSE apply_peer_params(set_conn_state([x EXCEPT !.hs = r.hs], "ESTABLISHED"))

\* The frames of one packet, in the order nxp_conn_send writes them.
process_frames(x, frames) ==
  LET has(f)   == f \in frames
      acked    == IF has("ACK") THEN nxp_ack_on_ack_recv(x) ELSE {x}
      closed(y) == IF has("CLOSE") THEN set_conn_state(y, "DRAINING") ELSE y
      beat(y)  == IF has("HEARTBEAT")
                  THEN [y EXCEPT !.hb = nxp_heartbeat_on_recv(@)] ELSE y
      done(y)  == IF has("DONE") THEN on_handshake_done(y) ELSE y
  IN  {done(beat(closed(y))) : y \in acked}

\* Mutant: the application keys are installed only by HANDSHAKE_DONE.
install_keys_late(x, p) ==
  LET r == nxp_handshake_recv_crypto(x.hs, p.hello[1])
      y == [x EXCEPT !.hs = r.hs]
  IN  IF ~r.ok THEN x
      ELSE IF r.hs.state = "COMPLETE"
           THEN apply_peer_params(set_conn_state(y, "ESTABLISHED")) ELSE y

\* A long-header packet: Initial keys on both sides, one CRYPTO frame.
recv_handshake_packet(x, p) ==
  LET r == nxp_handshake_recv_crypto(x.hs, p.hello[1])
      y == [x EXCEPT !.hs = r.hs,
                     !.crypto = IF r.hs.app.available /\ ~x.crypto.available
                                THEN r.hs.app ELSE @]
  IN  IF x.hs = NoHandshake \/ p.key # x.hs.initial.recv THEN x
      ELSE IF ~r.ok THEN [x EXCEPT !.hs = r.hs]
      ELSE IF r.hs.state = "COMPLETE"
           THEN apply_peer_params(set_conn_state(y, "ESTABLISHED")) ELSE y

\* Without keys the bytes of an encrypted packet are parsed as if they were
\* frames, so any frames may appear.
Garbage == SUBSET {"ACK", "CLOSE", "DONE", "HEARTBEAT"}

nxp_conn_recv(x, p) ==
  LET y == [x EXCEPT !.live = TRUE]
      z == [y EXCEPT !.ack = TRUE]
  IN  CASE x.state \in {"CLOSED", "DRAINING"} -> {x}
        [] x.state \notin {"CLOSED", "DRAINING"} /\ p.hello # <<>> -> {recv_handshake_packet(y, p)}
        [] OTHER -> IF x.crypto.available
                    THEN IF p.key = x.crypto.recv THEN process_frames(z, p.frames) ELSE {z}
                    ELSE {y, z} \cup UNION {process_frames(z, g) : g \in Garbage}

-----------------------------------------------------------------------------
(* Sending.  A flush calls nxp_conn_send until it returns no datagram.        *)

Datagram(e, hello, key, frames) ==
  [to |-> Peer(e), hello |-> hello, key |-> key, frames |-> frames]

\* The hello in an Initial packet, then HANDSHAKE_DONE alone in a 1-RTT packet.
\* Neither is recorded for retransmission.
send_handshake_packet(e, x) ==
  IF ~nxp_handshake_has_data(x.hs) THEN {}
  ELSE (IF x.hs.send # <<>> THEN {Datagram(e, x.hs.send, x.hs.initial.send, {})} ELSE {})
       \cup (IF x.hs.done THEN {Datagram(e, <<>>, x.hs.app.send, {"DONE"})} ELSE {})

after_handshake_packets(x) ==
  IF ~nxp_handshake_has_data(x.hs) THEN x
  ELSE [x EXCEPT !.live = TRUE, !.hs.send = <<>>, !.hs.done = FALSE]

\* Mutant: a draining connection still answers.
send_unless_closed(x) == x.state \notin {"IDLE", "HANDSHAKE_INITIAL", "CLOSED"}


CanSend(x) == x.state \in {"ESTABLISHED", "CLOSING"}

\* d: whether pacer, congestion window and scheduler let stream data out.
frames_to_send(x, d) ==
  IF ~CanSend(x) THEN {}
  ELSE {f \in {"ACK", "CLOSE", "PING", "HEARTBEAT", "STREAM"} :
          CASE f = "ACK" -> x.ack [] f = "CLOSE" -> x.close [] f = "PING" -> x.ping
            [] f = "HEARTBEAT" -> x.hb.send \/ x.hb.echo
            [] f = "STREAM" -> x.data /\ d}

after_send(x, d) ==
  LET F == frames_to_send(x, d)
      y == IF "CLOSE" \in F THEN set_conn_state(x, "CLOSING") ELSE x
  IN  IF ~CanSend(x) THEN x
      ELSE [y EXCEPT !.live = TRUE, !.ack = FALSE, !.close = FALSE, !.ping = FALSE,
                     !.hb.send = FALSE, !.hb.echo = FALSE,
                     !.data = @ /\ ~d, !.held = @ \/ ("STREAM" \in F),
                     !.fly = IF F \subseteq {"ACK"} THEN @ ELSE Min({MaxFly, @ + 1})]

Packets(e, x, d) ==
  LET y == after_handshake_packets(x)
      F == frames_to_send(y, d)
  IN  send_handshake_packet(e, x)
      \cup (IF F = {} THEN {} ELSE {Datagram(e, <<>>, y.crypto.send, F)})

\* The network keeps any part of what is sent that fits the bound.
Short(P, e) == {p \in P : p.to = e /\ p.hello = <<>>}

flush(e, x) ==
  \E d \in BOOLEAN :
    /\ d => x.data
    /\ \E kept \in SUBSET Packets(e, x, d) :
         /\ net' = net \cup kept
         /\ Cardinality(Short(net', Peer(e))) <= MaxNet
    /\ c' = [c EXCEPT ![e] = [after_send(after_handshake_packets(x), d) EXCEPT !.busy = FALSE]]

-----------------------------------------------------------------------------
Init ==
  /\ c = [e \in Ends |-> nxp_conn_create(e)]
  /\ net = {}
  /\ events = 0

\* The client's nxp_connect: start the handshake and flush the ClientHello.
Connect ==
  /\ c["client"].state = "IDLE"
  /\ flush("client", nxp_conn_start_handshake("client", c["client"]))
  /\ UNCHANGED events

\* A datagram arrives; one that is refused leaves nothing to flush.  The listener
\* creates the server's connection for the first Initial packet.
Arrive(e, p, keep) ==
  LET x == IF e = "server" /\ c[e].state = "IDLE" /\ p.hello # <<>>
           THEN nxp_conn_start_handshake(e, c[e]) ELSE c[e]
  IN  /\ p \in net /\ p.to = e
      /\ net' = IF keep THEN net ELSE net \ {p}
      /\ IF e = "server" /\ x.state = "IDLE" THEN c' = c
         ELSE \E y \in nxp_conn_recv(x, p) :
              c' = [c EXCEPT ![e] = [y EXCEPT !.busy = @ \/ x.state \notin {"DRAINING", "CLOSED"}]]

\* A spontaneous event, of which a behaviour has at most MaxEvents.
Event == events < MaxEvents /\ events' = events + 1

Recv(e) == \E p \in net : Arrive(e, p, FALSE) /\ UNCHANGED events

RecvDuplicate(e) ==
  /\ \E p \in net : Arrive(e, p, TRUE)
  /\ Event

\* End of the receive handler.
Flush(e) == c[e].busy /\ flush(e, c[e]) /\ UNCHANGED events

\* Timers do not fire while a handler runs.
Ready(e) == ~c[e].busy /\ c[e].state \notin {"IDLE", "CLOSED"}

\* Mutants: any connection waits for its other timers; probing never backs off.
wait_for_handshake(x) == x.state = "HANDSHAKE_INITIAL" \/ (x.fly > 0 /\ x.pto < MaxPto)
probe_for_ever(x) == CanSend(x) /\ x.fly > 0

\* A flush refreshes the activity time of an established or closing connection,
\* so its idle timer only fires when no other timer comes first.
OtherTimerFirst(x) ==
  /\ CanSend(x)
  /\ x.hb.enabled \/ x.lossTimer \/ (x.fly > 0 /\ x.pto < MaxPto)

IdleTimeout(e) ==
  /\ Ready(e) /\ c[e].live /\ ~OtherTimerFirst(c[e])
  /\ c' = [c EXCEPT ![e] = set_conn_state(@, "CLOSED")]
  /\ UNCHANGED <<net, events>>

\* The loss timer declares the oldest packets lost; without it the probe timer
\* counts a probe.
nxp_ack_on_loss_timeout(x) ==
  IF x.lossTimer
  THEN {[x EXCEPT !.fly = o.fly, !.lossTimer = o.fly > 0, !.data = @ \/ o.lost] :
          o \in {o \in [fly : 0..(x.fly - 1), lost : BOOLEAN] :
                  /\ o.lost => x.held
                  /\ x.held /\ o.fly = 0 => x.data \/ o.lost}}
  ELSE IF x.pto < MaxPto THEN {[x EXCEPT !.pto = @ + 1]} ELSE {}

LossTimerDue(x) == x.fly > 0

nxp_conn_on_timeout(x, loss, fire) ==
  LET probe(y) == IF loss /\ y.pto > 0 THEN [y EXCEPT !.ping = TRUE] ELSE y
      lost     == IF loss THEN nxp_ack_on_loss_timeout(x) ELSE {x}
      beat(y)  == [y EXCEPT !.hb = nxp_heartbeat_check(@, fire)]
      dead(y)  == IF nxp_heartbeat_is_dead(y.hb) THEN set_conn_state(y, "CLOSED") ELSE y
  IN  {dead(beat(probe(y))) : y \in lost}

OnTimeout(e, loss, fire) ==
  /\ Ready(e)
  /\ loss => LossTimerDue(c[e])
  /\ fire => c[e].hb.enabled
  /\ loss \/ fire
  /\ \E y \in nxp_conn_on_timeout(c[e], loss, fire) : flush(e, y)
  /\ UNCHANGED events

Timer(e) == \E loss, fire \in BOOLEAN : OnTimeout(e, loss, fire)

\* The pacing timer or an acknowledged window lets held-back stream data out.
Pace(e) == Ready(e) /\ c[e].data /\ flush(e, c[e]) /\ UNCHANGED events

nxp_conn_initiate_close(e) ==
  /\ e \in Closers
  /\ ~c[e].busy
  /\ c[e].state \in {"HANDSHAKE_INITIAL", "ESTABLISHED"}   \* bound: it closes once
  /\ ~c[e].close
  /\ flush(e, [c[e] EXCEPT !.close = TRUE])
  /\ Event

nxp_conn_stream_send(e) ==
  /\ e \in Writers
  /\ ~c[e].busy
  /\ c[e].state = "ESTABLISHED"
  /\ flush(e, [c[e] EXCEPT !.data = TRUE])
  /\ Event

nxp_conn_set_heartbeat(e) ==
  /\ e \in Heartbeats
  /\ Ready(e)
  /\ ~c[e].hb.enabled
  /\ c' = [c EXCEPT ![e].hb = [NoHeartbeat EXCEPT !.enabled = TRUE]]
  /\ UNCHANGED net
  /\ Event

Next ==
  \/ Connect
  \/ \E e \in Ends :
       \/ Recv(e)
       \/ RecvDuplicate(e)
       \/ Flush(e)
       \/ IdleTimeout(e)
       \/ Timer(e)
       \/ Pace(e)
       \/ nxp_conn_initiate_close(e)
       \/ nxp_conn_stream_send(e)
       \/ nxp_conn_set_heartbeat(e)

Spec == Init /\ [][Next]_vars

(* The event loop runs the handler of a readable socket to its end and fires the
   one timer of a connection, for whatever nxp_conn_timeout asked; the network
   delivers datagrams it has not lost.  No fairness is assumed of the
   applications, of loss or of duplication, between the causes of a timer, or
   between the two ends where it is not needed.                               *)
FairSpec ==
  /\ Spec
  /\ WF_vars(\E e \in Ends : Flush(e))
  /\ WF_vars(\E e \in Ends : IdleTimeout(e))
  /\ WF_vars(\E e \in Ends : Recv(e))
  /\ \A e \in Ends : WF_vars(Timer(e))

-----------------------------------------------------------------------------
PastHandshake == {"ESTABLISHED", "CLOSING", "DRAINING"}

\* When both ends hold application keys, each decrypts with the key the other
\* encrypts with, whatever hellos were duplicated or reordered
\* (process_client_hello, process_server_hello, recv_handshake_packet).
KeysAgree ==
  \A e \in Ends :
    c[e].crypto.available /\ c[Peer(e)].crypto.available =>
      c[e].crypto.send = c[Peer(e)].crypto.recv

\* An end past its handshake has completed it, a client is never ahead of its server, and the stream limit in
\* force is the one the peer configured (process_frames, recv_handshake_packet).
EstablishedIsAgreed ==
  \A e \in Ends : c[e].state \in PastHandshake =>
    /\ c[e].hs.state = "COMPLETE"
    /\ e = "client" => c["server"].hs.state = "COMPLETE"
    /\ c[e].peer_bidi = Params[Peer(e)].bidi

\* No 1-RTT packet leaves in the plaintext mode nxp_conn_send falls back to
\* without keys: every short-header datagram carries an application key.
NothingInPlaintext ==
  \A p \in net : p.hello = <<>> => p.key # <<>>

\* An end drains only because its peer closed: bytes misread before the keys
\* arrive, duplicates and reordering never drain a connection.
DrainsOnlyOnClose ==
  \A e \in Ends : c[e].state = "DRAINING" =>
    c[Peer(e)].state \in {"CLOSING", "DRAINING", "CLOSED"}

\* A draining or closed end sends nothing: no timer, late datagram or call makes
\* nxp_conn_send produce a datagram, and the state never goes back.
SilentOnceDone ==
  [][\A e \in Ends : c[e].state \in {"DRAINING", "CLOSED"} =>
       /\ {p \in net' : p.to = Peer(e)} \subseteq net
       /\ c'[e].state \in {c[e].state, "CLOSED"}]_vars

\* A client that started a handshake is eventually established or closed, even
\* though hellos and HANDSHAKE_DONE are never sent again (idle timeout).
HandshakeResolves ==
  c["client"].state = "HANDSHAKE_INITIAL" ~>
    c["client"].state \in PastHandshake \cup {"CLOSED"}

\* An end whose peer is gone is eventually closed: a draining end; a closing end
\* whose peer is draining or closed and that has no stream data left to
\* retransmit; an end that sends heartbeats to a closed peer, although each of
\* them puts off its idle timeout.
CloseResolves ==
  \A e \in Ends :
    (\/ c[e].state = "DRAINING"
     \/ /\ c[e].state = "CLOSING" /\ ~c[e].data /\ ~c[e].held
        /\ c[Peer(e)].state \in {"DRAINING", "CLOSED"}
     \/ /\ c[e].state = "ESTABLISHED" /\ c[e].hb.enabled
        /\ c[Peer(e)].state = "CLOSED") ~> c[e].state = "CLOSED"
=============================================================================
