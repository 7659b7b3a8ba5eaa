------------------------------ MODULE Endpoint ------------------------------
(* One process using the library: the handles and callbacks of api/nxp_api.c over
   the listener of core/listener.c, driven by one event loop.  A connection is
   reduced to its state (module Connection) and the number of datagrams it has
   to send.  A handler is a sequence of steps: datagrams are read, the output is
   flushed, the callbacks are dispatched; no other handler runs in between.
   Touching freed memory is undefined: the model then stops (phase "fault"). *)
EXTENDS Naturals, Sequences, FiniteSets, SequencesExt, FiniteSetsExt

CONSTANTS
  Conns,      \* connections that can be allocated
  MaxConns,   \* max_connections of the listener
  MaxPps,     \* NXP_RATE_LIMIT_MAX_PPS
  MaxPending, \* bound: datagrams a connection has to send
  Streaming,  \* connections that carry a stream
  Closable    \* connections the application closes

VARIABLES
  up,       \* g_nxp.initialized
  open,     \* a listener exists
  links,    \* g_nxp.conns: the wrappers, newest first
  wrap,     \* wrap[c]: the wrapper of c
  core,     \* core[c]: the connection itself
  arr,      \* the listener's array of connections
  map,      \* the connections its map of ids leads to
  next,     \* send_index
  bucket,   \* datagrams counted in the current rate window
  phase,    \* the handler that is running, or "fault"
  turn,     \* history: connections served since each one was served last
  risk      \* history: calls and timeouts that leave a dangling pointer

vars == <<up, open, links, wrap, core, arr, map, next, bucket, phase, turn, risk>>
lists == <<arr, map, next, bucket>>

NoConn == [state |-> "none", pending |-> 0, close |-> FALSE]
GoneConn == [NoConn EXCEPT !.state = "FREED"]
NewConn == [NoConn EXCEPT !.state = "HANDSHAKE"]
NoWrap == [accepted |-> FALSE, prev |-> "none", connected |-> 0, closed |-> 0,
           stream |-> "none", fresh |-> FALSE]

Gone == {"CLOSED", "DRAINING"}

-----------------------------------------------------------------------------
(* The connection, as seen from here.                                         *)

\* What a received datagram does: a state and the datagrams it makes us owe.
AfterRecv(x) ==
  LET to(t, n) == [x EXCEPT !.state = t, !.pending = IF t \in Gone THEN 0 ELSE Min({MaxPending, @ + n})]
  IN  CASE x.state = "HANDSHAKE"   -> {to(t, n) : t \in {"HANDSHAKE", "ESTABLISHED"}, n \in 0..2}
        [] x.state = "ESTABLISHED" -> {to(t, n) : t \in {"ESTABLISHED", "DRAINING"}, n \in 0..1}
        [] x.state = "CLOSING"     -> {to(t, n) : t \in {"CLOSING", "DRAINING"}, n \in 0..1}
        [] OTHER                   -> {x}

\* nxp_conn_send: the first datagram of an established connection carries the
\* CONNECTION_CLOSE that was asked for.
Sent(x) == IF x.close /\ x.state = "ESTABLISHED"
           THEN [x EXCEPT !.state = "CLOSING", !.close = FALSE] ELSE x

Owes(x) == x.pending > 0 \/ (x.close /\ x.state = "ESTABLISHED")

nxp_api_flush_conn(x) == [Sent(x) EXCEPT !.pending = 0]

AfterTimeout(x) ==
  {[x EXCEPT !.state = "CLOSED", !.pending = 0], x}
    \cup IF x.state \in Gone THEN {} ELSE {[x EXCEPT !.pending = Min({MaxPending, @ + 1})]}

\* nxp_conn_initiate_close.
Closing(x) == IF x.state \in Gone THEN x ELSE [x EXCEPT !.close = TRUE]

Freed(c) == core[c].state = "FREED"

\* The end of a call or handler, unless it used freed memory.
Unless(bad) == IF bad THEN "fault" ELSE "idle"

-----------------------------------------------------------------------------
(* Wrappers.                                                                  *)

Fresh == CHOOSE c \in Conns \cup {"no"} :
           IF \E d \in Conns : core[d] = NoConn /\ d \notin Range(links)
           THEN c \in Conns /\ core[c] = NoConn /\ c \notin Range(links) ELSE c = "no"

Accepted == {c \in Range(links) : wrap[c].accepted}

api_conn_unlink(seq, c) == SelectSeq(seq, LAMBDA d : d # c)

\* Mutant: on_closed is called for CLOSED only.
closed_only(w, cur) ==
  [w EXCEPT
    !.connected = IF w.prev # "ESTABLISHED" /\ cur = "ESTABLISHED" THEN @ + 1 ELSE @,
    !.closed = IF cur = "CLOSED" /\ w.prev # "CLOSED" THEN @ + 1 ELSE @,
    !.prev = cur]

\* The transitions that call on_connected and on_closed.
notify(w, cur) ==
  [w EXCEPT
    !.connected = IF w.prev # "ESTABLISHED" /\ cur = "ESTABLISHED" THEN @ + 1 ELSE @,
    !.closed = IF cur \in Gone /\ w.prev \notin Gone THEN @ + 1 ELSE @,
    !.prev = cur]

on_new_remote_stream(w) == [w EXCEPT !.stream = "live", !.fresh = TRUE]

\* What a datagram does to the streams: nothing, new data, a new remote stream.
Arrivals(c) ==
  LET w == wrap[c]
  IN  {w} \cup IF c \notin Streaming THEN {}
               ELSE IF w.stream = "none" THEN {on_new_remote_stream(w)}
               ELSE {[w EXCEPT !.fresh = TRUE]}

\* on_data of every listed stream with new data; a freed wrapper is still listed.
dispatch_stream_data(w) == [w EXCEPT !.fresh = FALSE]

UsesFreedStream(c) == wrap[c].stream = "freed"

-----------------------------------------------------------------------------
Init ==
  /\ up = FALSE /\ open = FALSE /\ links = <<>>
  /\ wrap = [c \in Conns |-> NoWrap] /\ core = [c \in Conns |-> NoConn]
  /\ arr = <<>> /\ map = {} /\ next = 0 /\ bucket = 0
  /\ phase = "idle" /\ turn = [c \in Conns |-> {}] /\ risk = {}

nxp_init ==
  /\ ~up /\ phase = "idle"
  /\ up' = TRUE
  /\ UNCHANGED <<open, links, wrap, core, lists, phase, turn, risk>>

\* Every linked connection is destroyed, then the listener destroys its own.
nxp_shutdown ==
  /\ up /\ phase = "idle"
  /\ up' = FALSE /\ open' = FALSE /\ links' = <<>>
  /\ phase' = Unless((\E c \in Range(links) : Freed(c)) \/ Range(links) \cap Range(arr) # {})
  /\ risk' = IF Accepted = {} THEN risk ELSE risk \cup {"shutdown before listener_close"}
  /\ core' = [c \in Conns |-> IF core[c] = NoConn THEN NoConn ELSE GoneConn]
  /\ arr' = <<>> /\ map' = {} /\ next' = 0 /\ bucket' = 0
  /\ wrap' = [c \in Conns |-> NoWrap]
  /\ UNCHANGED turn

nxp_connect(c) ==
  /\ up /\ phase = "idle" /\ c = Fresh
  /\ core' = [core EXCEPT ![c] = NewConn]
  /\ wrap' = [wrap EXCEPT ![c] = [NoWrap EXCEPT !.prev = "HANDSHAKE"]]
  /\ links' = <<c>> \o links
  /\ UNCHANGED <<up, open, lists, phase, turn, risk>>

nxp_listen ==
  /\ up /\ ~open /\ phase = "idle"
  /\ open' = TRUE
  /\ UNCHANGED <<up, links, wrap, core, lists, phase, turn, risk>>

\* Mutant: the wrappers of accepted connections stay linked.
close_keeps_wrappers ==
  /\ open /\ phase = "idle"
  /\ open' = FALSE
  /\ core' = [c \in Conns |-> IF c \in Range(arr) THEN GoneConn ELSE core[c]]
  /\ arr' = <<>> /\ map' = {} /\ next' = 0 /\ bucket' = 0
  /\ UNCHANGED <<up, links, wrap, phase, turn, risk>>

\* The wrappers of accepted connections go first, then the connections.
nxp_listener_close ==
  /\ open /\ phase = "idle"
  /\ open' = FALSE
  /\ links' = SelectSeq(links, LAMBDA c : ~wrap[c].accepted)
  /\ core' = [c \in Conns |-> IF c \in Range(arr) THEN GoneConn ELSE core[c]]
  /\ wrap' = [c \in Conns |-> IF c \in Accepted THEN NoWrap ELSE wrap[c]]
  /\ arr' = <<>> /\ map' = {} /\ next' = 0 /\ bucket' = 0
  /\ UNCHANGED <<up, phase, turn, risk>>

\* An API call on connection c: an effect on it, then a flush.
Call(c, x, w) ==
  /\ phase = "idle" /\ c \in Range(links)
  /\ phase' = Unless(Freed(c))
  /\ core' = [core EXCEPT ![c] = IF Freed(c) THEN @ ELSE nxp_api_flush_conn(x)]
  /\ wrap' = [wrap EXCEPT ![c] = w]
  /\ UNCHANGED <<up, open, links, lists, turn>>

nxp_conn_close(c) ==
  /\ c \in Closable
  /\ Call(c, Closing(core[c]), wrap[c])
  /\ UNCHANGED risk

nxp_stream_open(c) ==
  /\ c \in Streaming /\ wrap[c].stream = "none"
  /\ Call(c, core[c], [wrap[c] EXCEPT !.stream = "live"])
  /\ UNCHANGED risk

\* nxp_stream_send and nxp_stream_shutdown.
nxp_stream_send(c) ==
  /\ wrap[c].stream = "live"
  /\ Call(c, core[c], wrap[c])
  /\ UNCHANGED risk

\* The wrapper is freed and stays in the list of its connection.
nxp_stream_close(c) ==
  /\ wrap[c].stream = "live"
  /\ Call(c, core[c], [wrap[c] EXCEPT !.stream = "freed"])
  /\ risk' = risk \cup {"stream_close"}

-----------------------------------------------------------------------------
(* Client connections: on_conn_event and on_conn_timer.                       *)

\* One datagram read by on_conn_event.
ConnRecv(c) ==
  /\ phase \in {"idle", c} /\ c \in Range(links) /\ ~wrap[c].accepted
  /\ \E x \in AfterRecv(core[c]), w \in Arrivals(c) :
       /\ x.state = "ESTABLISHED" \/ w = wrap[c]
       /\ core' = [core EXCEPT ![c] = x]
       /\ wrap' = [wrap EXCEPT ![c] = notify(w, x.state)]
  /\ phase' = c
  /\ UNCHANGED <<up, open, links, lists, turn, risk>>

FinishConn(c, x) ==
  /\ core' = [core EXCEPT ![c] = nxp_api_flush_conn(x)]
  /\ wrap' = [wrap EXCEPT ![c] = dispatch_stream_data(@)]
  /\ phase' = Unless(UsesFreedStream(c))
  /\ UNCHANGED <<up, open, links, lists, turn, risk>>

ConnEventEnd(c) == phase = c /\ FinishConn(c, core[c])

\* No callback is called for what the timer does.
on_conn_timer(c) ==
  /\ phase = "idle" /\ c \in Range(links) /\ ~wrap[c].accepted /\ core[c].state # "CLOSED"
  /\ \E x \in AfterTimeout(core[c]) : FinishConn(c, x)

-----------------------------------------------------------------------------
(* The listener.                                                              *)

\* A window that has expired starts again from zero; a refused datagram is not counted.
nxp_rate_limiter_check(expired) ==
  LET n == IF expired THEN 0 ELSE bucket
  IN  [pass |-> n < MaxPps, count |-> IF n < MaxPps THEN n + 1 ELSE n]

\* A connection for an Initial packet whose id is unknown.
listener_accept(c) ==
  IF Len(arr) >= MaxConns \/ c = "no"
  THEN UNCHANGED <<arr, map, core, wrap, links, turn>>
  ELSE \E x \in AfterRecv(NewConn) :
         /\ core' = [core EXCEPT ![c] = x]
         /\ arr' = Append(arr, c) /\ map' = map \cup {c}
         /\ wrap' = [wrap EXCEPT ![c] = [NoWrap EXCEPT !.accepted = TRUE, !.prev = x.state]]
         /\ links' = <<c>> \o links
         /\ turn' = [turn EXCEPT ![c] = {}]

\* A datagram for connection c of the map.
Forward(c) ==
  /\ \E x \in AfterRecv(core[c]), w \in Arrivals(c) :
       /\ x.state = "ESTABLISHED" \/ w = wrap[c]
       /\ core' = [core EXCEPT ![c] = x] /\ wrap' = [wrap EXCEPT ![c] = w]
  /\ UNCHANGED <<arr, map, links, turn>>

\* to: the connection the datagram's id names, "initial" for a new one, "other"
\* for a packet that is refused.
nxp_listener_recv(to, expired) ==
  LET r == nxp_rate_limiter_check(expired)
  IN  /\ bucket' = r.count
      /\ IF r.pass /\ to = "initial" THEN listener_accept(Fresh)
         ELSE IF r.pass /\ to \in map THEN Forward(to)
         ELSE UNCHANGED <<arr, map, core, wrap, links, turn>>

ListenerRecv ==
  /\ open /\ phase \in {"idle", "read"}
  /\ \E to \in Conns \cup {"initial", "other"}, expired \in BOOLEAN : nxp_listener_recv(to, expired)
  /\ phase' = "read"
  /\ UNCHANGED <<up, open, next, risk>>

\* Mutant: the connection that was swapped in is skipped.
RECURSIVE skip_swapped(_, _, _)
skip_swapped(a, i, dead) ==
  IF i > Len(a) THEN a
  ELSE skip_swapped(IF a[i] \in dead THEN Front([a EXCEPT ![i] = Last(a)]) ELSE a, i + 1, dead)

\* Connections that time out are removed by swapping in the last one.
RECURSIVE Sweep(_, _, _)
Sweep(a, i, dead) ==
  IF i > Len(a) THEN a
  ELSE IF a[i] \in dead THEN Sweep(Front([a EXCEPT ![i] = Last(a)]), i, dead)
  ELSE Sweep(a, i + 1, dead)

nxp_listener_on_timeout ==
  /\ open /\ phase = "idle" /\ arr # <<>>
  /\ \E dead \in SUBSET Range(arr) :
       LET d == dead \cup {c \in Range(arr) : core[c].state = "CLOSED"}
       IN  /\ arr' = Sweep(arr, 1, d)
           /\ map' = map \ d
           /\ core' = [c \in Conns |-> IF c \in d THEN GoneConn ELSE core[c]]
           /\ risk' = IF d = {} THEN risk ELSE risk \cup {"accepted connection timed out"}
           /\ turn' = [c \in Conns |-> turn[c] \ d]
  /\ phase' = "flush"
  /\ UNCHANGED <<up, open, links, wrap, next, bucket>>

\* send_index only matters modulo the lengths the array can have.
Cycle == ProductSet(1..MaxConns)

\* Mutant: every search starts at the first connection.
Slot_from_first(k) == arr[k + 1]

\* The k-th connection from send_index on.
Slot(k) == arr[((next + k) % Len(arr)) + 1]

\* One nxp_listener_send: the first connection in turn with a datagram.
nxp_listener_send ==
  LET ready == {k \in 0..(Len(arr) - 1) : Owes(core[Slot(k)])}
      c     == Slot(Min(ready))
  IN  /\ phase \in {"read", "flush"} /\ arr # <<>> /\ ready # {}
      /\ core' = [core EXCEPT ![c] = [Sent(@) EXCEPT !.pending = Max({0, @ - 1})]]
      /\ next' = (next + Min(ready) + 1) % Cycle
      /\ turn' = [d \in Conns |-> IF d # c /\ d \in Range(arr) /\ Owes(core[d])
                                  THEN turn[d] \cup {c} ELSE {}]
      /\ phase' = "flush"
      /\ UNCHANGED <<up, open, links, wrap, arr, map, bucket, risk>>

\* Nothing is left to send: callbacks for every wrapper of the listener.
dispatch_listener_conn_events ==
  /\ phase \in {"read", "flush"}
  /\ \A c \in Range(arr) : ~Owes(core[c])
  /\ phase' = Unless(\E c \in Accepted : Freed(c) \/ UsesFreedStream(c))
  /\ wrap' = [c \in Conns |-> IF c \in Accepted
                              THEN dispatch_stream_data(notify(wrap[c], core[c].state)) ELSE wrap[c]]
  /\ turn' = [c \in Conns |-> {}]
  /\ UNCHANGED <<up, open, links, core, lists, risk>>

Next ==
  \/ nxp_init \/ nxp_shutdown \/ nxp_listen \/ nxp_listener_close
  \/ \E c \in Conns :
       \/ nxp_connect(c) \/ nxp_conn_close(c)
       \/ nxp_stream_open(c) \/ nxp_stream_send(c) \/ nxp_stream_close(c)
       \/ ConnRecv(c) \/ ConnEventEnd(c) \/ on_conn_timer(c)
  \/ ListenerRecv \/ nxp_listener_on_timeout
  \/ nxp_listener_send \/ dispatch_listener_conn_events

Spec == Init /\ [][Next]_vars

-----------------------------------------------------------------------------
\* The listener's array and its map hold the same connections, each once, within
\* max_connections, all of them alive and known to the API: removal by swapping
\* (nxp_listener_on_timeout) skips and duplicates none.
RoutedIsHeld ==
  /\ Range(arr) = map /\ IsInjective(arr) /\ Len(arr) <= MaxConns
  /\ \A c \in map : ~Freed(c) /\ c \in Accepted

\* on_connected and on_closed are called at most once for a connection.
CallbacksOnce == \A c \in Conns : wrap[c].connected <= 1 /\ wrap[c].closed <= 1

\* When no handler runs, a connection its peer has closed was reported to the
\* application (on_conn_event, dispatch_listener_conn_events).
PeerCloseIsReported ==
  phase = "idle" =>
    \A c \in Range(links) : core[c].state = "DRAINING" => wrap[c].closed = 1

\* When no handler runs, on_data was called for all data that arrived on a
\* stream the application holds (dispatch_stream_data).
DataIsReported ==
  phase = "idle" => \A c \in Range(links) : wrap[c].stream = "live" => ~wrap[c].fresh

\* The application hears of what happened to its connections, and of no end
\* twice, however many datagrams a handler reads before it compares states.
EventsAreReported == CallbacksOnce /\ PeerCloseIsReported /\ DataIsReported

\* While connection d waits to send, nxp_listener_send serves no other
\* connection twice.
NoOvertaking ==
  [][\A c, d \in Conns :
       /\ phase' = "flush" /\ phase # "idle"
       /\ core'[c] # core[c] /\ d # c /\ d \in Range(arr) /\ Owes(core[d])
       => c \notin turn[d]]_vars

\* Freed memory is touched only after one of three events: a stream handle was
\* closed, an accepted connection timed out, or nxp_shutdown was called while a
\* listener held connections.  Everything else leaves the lists consistent.
FaultNeedsCause == phase = "fault" => risk # {}

\* "Close and destroy a stream" (nxp_stream.h): closing a stream does not by
\* itself make a later handler touch freed memory (dispatch_stream_data).
ClosedStreamIsNotWalked == phase = "fault" => risk # {"stream_close"}
=============================================================================
