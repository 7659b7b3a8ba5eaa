------------------------------ MODULE EventLoop ------------------------------
(* The event loop (platform/event_loop.c) on its epoll back end
   (platform/linux/epoll_event_loop.c), with the connections and listeners of
   api/nxp_api.c that own a socket and one timer each, and a second thread that
   stops the loop.  Time is relative: a timer holds what is left until its
   deadline, and handlers take no time.                                       *)
EXTENDS Naturals, Integers, FiniteSets, FiniteSetsExt, Functions

CONSTANTS
  Users,       \* connections and listeners
  Timers,      \* bound: addresses malloc has for timers
  Delays,      \* what nxp_conn_timeout and nxp_listener_timeout ask for
  Ms,          \* microseconds in a millisecond
  InitialCap,  \* INITIAL_SOURCE_CAP
  MaxBatch,    \* EPOLL_MAX_EVENTS
  None

VARIABLES
  timers,    \* the heap: left (until the deadline), user, cancelled
  handle,    \* ac->timer, ln->timer
  fd,        \* descriptor of a user's socket, None when it is closed
  sources,   \* eloop->sources: by descriptor, the user of an active entry
  readable,  \* users whose socket has input
  eventfd,   \* wakeup_fd can be read
  running,
  at,        \* where the thread of the loop is
  last,      \* this iteration is the last: nxp_poll, or epoll_wait failed
  wake,      \* what is left of the timeout of epoll_wait, None to block
  batch,     \* descriptors epoll_wait returned and not looked at yet
  stopping   \* the other thread is inside nxp_event_loop_stop

loop_vars == <<timers, handle, fd, sources, readable, eventfd, running, at, last,
               wake, batch, stopping>>

Wakeup == 0   \* wakeup_fd, the first descriptor of the process
Armed == {t \in DOMAIN timers : ~timers[t].cancelled}
Live == {u \in Users : fd[u] # None}
Left(T) == {timers[t].left : t \in T}

LoopInit ==
  /\ timers = [t \in {} |-> 0]
  /\ handle = [u \in Users |-> None]
  /\ fd = [u \in Users |-> None]
  /\ sources = [f \in 0..(InitialCap - 1) |-> None]
  /\ readable = {}
  /\ eventfd = FALSE
  /\ running = FALSE
  /\ at = "out"
  /\ last = FALSE
  /\ wake = None
  /\ batch = {}
  /\ stopping = FALSE

-----------------------------------------------------------------------------
(* Timers and sockets: what handlers do to the state s of heap and table.     *)

State == [timers |-> timers, handle |-> handle, fd |-> fd, sources |-> sources,
          running |-> running, eventfd |-> eventfd]

nxp_event_loop_cancel_timer(s, u) ==
  IF s.handle[u] = None THEN s
  ELSE [s EXCEPT !.timers[s.handle[u]].cancelled = TRUE, !.handle[u] = None]

\* kept is the timer whose callback runs: it is freed after it.
nxp_event_loop_add_timer(s, u, delay, kept) ==
  LET free == Timers \ (DOMAIN s.timers \cup kept)
      t    == CHOOSE t \in free : TRUE
      new  == [left |-> delay, user |-> u, cancelled |-> FALSE]
  IN  IF delay = None \/ free = {} THEN s
      ELSE [s EXCEPT !.timers = [x \in DOMAIN @ \cup {t} |-> IF x = t THEN new ELSE s.timers[x]],
                     !.handle[u] = t]

nxp_api_rearm_timer(s, u, delay, kept) ==
  nxp_event_loop_add_timer(nxp_event_loop_cancel_timer(s, u), u, delay, kept)

\* The table doubles until it holds the descriptor.
ensure_source_capacity(table, f) ==
  LET cap[n \in Nat] == IF n > f THEN n ELSE cap[2 * n]
  IN  [g \in 0..(cap[Cardinality(DOMAIN table)] - 1) |->
         IF g \in DOMAIN table THEN table[g] ELSE None]

\* A new socket gets the lowest descriptor that is free.
epoll_add_socket(s, u) ==
  LET f == Min(1..Cardinality(Users) \ {s.fd[v] : v \in Users})
  IN  [s EXCEPT !.fd[u] = f, !.sources = [ensure_source_capacity(@, f) EXCEPT ![f] = u]]

epoll_del_socket(s, u) == [s EXCEPT !.sources[s.fd[u]] = None, !.fd[u] = None]

\* nxp_connect, nxp_listen; nxp_listener_close, the loops of nxp_shutdown.
Open(s, u, delay) == nxp_api_rearm_timer(epoll_add_socket(s, u), u, delay, {})
\* Mutant: the timer is left to fire.
close_keeps_timer(s, u) == epoll_del_socket(s, u)
Close(s, u) == epoll_del_socket(nxp_event_loop_cancel_timer(s, u), u)

nxp_event_loop_stop(s) == [s EXCEPT !.running = FALSE, !.eventfd = TRUE]

\* What the application does to other users from a callback of u.
Callbacks(s, u) ==
  {s, nxp_event_loop_stop(s)}
  \cup {Close(s, v) : v \in {v \in Users \ {u} : s.fd[v] # None}}
  \cup {Open(s, v, d) : v \in {v \in Users \ {u} : s.fd[v] = None}, d \in Delays}

\* A handler of u ends by arming its timer again.
Handler(s, u, kept) ==
  {nxp_api_rearm_timer(x, u, d, kept) : x \in Callbacks(s, u), d \in Delays}

Become(s) ==
  /\ timers' = s.timers /\ handle' = s.handle /\ fd' = s.fd /\ sources' = s.sources
  /\ running' = s.running /\ eventfd' = s.eventfd

-----------------------------------------------------------------------------
(* nxp_event_loop_run and run_once, step by step.                             *)

\* nxp_run sets running, whatever it was; nxp_poll does not look at it.
Enter(poll) ==
  /\ at = "out"
  /\ at' = "timeout"
  /\ last' = poll
  /\ running' = (running \/ ~poll)
  /\ UNCHANGED <<timers, handle, fd, sources, readable, eventfd, wake, batch, stopping>>

\* Mutant: a millisecond that has begun is not waited for.
ms_rounded_down(left) == (left \div Ms) * Ms

\* Microseconds that epoll_wait sleeps for a deadline: whole milliseconds.
ms_until(left) == ((left + Ms - 1) \div Ms) * Ms

\* Cancelled timers at the head of the heap are freed; the order of equal
\* deadlines is not defined.
next_timer_timeout_ms ==
  LET dead  == DOMAIN timers \ Armed
      first == IF Armed = {} THEN None ELSE Min(Left(Armed))
      sleep == IF first = None THEN None ELSE IF first <= 0 THEN 0 ELSE ms_until(first)
  IN
  /\ at = "timeout"
  /\ \E drained \in SUBSET dead :
       /\ {t \in dead : first # None => timers[t].left < first} \subseteq drained
       /\ \A t \in drained : first # None => timers[t].left <= first
       /\ timers' = Restrict(timers, DOMAIN timers \ drained)
  /\ wake' = IF last THEN (IF sleep = None THEN Ms ELSE Min({sleep, Ms})) ELSE sleep
  /\ at' = "poll"
  /\ UNCHANGED <<handle, fd, sources, readable, eventfd, running, last, batch, stopping>>

Ready == {fd[u] : u \in readable} \cup (IF eventfd THEN {Wakeup} ELSE {})

Polled(fds, error) ==
  /\ at = "poll"
  /\ batch' = fds
  /\ last' = (last \/ error)
  /\ wake' = None
  /\ at' = "fire"
  /\ UNCHANGED <<timers, handle, fd, sources, readable, eventfd, running, stopping>>

\* epoll_wait: some of what is ready, else the timeout; a signal or an error.
PollReturns == \E fds \in SUBSET Ready : fds # {} /\ Cardinality(fds) <= MaxBatch /\ Polled(fds, FALSE)
PollTimeout == Ready = {} /\ wake = 0 /\ Polled({}, FALSE)
PollSignal == Polled({}, FALSE)
PollError == Polled({}, TRUE)

is_active(f) == f \in DOMAIN sources /\ sources[f] # None

\* One entry of the array of events.
epoll_poll(f) ==
  /\ f \in batch
  /\ batch' = batch \ {f}
  /\ IF f = Wakeup
     THEN eventfd' = FALSE /\ UNCHANGED <<timers, handle, fd, sources, running, readable>>
     ELSE IF is_active(f)
     THEN \E s \in Handler(State, sources[f], {}) :
            /\ Become(s)
            /\ readable' = (readable \ {sources[f]}) \cap {u \in Users : s.fd[u] # None}
     ELSE UNCHANGED <<timers, handle, fd, sources, running, eventfd, readable>>
  /\ UNCHANGED <<at, last, wake, stopping>>

\* Mutant: a deadline that is now is not due.
past(left) == left < 0
due(left) == left <= 0

\* One round of fire_timers; on_conn_timer forgets the handle first.
fire_timers(t) ==
  /\ at = "fire" /\ batch = {}
  /\ t \in DOMAIN timers /\ timers[t].left = Min(Left(DOMAIN timers)) /\ due(timers[t].left)
  /\ LET popped == [State EXCEPT !.timers = Restrict(timers, DOMAIN timers \ {t})]
         u      == timers[t].user
     IN  IF timers[t].cancelled
         THEN Become(popped) /\ UNCHANGED readable
         ELSE \E s \in Handler([popped EXCEPT !.handle[u] = None], u, {t}) :
                Become(s) /\ readable' = readable \cap {v \in Users : s.fd[v] # None}
  /\ UNCHANGED <<at, last, wake, batch, stopping>>

\* No timer is due: run_once returns, and run goes on while running is set.
EndFire ==
  /\ at = "fire" /\ batch = {}
  /\ ~\E t \in DOMAIN timers : due(timers[t].left)
  /\ at' = IF last \/ ~running THEN "out" ELSE "timeout"
  /\ last' = FALSE
  /\ UNCHANGED <<timers, handle, fd, sources, readable, eventfd, running, wake, batch, stopping>>

-----------------------------------------------------------------------------
(* The application outside the loop, the other thread, network and clock.     *)

Outside ==
  /\ at = "out"
  /\ \E u \in Users :
       \/ fd[u] # None /\ Become(Close(State, u)) /\ readable' = readable \ {u}
       \/ fd[u] = None /\ \E d \in Delays : Become(Open(State, u, d)) /\ UNCHANGED readable
  /\ UNCHANGED <<at, last, wake, batch, stopping>>

\* Mutant: the loop is woken before it is told to stop.
wake_then_clear(clear) ==
  IF clear THEN eventfd' = TRUE /\ UNCHANGED running ELSE running' = FALSE /\ UNCHANGED eventfd

\* The two statements of nxp_event_loop_stop.
stop_step(clear) ==
  IF clear THEN running' = FALSE /\ UNCHANGED eventfd ELSE eventfd' = TRUE /\ UNCHANGED running

StopCalled ==
  /\ at # "out" /\ ~stopping /\ stopping' = TRUE /\ stop_step(TRUE)
  /\ UNCHANGED <<timers, handle, fd, sources, readable, at, last, wake, batch>>

StopWakes ==
  /\ stopping /\ stopping' = FALSE /\ stop_step(FALSE)
  /\ UNCHANGED <<timers, handle, fd, sources, readable, at, last, wake, batch>>

\* Input: it counts when epoll_wait looks for it.
Arrives ==
  /\ at = "poll"
  /\ \E u \in Live \ readable : readable' = readable \cup {u}
  /\ UNCHANGED <<timers, handle, fd, sources, eventfd, running, at, last, wake, batch, stopping>>

\* Time passes while the thread is in epoll_wait or runs something else.
\* Bound: a deadline long past is just past.
Tick ==
  /\ at = "out" \/ (at = "poll" /\ wake # 0)
  /\ timers' = [t \in DOMAIN timers |-> [timers[t] EXCEPT !.left = Max({-1, @ - 1})]]
  /\ wake' = IF at = "poll" /\ wake # None THEN wake - 1 ELSE wake
  /\ UNCHANGED <<handle, fd, sources, readable, eventfd, running, at, last, batch, stopping>>

Loop ==
  \/ next_timer_timeout_ms
  \/ PollReturns
  \/ PollTimeout
  \/ \E f \in batch : epoll_poll(f)
  \/ \E t \in Timers : fire_timers(t)
  \/ EndFire

LoopNext ==
  \/ Loop
  \/ PollSignal
  \/ PollError
  \/ \E poll \in BOOLEAN : Enter(poll)
  \/ Outside
  \/ StopCalled
  \/ StopWakes
  \/ Arrives
  \/ Tick

\* The thread of the loop and the stopping thread are scheduled; time passes,
\* however often signals and input interrupt epoll_wait.
LoopFairness == WF_loop_vars(Loop) /\ WF_loop_vars(StopWakes) /\ SF_loop_vars(Tick)
LoopSpec == LoopInit /\ [][LoopNext]_loop_vars /\ LoopFairness

-----------------------------------------------------------------------------
IsDue(u) == handle[u] # None /\ timers[handle[u]].left <= 0

\* A handle is the one armed timer of its user ("valid until the timer fires or is
\* cancelled", event_loop.h:95): no live user has a second timer, no closed user
\* has one left to fire, and an active entry of the table is the socket of a live
\* user, whatever is closed, opened and armed again from which callback.
TimersMatchUsers ==
  /\ \A u \in Users : handle[u] # None => handle[u] \in Armed /\ timers[handle[u]].user = u
  /\ \A t \in Armed : handle[timers[t].user] = t /\ timers[t].user \in Live
  /\ \A f \in DOMAIN sources : sources[f] # None => fd[sources[f]] = f
  /\ \A u \in Live : is_active(fd[u]) /\ sources[fd[u]] = u

\* nxp_run blocks exactly as long as it may: to within a millisecond after the
\* first deadline that was not cancelled, never less, and without limit only when
\* nothing is armed ("rounding up to avoid waking too early", event_loop.c:134).
WakesInTime ==
  at = "poll" /\ ~last =>
    IF Armed = {} THEN wake = None
    ELSE wake >= Min(Left(Armed)) /\ wake - Ms < Max({0, Min(Left(Armed))})

\* A timer that is due does not stay so while the loop runs: its callback is called,
\* unless it is cancelled first.
TimersFire ==
  \A u \in Users :
    (at # "out" /\ IsDue(u)) ~> (at = "out" \/ ~IsDue(u))

\* nxp_event_loop_stop ends a running loop, called from a callback or by another
\* thread at any point of an iteration (event_loop.h:122).
StopStops == (at # "out" /\ ~last /\ ~running) ~> at = "out"
=============================================================================
