------------------------------ MODULE GrpcEngine ------------------------------
(***************************************************************************)
(* The EventEngine that runs gRPC on a Seastar reactor                     *)
(* (common/reactor/grpc_engine.cc) with the shard's resolver               *)
(* (dns_resolver.cc), on one shard: connection attempts with timeout and   *)
(* cancellation, endpoints with their reads and writes, a listener, DNS    *)
(* lookups, timers and tasks; and how the shard stops them, by counting    *)
(* what is under way (observed) and waiting for it.                        *)
(*                                                                         *)
(* The reactor runs one task or coroutine at a time and leaves it only     *)
(* where it suspends: a step is what happens between two suspensions.      *)
(* gRPC is external.  It starts things while its channels live; once they  *)
(* are released it only destroys and cancels, and runs tasks.  What status *)
(* a callback is given is left out.                                        *)
(***************************************************************************)
EXTENDS Integers

CONSTANTS
    Connects,     \* connection attempts; one that succeeds becomes an endpoint
    Incoming,     \* connections the listener may accept
    Lookups,
    Timers,
    Tasks,        \* the tasks gRPC schedules with Run
    Accepting,    \* the accept coroutine of the listener's socket
    NoTask,
    Loads         \* sets of attempts, lookups, timers, tasks and Accepting: what
                  \* gRPC uses the engine for in one behaviour

Endpoints == Connects \cup Incoming
Transfers == Endpoints \X {"read", "write"}
Activities == Connects \cup Transfers \cup Lookups \cup Tasks \cup {Accepting}
Counters == {"active_io", "active_tasks", "endpoints", "resolvers", "listeners"}

ASSUME EngineConstants ==
    /\ NoTask \notin Activities /\ Timers \cap Activities = {}
    /\ (Connects \cup Transfers) \cap (Lookups \cup Tasks) = {} /\ Lookups \cap Tasks = {}
    /\ Connects \cap Transfers = {} /\ Connects \cap Incoming = {}
    /\ Accepting \notin Connects \cup Transfers \cup Lookups \cup Tasks
    /\ Loads \subseteq SUBSET (Connects \cup Lookups \cup Timers \cup Tasks \cup {Accepting})

VARIABLES
    load,         \* the load of this behaviour
    pc,           \* "idle", "queued" in the reactor, "waiting" for I/O, "ready"
                  \* to go on, "over"
    good,         \* the activities whose I/O succeeded
    shut,         \* the connections, endpoints and listener whose fd is shut down
    connections,  \* _connections
    cancelled,    \* pending_connection::cancelled
    expired,      \* pending_connection::expired
    armed,        \* the attempts whose timeout is armed
    unheard,      \* history: the attempts that connect() ended without a word
    timers,       \* _timers
    set,          \* history: the timers that were ever set
    endpoint,     \* "none", "open", "gone"
    resolver,     \* the reactor_dns: "none", "open", "gone"
    listener,     \* the listener: "none", "created", "bound", "started", "gone"
    dns,          \* the resolver's channel is open
    watch,        \* the watch on its socket: "none", "running", "retired"
    observed,     \* the counters of the shard
    phase,        \* "running", "released", "closed", "draining", "drained"
    outcome       \* history: how often an attempt, a timer or the listener
                  \* has called back or was cancelled

attempts == <<connections, cancelled, expired, armed, unheard>>
clock == <<timers, set>>
objects == <<endpoint, resolver, listener>>
names == <<dns, watch>>
vars == <<pc, good, shut, attempts, clock, objects, names, observed, phase, outcome, load>>

Init ==
    /\ load \in Loads
    /\ pc = [a \in Activities |-> "idle"]
    /\ good = {} /\ shut = {}
    /\ connections = {} /\ cancelled = {} /\ expired = {} /\ armed = {} /\ unheard = {}
    /\ timers = {} /\ set = {}
    /\ endpoint = [e \in Endpoints |-> "none"]
    /\ resolver = "none" /\ listener = "none"
    /\ dns = TRUE /\ watch = "none"
    /\ observed = [k \in Counters |-> 0]
    /\ phase = "running"
    /\ outcome = [x \in Connects \cup Timers \cup {Accepting} |-> 0]

Live == phase = "running"
Underway(a) == pc[a] \notin {"idle", "over"}

\* A step during which gRPC is called back may schedule one task k with Run.
Runnable == {NoTask} \cup {k \in Tasks \cap load : pc[k] = "idle"}

\* Activity a goes to s and task k is queued, and the counters change by d.
Moves(a, s, d, k) ==
    /\ pc' = [b \in Activities |-> IF b = a THEN s ELSE IF b = k THEN "queued" ELSE pc[b]]
    /\ observed' = [c \in Counters |-> observed[c]
                        + (IF c \in DOMAIN d THEN d[c] ELSE 0)
                        + (IF c = "active_tasks" /\ k # NoTask THEN 1 ELSE 0)]

Once(x) == outcome' = [outcome EXCEPT ![x] = @ + 1]

(* Tasks and timers *)

\* reactor_engine::Run; LookupSRV and LookupTXT schedule a task in the same way.
Run(k) ==
    /\ Live /\ k \in Runnable \ {NoTask}
    /\ Moves(k, "queued", [active_tasks |-> 1], NoTask)
    /\ UNCHANGED <<good, shut, attempts, clock, objects, names, phase, outcome>>

\* The task itself.
RunTask(k, j) ==
    /\ pc[k] = "queued" /\ j \in Runnable
    /\ Moves(k, "over", [active_tasks |-> -1], j)
    /\ UNCHANGED <<good, shut, attempts, clock, objects, names, phase, outcome>>

RunAfter(t) ==
    /\ Live /\ t \notin set
    /\ timers' = timers \cup {t} /\ set' = set \cup {t}
    /\ UNCHANGED <<pc, good, shut, attempts, objects, names, observed, phase, outcome>>

\* The timer's callback.
Fire(t, j) ==
    /\ t \in timers /\ timers' = timers \ {t} /\ Once(t)
    /\ j \in Runnable /\ Moves(t, "over", <<>>, j)
    /\ UNCHANGED <<good, shut, attempts, set, objects, names, phase>>

\* Cancel, when it returns true.
Cancel(t) ==
    /\ t \in timers /\ timers' = timers \ {t} /\ Once(t)
    /\ UNCHANGED <<pc, good, shut, attempts, set, objects, names, observed, phase>>

(* Connection attempts *)

Connect(c) ==
    /\ Live /\ pc[c] = "idle"
    /\ connections' = connections \cup {c} /\ armed' = armed \cup {c}
    /\ Moves(c, "queued", [active_io |-> 1, active_tasks |-> 1], NoTask)
    /\ UNCHANGED <<good, shut, cancelled, expired, unheard, clock, objects, names, phase, outcome>>

\* The task runs connect() up to fd.connect.
StartConnect(c) ==
    /\ pc[c] = "queued"
    /\ Moves(c, "waiting", [active_tasks |-> -1], NoTask)
    /\ UNCHANGED <<good, shut, attempts, clock, objects, names, phase, outcome>>

ConnectTimeout(c) ==
    /\ c \in armed /\ armed' = armed \ {c}
    /\ expired' = expired \cup {c} /\ shut' = shut \cup {c}
    /\ UNCHANGED <<pc, good, connections, cancelled, unheard, clock, objects, names, observed,
                   phase, outcome>>

\* As it would be if the socket were left open.
CancelConnectOpen(c) ==
    /\ c \in connections /\ connections' = connections \ {c}
    /\ cancelled' = cancelled \cup {c} /\ armed' = armed \ {c}
    /\ Once(c)
    /\ UNCHANGED <<pc, good, shut, expired, unheard, clock, objects, names, observed, phase>>

\* CancelConnect, when it returns true: the callback is dropped, the coroutine
\* is still to end.
CancelConnect(c) ==
    /\ c \in connections /\ connections' = connections \ {c}
    /\ cancelled' = cancelled \cup {c} /\ armed' = armed \ {c}
    /\ shut' = shut \cup {c} /\ Once(c)
    /\ UNCHANGED <<pc, good, expired, unheard, clock, objects, names, observed, phase>>

\* As it would be if the coroutine did not look at cancelled.
EndConnectAnyway(c, j) ==
    /\ pc[c] = "ready" /\ j \in Runnable /\ Once(c)
    /\ connections' = connections \ {c} /\ armed' = armed \ {c}
    /\ LET made == c \in good \ expired IN
       /\ endpoint' = IF made THEN [endpoint EXCEPT ![c] = "open"] ELSE endpoint
       /\ Moves(c, "over", [active_io |-> -1, endpoints |-> IF made THEN 1 ELSE 0], j)
    /\ UNCHANGED <<good, shut, cancelled, expired, unheard, clock, resolver, listener, names, phase>>

\* connect() goes on: a cancelled attempt ends in silence, any other calls back
\* with an error or an endpoint.
EndConnect(c, j) ==
    /\ pc[c] = "ready" /\ j \in Runnable
    /\ connections' = connections \ {c} /\ armed' = armed \ {c}
    /\ IF c \in cancelled THEN j = NoTask /\ UNCHANGED outcome ELSE Once(c)
    /\ LET made == c \in good \ (cancelled \cup expired) IN
       /\ endpoint' = IF made THEN [endpoint EXCEPT ![c] = "open"] ELSE endpoint
       /\ Moves(c, "over", [active_io |-> -1, endpoints |-> IF made THEN 1 ELSE 0], j)
    /\ UNCHANGED <<good, shut, cancelled, expired, unheard, clock, resolver, listener, names, phase>>

\* The constructor of the endpoint throws: the peer has reset the connection and
\* the socket has no remote address any more, or refuses an option.  The callback
\* was moved out before and there is no handler: it is destroyed uncalled, with
\* the descriptor, and nobody looks at the future of connect().
LoseConnect(c, j) ==
    /\ pc[c] = "ready" /\ c \in good \ (cancelled \cup expired) /\ j \in Runnable
    /\ connections' = connections \ {c} /\ armed' = armed \ {c}
    /\ unheard' = unheard \cup {c}
    /\ Moves(c, "over", [active_io |-> -1], j)
    /\ UNCHANGED <<good, shut, cancelled, expired, clock, objects, names, phase, outcome>>

(* Endpoints *)

\* Read and Write of an endpoint; at most one of each at a time.
Transfer(x) ==
    /\ Live /\ endpoint[x[1]] = "open" /\ pc[x] = "idle"
    /\ Moves(x, "queued", [active_io |-> 1], NoTask)
    /\ UNCHANGED <<good, shut, attempts, clock, objects, names, phase, outcome>>

StartTransfer(x) ==
    /\ pc[x] = "queued"
    /\ Moves(x, "waiting", <<>>, NoTask)
    /\ UNCHANGED <<good, shut, attempts, clock, objects, names, phase, outcome>>

\* read() and write() go on to their callback.
EndTransfer(x, j) ==
    /\ pc[x] = "ready" /\ j \in Runnable
    /\ Moves(x, "idle", [active_io |-> -1], j)
    /\ good' = good \ {x}
    /\ UNCHANGED <<shut, attempts, clock, objects, names, phase, outcome>>

\* ~reactor_endpoint.
DestroyEndpoint(e) ==
    /\ endpoint[e] = "open" /\ endpoint' = [endpoint EXCEPT ![e] = "gone"]
    /\ shut' = shut \cup {e}
    /\ Moves(NoTask, "over", [endpoints |-> -1], NoTask)
    /\ UNCHANGED <<good, attempts, clock, resolver, listener, names, phase, outcome>>

(* The listener *)

CreateListener ==
    /\ Live /\ listener = "none" /\ listener' = "created"
    /\ Moves(NoTask, "over", [listeners |-> 1], NoTask)
    /\ UNCHANGED <<good, shut, attempts, clock, endpoint, resolver, names, phase, outcome>>

\* Bind, when it succeeds.
Bind ==
    /\ Live /\ listener = "created" /\ listener' = "bound"
    /\ UNCHANGED <<pc, good, shut, attempts, clock, endpoint, resolver, names, observed,
                   phase, outcome>>

Start ==
    /\ Live /\ listener = "bound" /\ listener' = "started"
    /\ Moves(Accepting, "queued", [active_io |-> 1], NoTask)
    /\ UNCHANGED <<good, shut, attempts, clock, endpoint, resolver, names, phase, outcome>>

\* accept() begins, unless the listener went first.
StartAccept ==
    /\ pc[Accepting] = "queued" /\ listener # "gone"
    /\ Moves(Accepting, "waiting", <<>>, NoTask)
    /\ UNCHANGED <<good, shut, attempts, clock, objects, names, phase, outcome>>

\* accept() goes on with a connection and waits for the next.
Accept(e, j) ==
    /\ pc[Accepting] = "ready" /\ Accepting \in good /\ listener # "gone"
    /\ endpoint[e] = "none" /\ endpoint' = [endpoint EXCEPT ![e] = "open"]
    /\ j \in Runnable /\ Moves(Accepting, "waiting", [endpoints |-> 1], j)
    /\ good' = good \ {Accepting}
    /\ UNCHANGED <<shut, attempts, clock, resolver, listener, names, phase, outcome>>

\* accept() ends, after a failure or because the listener is gone; then it is
\* for this coroutine to call back (state::complete).
EndAccept(j) ==
    /\ \/ pc[Accepting] = "ready" /\ (Accepting \notin good \/ listener = "gone")
       \/ pc[Accepting] = "queued" /\ listener = "gone"
    /\ good' = good \ {Accepting}
    /\ IF listener = "gone"
         THEN /\ Once(Accepting) /\ j \in Runnable
              /\ Moves(Accepting, "over", [active_io |-> -1, listeners |-> -1], j)
         ELSE /\ UNCHANGED outcome /\ j = NoTask
              /\ Moves(Accepting, "over", [active_io |-> -1], j)
    /\ UNCHANGED <<shut, attempts, clock, objects, names, phase>>

\* ~reactor_listener, which calls back itself when no accept() is active.
DestroyListener(j) ==
    /\ listener \notin {"none", "gone"} /\ listener' = "gone"
    /\ shut' = shut \cup {Accepting}
    /\ IF Underway(Accepting)
         THEN UNCHANGED <<pc, observed, outcome>> /\ j = NoTask
         ELSE /\ Once(Accepting) /\ j \in Runnable
              /\ Moves(NoTask, "over", [listeners |-> -1], j)
    /\ UNCHANGED <<good, attempts, clock, endpoint, resolver, names, phase>>

(* Name resolution *)

GetDNSResolver ==
    /\ Live /\ resolver = "none" /\ resolver' = "open"
    /\ Moves(NoTask, "over", [resolvers |-> 1], NoTask)
    /\ UNCHANGED <<good, shut, attempts, clock, endpoint, listener, names, phase, outcome>>

\* ~reactor_dns: lookups under way go on without it.
DestroyResolver ==
    /\ resolver = "open" /\ resolver' = "gone"
    /\ Moves(NoTask, "over", [resolvers |-> -1], NoTask)
    /\ UNCHANGED <<good, shut, attempts, clock, endpoint, listener, names, phase, outcome>>

LookupHostname(l) ==
    /\ Live /\ resolver = "open" /\ pc[l] = "idle"
    /\ Moves(l, "queued", [active_io |-> 1], NoTask)
    /\ UNCHANGED <<good, shut, attempts, clock, objects, names, phase, outcome>>

\* lookup() calls resolve_all, which has the answer at once (the channel is
\* closed, or the name is numeric or in the hosts file) or asks the channel.
StartLookup(l) ==
    /\ pc[l] = "queued"
    /\ \/ Moves(l, "ready", <<>>, NoTask)
       \/ dns /\ Moves(l, "waiting", <<>>, NoTask)
    /\ UNCHANGED <<good, shut, attempts, clock, objects, names, phase, outcome>>

\* lookup() goes on to its callback.
EndLookup(l, j) ==
    /\ pc[l] = "ready" /\ j \in Runnable
    /\ Moves(l, "over", [active_io |-> -1], j)
    /\ UNCHANGED <<good, shut, attempts, clock, objects, names, phase, outcome>>

\* socket_state: the channel opens a socket for a query, and closes it.
Watch ==
    /\ dns /\ watch = "none" /\ watch' = "running"
    /\ \E l \in Lookups : pc[l] = "waiting"
    /\ UNCHANGED <<pc, good, shut, attempts, clock, objects, dns, observed, phase, outcome>>

Retire ==
    /\ watch = "running" /\ watch' = "retired"
    /\ UNCHANGED <<pc, good, shut, attempts, clock, objects, dns, observed, phase, outcome>>

\* The tasks of a stopped fd_watch have returned.
WatchEnds ==
    /\ watch = "retired" /\ watch' = "none"
    /\ UNCHANGED <<pc, good, shut, attempts, clock, objects, dns, observed, phase, outcome>>

(* The kernel and the channel *)

\* What an activity waits for has happened, well or not.
Complete(a) ==
    /\ pc[a] = "waiting" /\ Moves(a, "ready", <<>>, NoTask)
    /\ good' \in {good, good \cup {a}}
    /\ a = Accepting /\ good' # good => \E e \in Incoming : endpoint[e] = "none"
    /\ UNCHANGED <<shut, attempts, clock, objects, names, phase, outcome>>

(* Stopping *)

\* The owner drops its channels and servers.
ReleaseChannels ==
    /\ Live /\ phase' = "released"
    /\ UNCHANGED <<pc, good, shut, attempts, clock, objects, names, observed, outcome>>

\* close_grpc_engine returns: pending_count() is 0.
CloseEngine ==
    /\ phase = "released" /\ timers = {} /\ connections = {}
    /\ phase' = "closed"
    /\ UNCHANGED <<pc, good, shut, attempts, clock, objects, names, observed, outcome>>

\* dns_resolver::close, called by drain_local_grpc: every query ends, with
\* stopped, and the watch is retired.
CloseDns ==
    /\ phase = "closed" /\ phase' = "draining" /\ dns' = FALSE
    /\ pc' = [a \in Activities |-> IF a \in Lookups /\ pc[a] = "waiting" THEN "ready" ELSE pc[a]]
    /\ watch' = IF watch = "running" THEN "retired" ELSE watch
    /\ UNCHANGED <<good, shut, attempts, clock, objects, observed, outcome>>

\* As it would be if the drain waited for activities but not for objects.
DrainActivities ==
    /\ phase = "draining" /\ watch = "none"
    /\ observed["active_io"] = 0 /\ observed["active_tasks"] = 0
    /\ phase' = "drained"
    /\ UNCHANGED <<pc, good, shut, attempts, clock, objects, names, observed, outcome>>

\* drain_local_grpc returns.
Drain ==
    /\ phase = "draining" /\ watch = "none"
    /\ \A k \in Counters : observed[k] = 0
    /\ phase' = "drained"
    /\ UNCHANGED <<pc, good, shut, attempts, clock, objects, names, observed, outcome>>

(* Specification *)

\* The reactor runs what is ready.
Reactor ==
    \E j \in Runnable :
        \/ \E k \in Tasks : RunTask(k, j)
        \/ \E t \in Timers : Fire(t, j)
        \/ \E c \in Connects : StartConnect(c) \/ ConnectTimeout(c) \/ EndConnect(c, j) \/ LoseConnect(c, j)
        \/ \E x \in Transfers : StartTransfer(x) \/ EndTransfer(x, j)
        \/ StartAccept \/ EndAccept(j) \/ (\E e \in Incoming : Accept(e, j))
        \/ \E l \in Lookups : StartLookup(l) \/ EndLookup(l, j)

\* gRPC uses the engine.
Use ==
    \/ \E k \in Tasks : Run(k)
    \/ \E t \in Timers \cap load : RunAfter(t) \/ Cancel(t)
    \/ \E c \in Connects \cap load : Connect(c) \/ CancelConnect(c)
    \/ \E x \in Transfers : Transfer(x)
    \/ Accepting \in load /\ (CreateListener \/ Bind \/ Start)
    \/ \E l \in Lookups \cap load : GetDNSResolver \/ LookupHostname(l)

\* gRPC gives up what it was given.
Destroy ==
    \/ \E e \in Endpoints : DestroyEndpoint(e)
    \/ \E j \in Runnable : DestroyListener(j)
    \/ DestroyResolver

Stop == ReleaseChannels \/ CloseEngine \/ CloseDns \/ Drain

Next ==
    /\ \/ Reactor \/ Use \/ Destroy \/ Stop
       \/ Watch \/ Retire \/ WatchEnds
       \/ \E a \in Connects \cup Transfers \cup Lookups \cup {Accepting} : Complete(a)
    /\ UNCHANGED load

\* I/O on a descriptor that was shut down completes.
Shut(a) == (IF a \in Transfers THEN a[1] ELSE a) \in shut

\* The reactor runs its tasks, gRPC destroys its objects once its channels are
\* released, and the two loops of the stop look again every millisecond.
Fairness ==
    /\ WF_vars(UNCHANGED load /\ Reactor) /\ WF_vars(UNCHANGED load /\ WatchEnds)
    /\ WF_vars(UNCHANGED load /\ ~Live /\ Destroy)
    /\ WF_vars(UNCHANGED load /\ (CloseEngine \/ CloseDns \/ Drain))
    /\ WF_vars(/\ UNCHANGED load
               /\ \E a \in Connects \cup Transfers \cup {Accepting} : Shut(a) /\ Complete(a))

Spec == Init /\ [][Next]_vars /\ Fairness

(* Properties *)

\* gRPC never hears twice of what it started: of a connection attempt by its
\* callback or by a successful CancelConnect, whether the timeout, the completion
\* and the cancellation come in one order or another; the same for a timer; and
\* the listener's shutdown callback comes once, after accept() has called back
\* for the last time (connect, CancelConnect, RunAfter, state::complete).  It does
\* hear of everything that ends, but for one kind of attempt: one that connected
\* in time, was not cancelled and whose endpoint could not be made.
HeardOnce ==
    /\ \A c \in Connects :
          outcome[c] = (IF c \in cancelled \/ (pc[c] = "over" /\ c \notin unheard) THEN 1 ELSE 0)
    /\ unheard \subseteq good \ (cancelled \cup expired)
    /\ \A t \in Timers : outcome[t] = (IF t \in set \ timers THEN 1 ELSE 0)
    /\ outcome[Accepting] = (IF listener = "gone" /\ ~Underway(Accepting) THEN 1 ELSE 0)

\* When drain_local_grpc returns and the reactor may exit, nothing of gRPC is
\* left on the shard: no task or coroutine that still has a callback to make, no
\* timer, no object that would touch the counters, no watch with a callback
\* into the resolver.
QuietWhenDrained ==
    phase = "drained" =>
        /\ \A a \in Activities : ~Underway(a)
        /\ timers = {} /\ connections = {} /\ armed = {}
        /\ \A e \in Endpoints : endpoint[e] # "open"
        /\ resolver # "open" /\ listener \in {"none", "gone"} /\ watch = "none"

\* The stop ends: what is under way when the channels are released, attempts
\* still connecting, reads without data, an accept() and queries without answer
\* included, is woken up and gives its count back (~reactor_endpoint,
\* ~reactor_listener, CancelConnect, the timeout, dns_resolver::close).
DrainEnds == phase = "released" ~> phase = "drained"

=============================================================================
