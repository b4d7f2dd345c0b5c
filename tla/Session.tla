------------------------------ MODULE Session ------------------------------
(***************************************************************************)
(* The session lease of one (uid, device): Gateway connections log in,     *)
(* take the lease in Redis with a new generation, refresh it before they   *)
(* forward commands and give it back when they end; Message reads it to    *)
(* decide whether a command comes from the current session and where a     *)
(* push goes.  Keys of different devices are independent.  The Lua scripts *)
(* are atomic; what happens before and after them interleaves.             *)
(***************************************************************************)
EXTENDS Integers, FiniteSets, FiniteSetsExt

CONSTANTS
    Conns,        \* client connections, each one an id that accept() made
    Gateways,     \* Gateway processes: (gateway_id, instance_id)
    Home,         \* Home[c]: the Gateway process of connection c
    NoConn,
    Scenarios     \* bounds, one of which a behaviour starts with: the connections
                  \* there are, the one that is logged in already or NoConn, the
                  \* ones whose clients send commands (talkers), the Gateway
                  \* processes that may stop, how many get_sessions() calls there
                  \* are (lookups) and how many calls to Redis or Message fail or
                  \* lose their reply (faults)

ASSUME SessionConstants ==
    /\ NoConn \notin Conns
    /\ Home \in [Conns -> Gateways]
    /\ Scenarios \subseteq [conns : SUBSET Conns, bound : Conns \cup {NoConn},
                            talkers : SUBSET Conns, stops : SUBSET Gateways,
                            lookups : Nat, faults : Nat]
    /\ \A s \in Scenarios : s.bound \in s.conns \cup {NoConn}

VARIABLES
    scenario,
    lease,        \* im:session:<uid>:<device> in Redis
    generation,   \* im:sessionGeneration:<uid>:<device>
    listed,       \* is the device in im:userSessions:<uid>
    stage,        \* where run() / login() of each connection is suspended
    reply,        \* what the Redis call that login() waits for has returned
    mine,         \* connection::_lease.generation, 0 before bind()
    closed,       \* the connections with _closed
    ready,        \* the connections that answered a login with success
    recent,       \* the connections with a _last_refresh of less than 20 s ago
    command,      \* the Gateway side of a connection's command: forward()
    confirmed,    \* what the refresh script of forward() returned
    remote,       \* the Message side of that command: process()
    answered,     \* history: the newest generation whose login was answered
    origin,       \* connection_generation in the command's envelope
    floor,        \* history: answered when the command was sent
    lookup,       \* where get_sessions() of Message is
    lookups,      \* get_sessions() calls so far
    stopping,     \* the Gateway processes in stop()
    faults,       \* calls that failed so far
    lost,         \* history: connections whose bind or clear call failed
    lapsed        \* history: connections that nobody was told to close

redis == <<lease, generation, listed>>
conn == <<mine, ready, closed, recent>>
forward == <<command, confirmed, remote, origin, floor>>
rest == <<lookup, lookups, stopping, faults, scenario>>
history == <<answered, lost, lapsed>>
vars == <<redis, stage, reply, conn, forward, rest, history>>

NoLease == [conn |-> NoConn, gen |-> 0]
Lease(c, n) == [conn |-> c, gen |-> n]
Holds(c) == mine[c] > 0 /\ lease = Lease(c, mine[c])

\* bind_session returns the granted generation and the lease it replaced,
\* refresh_session whether the lease is still the connection's.
NoReply == [granted |-> 0, previous |-> NoLease, current |-> FALSE]

Checks == {"token", "profile", "device"}

\* A scenario may begin after the login of one connection.
Init ==
    /\ scenario \in Scenarios
    /\ LET first == {scenario.bound} \ {NoConn}
           number == Cardinality(first) IN
       /\ lease = (IF first = {} THEN NoLease ELSE Lease(scenario.bound, 1))
       /\ generation = number /\ answered = number /\ listed = (first # {})
       /\ mine = [c \in Conns |-> IF c \in first THEN 1 ELSE 0]
       /\ ready = first /\ recent = first
    /\ stage = [c \in Conns |-> IF c \in scenario.conns THEN "idle" ELSE "gone"]
    /\ reply = [c \in Conns |-> NoReply]
    /\ confirmed = [c \in Conns |-> FALSE]
    /\ closed = {}
    /\ command = [c \in Conns |-> "none"]
    /\ remote = [c \in Conns |-> "none"]
    /\ origin = [c \in Conns |-> 0] /\ floor = [c \in Conns |-> 0]
    /\ lookup = "none"
    /\ lookups = 0 /\ stopping = {} /\ faults = 0 /\ lost = {} /\ lapsed = {}

Goto(c, s) == stage' = [stage EXCEPT ![c] = s]

\* connection::close(), and server::close_connection() for the connections
\* that are still registered.
Close(S) == closed' = closed \cup S

\* A call of the I/O queue ends with an exception: Redis is unreachable, does
\* not answer in time, or the process is stopping.
CallFails(c) ==
    \/ Home[c] \in stopping /\ UNCHANGED faults
    \/ faults < scenario.faults /\ faults' = faults + 1
-----------------------------------------------------------------------------
(* Logging in.  The read loop of a connection runs one request at a time.  *)

Login(c) ==
    /\ stage[c] = "idle" /\ c \notin closed
    /\ Goto(c, "token")
    /\ UNCHANGED <<redis, reply, conn, forward, rest, history>>

\* validate_token, prepare_profile and register_device come back: a refusal or
\* a failure is answered with an error, a connection closed meanwhile gives
\* up, a connection that is bound already only needed its token checked.
CheckRefused(c) ==
    /\ stage[c] \in Checks
    /\ Goto(c, "idle")
    /\ UNCHANGED <<redis, reply, conn, forward, rest, history>>

\* The login of c is answered with success.
Answer(c) ==
    /\ ready' = ready \cup {c}
    /\ answered' = Max({answered, mine[c]})

CheckPassed(c) ==
    /\ stage[c] \in Checks /\ c \notin closed
    /\ IF stage[c] = "token" /\ mine[c] > 0
       THEN Goto(c, "idle") /\ Answer(c)
       ELSE /\ Goto(c, CASE stage[c] = "token" -> "profile"
                         [] stage[c] = "profile" -> "device"
                         [] stage[c] = "device" -> "bind")
            /\ UNCHANGED <<ready, answered>>
    /\ UNCHANGED <<redis, reply, mine, closed, recent, forward, rest, lost, lapsed>>

\* The bind script in Redis.  A lease of another Gateway process is replaced
\* without anybody closing its connection.
RunBind(c) ==
    /\ stage[c] = "bind"
    /\ Goto(c, "bound")
    /\ generation' = generation + 1
    /\ lease' = Lease(c, generation + 1)
    /\ listed' = TRUE
    /\ reply' = [reply EXCEPT ![c].granted = generation + 1, ![c].previous = lease]
    /\ lapsed' = IF lease # NoLease /\ Home[lease.conn] # Home[c] THEN lapsed \cup {lease.conn} ELSE lapsed
    /\ UNCHANGED <<conn, forward, rest, answered, lost>>

\* login() goes on once the connections in nowClosed are closed.
Continue(c, nowClosed) ==
    /\ Goto(c, IF c \in nowClosed THEN "idle" ELSE "refresh")
    /\ reply' = [reply EXCEPT ![c] = NoReply]

\* close_previous() only cares for leases of its own Gateway process.
ReplacedHere(c) ==
    LET l == reply[c].previous IN l # NoLease /\ Home[l.conn] = Home[c]

\* Mutant of Bind: a connection closed meanwhile gives up before it keeps the
\* generation.
BindUnlessClosed(c) ==
    /\ stage[c] = "bound"
    /\ IF c \in closed
       THEN Continue(c, closed) /\ UNCHANGED <<mine, recent>>
       ELSE /\ mine' = [mine EXCEPT ![c] = reply[c].granted]
            /\ recent' = recent \cup {c}
            /\ IF ReplacedHere(c)
               THEN Goto(c, "previous") /\ UNCHANGED reply
               ELSE Continue(c, closed)
    /\ UNCHANGED <<redis, ready, closed, forward, rest, history>>

\* login() has the bind reply: the connection keeps its generation, closed or
\* not, so that its clean-up can give the lease back; then the connection that
\* held the lease before is closed, when it lives in this process.
Bind(c) ==
    /\ stage[c] = "bound"
    /\ mine' = [mine EXCEPT ![c] = reply[c].granted]
    /\ recent' = recent \cup {c}
    /\ IF ReplacedHere(c)
       THEN Goto(c, "previous") /\ UNCHANGED reply
       ELSE Continue(c, closed)
    /\ UNCHANGED <<redis, ready, closed, forward, rest, history>>

\* Mutant of ClosePrevious: only a connection that has finished binding is
\* known to the shard.
ClosePreviousIfBound(c) ==
    /\ stage[c] = "previous"
    /\ LET target == {d \in {reply[c].previous.conn} : mine[d] > 0} IN
          Close(target) /\ Continue(c, closed \cup target)
    /\ UNCHANGED <<redis, mine, ready, recent, forward, rest, history>>

\* close_previous() on the shard of the previous connection, which is known
\* there from accept() on; a login repeated after a lost bind reply finds, and
\* closes, its own connection.
ClosePrevious(c) ==
    /\ stage[c] = "previous"
    /\ LET target == {d \in {reply[c].previous.conn} : stage[d] # "gone"} IN
          Close(target) /\ Continue(c, closed \cup target)
    /\ UNCHANGED <<redis, mine, ready, recent, forward, rest, history>>

\* Mutant of Refreshing: an expired lease is written again.
RefreshingRevives(c) ==
    /\ listed' = (listed \/ Holds(c))
    /\ lease' = IF lease = NoLease THEN Lease(c, mine[c]) ELSE lease

\* The refresh script: the lease must be this connection's, and then both keys
\* live on and the device is listed again.
Refreshing(c) ==
    /\ listed' = (listed \/ Holds(c))
    /\ UNCHANGED lease

RunRefresh(c) ==
    /\ stage[c] = "refresh"
    /\ Goto(c, "refreshed")
    /\ reply' = [reply EXCEPT ![c].current = Holds(c)]
    /\ Refreshing(c)
    /\ UNCHANGED <<generation, conn, forward, rest, history>>

\* login() has the refresh reply: it closes, gives up, or answers.
Refreshed(c) ==
    /\ stage[c] = "refreshed"
    /\ Goto(c, "idle")
    /\ Close(IF reply[c].current THEN {} ELSE {c})
    /\ IF reply[c].current /\ c \notin closed THEN Answer(c) ELSE UNCHANGED <<ready, answered>>
    /\ reply' = [reply EXCEPT ![c] = NoReply]
    /\ UNCHANGED <<redis, mine, recent, forward, rest, lost, lapsed>>

\* The bind or the refresh call of login() fails, before or after the script
\* has run: the client gets DependencyUnavailable, and the connection that the
\* bind script replaced is not closed.
LoginFails(c) ==
    /\ stage[c] \in {"bind", "bound", "refresh", "refreshed"}
    /\ CallFails(c)
    /\ Goto(c, "idle")
    /\ lost' = IF stage[c] \in {"bind", "bound"} THEN lost \cup {c} ELSE lost
    /\ lapsed' = IF reply[c].previous # NoLease THEN lapsed \cup {reply[c].previous.conn} ELSE lapsed
    /\ reply' = [reply EXCEPT ![c] = NoReply]
    /\ UNCHANGED <<redis, conn, forward, lookup, lookups, stopping, scenario, answered>>
-----------------------------------------------------------------------------
(* Forwarding commands: one command of a connection at a time.             *)

\* send_command: the command leaves for Message.
Send(c) ==
    /\ command' = [command EXCEPT ![c] = "waiting"]
    /\ remote' = [remote EXCEPT ![c] = "sent"]
    /\ origin' = [origin EXCEPT ![c] = mine[c]]
    /\ floor' = [floor EXCEPT ![c] = answered]

\* The Message side is done with the command.
Done(c) ==
    /\ remote' = [remote EXCEPT ![c] = "none"]
    /\ origin' = [origin EXCEPT ![c] = 0] /\ floor' = [floor EXCEPT ![c] = 0]

\* forward() of a bound connection: within 20 s of the last refresh the command
\* is sent without asking Redis.
Forward(c) ==
    /\ c \in scenario.talkers
    /\ stage[c] = "idle" /\ c \notin closed /\ mine[c] > 0
    /\ command[c] = "none" /\ remote[c] = "none"
    /\ IF c \in recent
       THEN Send(c)
       ELSE command' = [command EXCEPT ![c] = "refresh"] /\ UNCHANGED <<remote, origin, floor>>
    /\ UNCHANGED <<redis, stage, reply, conn, confirmed, rest, history>>

RunForwardRefresh(c) ==
    /\ command[c] = "refresh"
    /\ command' = [command EXCEPT ![c] = "refreshed"]
    /\ confirmed' = [confirmed EXCEPT ![c] = Holds(c)]
    /\ Refreshing(c)
    /\ UNCHANGED <<generation, stage, reply, conn, remote, origin, floor, rest, history>>

ForwardRefreshed(c) ==
    /\ command[c] = "refreshed"
    /\ Close(IF confirmed[c] THEN {} ELSE {c})
    /\ recent' = IF confirmed[c] THEN recent \cup {c} ELSE recent
    /\ IF confirmed[c] /\ c \notin closed
       THEN Send(c)
       ELSE command' = [command EXCEPT ![c] = "none"] /\ UNCHANGED <<remote, origin, floor>>
    /\ confirmed' = [confirmed EXCEPT ![c] = FALSE]
    /\ UNCHANGED <<redis, stage, reply, mine, ready, rest, history>>

\* Mutant of IsOrigin: a missing lease is not held against the command.
IsOriginOrUnknown(c) == lease \in {NoLease, Lease(c, origin[c])}

\* process() of Message compares the lease with the origin of the command.
IsOrigin(c) == lease = Lease(c, origin[c])

\* process(): get_session, then the comparison.
RemoteCheck(c) ==
    /\ remote[c] = "sent"
    /\ remote' = [remote EXCEPT ![c] = IF IsOrigin(c) THEN "accepted" ELSE "denied"]
    /\ UNCHANGED <<redis, stage, reply, conn, command, confirmed, origin, floor, rest, history>>

\* The handler takes effect, some time after the comparison.
RemoteExecute(c) ==
    /\ remote[c] = "accepted"
    /\ remote' = [remote EXCEPT ![c] = "executed"]
    /\ UNCHANGED <<redis, stage, reply, conn, command, confirmed, origin, floor, rest, history>>

\* Mutant of RemoteResult: AuthenticationRequired is passed on to the client
\* and the connection stays.
RemoteResultKeepsOpen(c) ==
    /\ remote[c] \in {"executed", "denied"}
    /\ Done(c)
    /\ command' = [command EXCEPT ![c] = "none"]
    /\ UNCHANGED <<redis, stage, reply, conn, confirmed, rest, history>>

\* The result is back at the Gateway: a waiting forward() closes the connection
\* on AuthenticationRequired and answers the client otherwise.
RemoteResult(c) ==
    /\ remote[c] \in {"executed", "denied"}
    /\ Done(c)
    /\ command' = [command EXCEPT ![c] = "none"]
    /\ Close(IF remote[c] = "denied" /\ command[c] = "waiting" THEN {c} ELSE {})
    /\ UNCHANGED <<redis, stage, reply, mine, ready, recent, confirmed, rest, history>>

\* driver::cancel(), from close() or after a ticket that came too late: the
\* pending command fails at once, Message goes on with it.
Cancelled(c) ==
    /\ command[c] = "waiting" /\ c \in closed
    /\ command' = [command EXCEPT ![c] = "none"]
    /\ UNCHANGED <<redis, stage, reply, conn, confirmed, remote, origin, floor, rest, history>>

\* The refresh fails, or the link to Message ends with the command pending:
\* DependencyUnavailable for the client.  Message may go on with the command.
ForwardFails(c) ==
    /\ command[c] # "none"
    /\ CallFails(c)
    /\ command' = [command EXCEPT ![c] = "none"]
    /\ confirmed' = [confirmed EXCEPT ![c] = FALSE]
    /\ \/ UNCHANGED <<remote, origin, floor>>
       \/ command[c] = "waiting" /\ Done(c)
    /\ UNCHANGED <<redis, stage, reply, conn, lookup, lookups, stopping, scenario, history>>
-----------------------------------------------------------------------------
(* The end of a connection.                                                *)

\* A write fails, a limit is exceeded, the client quits: close() at any time.
Drop(c) ==
    /\ c \notin closed
    /\ Close({c})
    /\ UNCHANGED <<redis, stage, reply, mine, ready, recent, forward, rest, history>>

\* The read loop of run() ends: end of input, or the connection is closed.
LeaveLoop(c) ==
    /\ stage[c] = "idle"
    /\ Close({c})
    /\ Goto(c, "closing")
    /\ UNCHANGED <<redis, reply, mine, ready, recent, forward, rest, history>>

\* run() returns and the connection object is destroyed.
Destroy(c) ==
    /\ Goto(c, "gone")
    /\ mine' = [mine EXCEPT ![c] = 0]
    /\ ready' = ready \ {c} /\ recent' = recent \ {c}
    /\ lapsed' = lapsed \ {c}
    /\ UNCHANGED <<closed, answered>>

\* run() has waited for its requests; a bound connection gives its lease back,
\* which a stopping process no longer admits.
Settle(c) ==
    /\ stage[c] = "closing" /\ command[c] = "none"
    /\ IF mine[c] > 0 /\ Home[c] \notin stopping
       THEN Goto(c, "clear") /\ UNCHANGED <<conn, history>>
       ELSE Destroy(c) /\ lost' = IF mine[c] > 0 THEN lost \cup {c} ELSE lost
    /\ UNCHANGED <<redis, reply, forward, rest>>

\* Mutant of RunClear: the script deletes whatever lease there is.
RunClearAny(c) ==
    /\ stage[c] = "clear"
    /\ Destroy(c)
    /\ lease' = NoLease
    /\ listed' = FALSE
    /\ UNCHANGED <<generation, reply, forward, rest, lost>>

\* The clear script: it deletes the connection's own lease only.
RunClear(c) ==
    /\ stage[c] = "clear"
    /\ Destroy(c)
    /\ lease' = IF Holds(c) THEN NoLease ELSE lease
    /\ listed' = (listed /\ lease # NoLease /\ ~Holds(c))
    /\ UNCHANGED <<generation, reply, forward, rest, lost>>

\* The clear call fails; run() only logs it.
ClearFails(c) ==
    /\ stage[c] = "clear"
    /\ CallFails(c)
    /\ Destroy(c)
    /\ lost' = lost \cup {c}
    /\ UNCHANGED <<redis, reply, forward, lookup, lookups, stopping, scenario>>

\* server::stop(): all connections of the process are closed, and the I/O queue
\* admits nothing more.
StopGateway(g) ==
    /\ g \in scenario.stops \ stopping
    /\ stopping' = stopping \cup {g}
    /\ Close({c \in Conns : Home[c] = g /\ stage[c] # "gone"})
    /\ UNCHANGED <<redis, stage, reply, mine, ready, recent, forward, lookup, lookups, faults, scenario, history>>
-----------------------------------------------------------------------------
(* Time, and the lookups of Message.                                       *)

\* 20 s have passed since the last refresh of c.
Elapse(c) ==
    /\ c \in recent
    /\ recent' = recent \ {c}
    /\ UNCHANGED <<redis, stage, reply, mine, ready, closed, forward, rest, history>>

\* 60 s have passed since the lease was written or refreshed.  A reply that is
\* under way is far younger: Redis calls end within seconds.
Expire ==
    /\ lease # NoLease
    /\ LET c == lease.conn IN
          /\ ~(c \in recent /\ Holds(c))
          /\ ~(stage[c] = "bound" /\ reply[c].granted = lease.gen)
          /\ ~(command[c] = "refreshed" /\ confirmed[c])
          /\ lapsed' = lapsed \cup {c}
    /\ lease' = NoLease
    /\ UNCHANGED <<generation, listed, stage, reply, conn, forward, rest, answered, lost>>

\* get_sessions(): SMEMBERS, GET, and SREM for a device without a lease.
LookupMembers ==
    /\ lookup = "none" /\ listed
    /\ lookups < scenario.lookups
    /\ lookup' = "members" /\ lookups' = lookups + 1
    /\ UNCHANGED <<redis, stage, reply, conn, forward, stopping, faults, scenario, history>>

LookupLease ==
    /\ lookup = "members"
    /\ lookup' = IF lease = NoLease THEN "missing" ELSE "none"
    /\ UNCHANGED <<redis, stage, reply, conn, forward, lookups, stopping, faults, scenario, history>>

LookupRemove ==
    /\ lookup = "missing"
    /\ lookup' = "none"
    /\ listed' = FALSE
    /\ UNCHANGED <<lease, generation, stage, reply, conn, forward, lookups, stopping, faults, scenario, history>>

\* im:userSessions lives 120 s, longer than any lease written with it.
ListExpires ==
    /\ listed /\ lease = NoLease
    /\ listed' = FALSE
    /\ UNCHANGED <<lease, generation, stage, reply, conn, forward, rest, history>>
-----------------------------------------------------------------------------
LoginStep(c) ==
    \/ Login(c) \/ CheckRefused(c) \/ CheckPassed(c)
    \/ RunBind(c) \/ Bind(c) \/ ClosePrevious(c)
    \/ RunRefresh(c) \/ Refreshed(c) \/ LoginFails(c)

ForwardStep(c) ==
    \/ Forward(c) \/ RunForwardRefresh(c) \/ ForwardRefreshed(c)
    \/ RemoteCheck(c) \/ RemoteExecute(c) \/ RemoteResult(c)
    \/ Cancelled(c) \/ ForwardFails(c)

EndStep(c) ==
    Drop(c) \/ LeaveLoop(c) \/ Settle(c) \/ RunClear(c) \/ ClearFails(c)

Next ==
    \/ \E c \in Conns : LoginStep(c) \/ ForwardStep(c) \/ EndStep(c) \/ Elapse(c)
    \/ \E g \in Gateways : StopGateway(g)
    \/ Expire \/ LookupMembers \/ LookupLease \/ LookupRemove \/ ListExpires

\* What SupersededIsClosed needs, and no more: the reactor resumes a forward()
\* that has its answer, the Redis calls of forward() and of process() end with a
\* reply or, by their timeout, with an exception, and Message returns a denial.
\* Nothing is assumed of logins, of the handlers of Message, which wait for MySQL
\* without a deadline, or of the end of a connection.
Fairness ==
    \A c \in Conns :
        /\ WF_vars(RunForwardRefresh(c)) /\ WF_vars(ForwardRefreshed(c))
        /\ WF_vars(RemoteCheck(c)) /\ WF_vars(remote[c] = "denied" /\ RemoteResult(c))

SafeSpec == Init /\ [][Next]_vars
Spec == SafeSpec /\ Fairness
-----------------------------------------------------------------------------
\* The newest session keeps its lease: no clean-up of an older connection, no
\* late script and no lookup takes the lease from a connection that bound last,
\* is open and has refreshed within the last 20 s.
NewestKeepsLease ==
    \A c \in recent \ closed : mine[c] = generation => Holds(c)

\* A connection that has lost its lease, to a newer login or to the TTL, never
\* gets it back: refresh_session does not write it again, and a login on a bound
\* connection does not bind again.
NoRevival ==
    [][\A c \in Conns : mine[c] > 0 /\ ~Holds(c) => ~Holds(c)']_vars

\* Once a newer login of the device has been answered, no command that an older
\* connection sends afterwards is accepted by Message, even if the newer lease
\* has expired or has been given back in the meantime.
AcceptedIsNewest ==
    \A c \in Conns : remote[c] \in {"accepted", "executed"} => origin[c] >= floor[c]

\* When a login has been answered, an older connection of the device on the same
\* Gateway process is closed, or about to be closed by the login that replaced
\* it, unless nobody replaced it there: its lease had expired, had been taken by
\* another process, or the reply of the bind that replaced it was lost.
OneSessionPerGateway ==
    \A a, b \in Conns :
        b \in ready /\ mine[a] \in 1..(mine[b] - 1) /\ Home[a] = Home[b] =>
            \/ a \in closed \cup lapsed
            \/ \E x \in Conns : /\ stage[x] \in {"bound", "previous"}
                                /\ reply[x].previous = Lease(a, mine[a])

\* A connection that is gone has left no lease behind, even if it was closed in
\* the middle of its login, unless its bind or its clear call failed.
NoOrphanLease ==
    \A c \in Conns : stage[c] = "gone" /\ lease.conn = c => c \in lost

\* A connection without its lease is closed by the first command it sends,
\* whether it asks Redis itself or goes by its last refresh.
SupersededIsClosed ==
    \A c \in Conns :
        (/\ mine[c] > 0 /\ ~Holds(c) /\ faults = scenario.faults
         /\ \/ command[c] = "refresh"
            \/ command[c] = "waiting" /\ remote[c] = "sent")
            ~> (c \in closed)
=============================================================================
