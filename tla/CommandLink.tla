---------------------------- MODULE CommandLink ----------------------------
(***************************************************************************)
(* How a command travels from a Gateway shard to a Message shard and its   *)
(* result comes back.  Gateway: gateway/io/driver.cc keeps the table of    *)
(* pending commands and, in grpc_control, one gateway/io/message_link.cc   *)
(* per Message node.  Message: message/transport/server.cc keeps the       *)
(* streams by token and the registered one per Gateway shard.              *)
(*                                                                         *)
(* A link and the stream at its other end are one gRPC call and share one  *)
(* name here.  Each side runs on one reactor: a step is a callback or what *)
(* a coroutine does between two suspension points.                         *)
(***************************************************************************)
EXTENDS Integers, Sequences, FiniteSets

CONSTANTS
    Nodes,          \* the Message nodes
    Links,          \* the calls that are ever made, each to one node
    NodeOf,         \* NodeOf[l]: the node that call l is made to
    Commands,       \* the commands that connections submit, retries included
    Correlation,    \* Correlation[c]: connection id and client request id
    Connection,     \* Connection[c]: the connection that submits c
    MaxPending,     \* entries of _pending_budget
    MaxWrites,      \* entries of the Gateway's writes budget
    MaxReplies,     \* entries of the Message server's _writes budget
    Scenarios,      \* bounds, one of which a behaviour starts with: the calls and
                    \* the commands there are, how many pushes Message sends, how
                    \* many connections are lost (breaks), the nodes whose server
                    \* may be stopped (drains)
    None

ASSUME LinkConstants ==
    /\ NodeOf \in [Links -> Nodes]
    /\ {MaxPending, MaxWrites, MaxReplies} \subseteq Nat \ {0}
    /\ Scenarios \subseteq [links : SUBSET Links, commands : SUBSET Commands, pushes : Nat,
                            breaks : Nat, drains : SUBSET Nodes]
    /\ None \notin Nodes \cup Links \cup Commands
    /\ "idle" \notin Nodes /\ "ended" \notin Nodes
    /\ \A c, d \in Commands : Correlation[c] = Correlation[d] => Connection[c] = Connection[d]

VARIABLES
    \* Gateway
    current,        \* _message_links: the link of each node
    control,        \* grpc_control: "idle", "ended", or the node whose link it closes
    stopping,       \* driver::_stopping
    left,           \* after the abort: the nodes that the pass over the topology may
                    \* still come to; it looks at _stopping only at its end
    stopped,        \* driver::stop has returned
    link,           \* the state of each message_link
    healthy,        \* the links with _healthy
    reading,        \* the links with an outstanding read
    out,            \* the frames that hold a unit of writes, per link
    writing,        \* the links whose first frame is with gRPC
    pending,        \* _pending: the link each pending command was sent on
    inflight,       \* message_link::_inflight
    outcome,        \* how far each command is and what its submitter was told;
                    \* "foreign": it was given the result of another command
    closed,         \* the connections that are gone
    \* the calls
    broken,         \* calls that were cancelled or lost
    up, down,       \* the frames on the way to and from Message
    \* Message
    stream,         \* the state of each stream
    replies,        \* the frames that hold a unit of _writes, per stream
    sending,        \* the streams whose first frame is with gRPC
    registered,     \* _registered: the token of this Gateway shard, per node
    executing,      \* the commands being executed, with the stream they came by
    draining,       \* the nodes whose server is stopping
    scenario, pushes, breaks

gate == <<current, control, stopping, left, stopped, closed>>
glink == <<link, healthy, reading, out, writing>>
table == <<pending, inflight, outcome>>
wire == <<up, down>>
mstream == <<stream, replies, sending, registered>>
rest == <<executing, draining, pushes, breaks, scenario>>
vars == <<gate, glink, table, broken, wire, mstream, rest>>

\* Kinds of frames: register, command and ack go to Message; registered, result
\* and push come back.
Frame(k, c) == [kind |-> k, cmd |-> c]
On(l) == {c \in Commands : pending[c] = l}
Pending == {c \in Commands : pending[c] # None}
Units(q) == Cardinality({p \in Links \X (1..(MaxWrites + MaxReplies)) : p[2] \in DOMAIN q[p[1]]})

Init ==
    /\ current = [n \in Nodes |-> None] /\ control = "idle"
    /\ stopping = FALSE /\ left = {} /\ stopped = FALSE
    /\ link = [l \in Links |-> "absent"] /\ healthy = {} /\ reading = {}
    /\ out = [l \in Links |-> << >>] /\ writing = {}
    /\ pending = [c \in Commands |-> None] /\ inflight = [l \in Links |-> 0]
    /\ outcome = [c \in Commands |-> "new"] /\ closed = {}
    /\ broken = {} /\ up = [l \in Links |-> << >>] /\ down = [l \in Links |-> << >>]
    /\ stream = [l \in Links |-> "absent"] /\ replies = [l \in Links |-> << >>]
    /\ sending = {} /\ registered = [n \in Nodes |-> None]
    /\ executing = {} /\ draining = {}
    /\ scenario \in Scenarios /\ pushes = 0 /\ breaks = 0

-----------------------------------------------------------------------------
(* Gateway: one link.                                                      *)

\* message_link::stop for the links in S that are not stopping yet: frames that
\* wait for the write slot are dropped, the one gRPC has stays with it.
StopLinks(S) ==
    LET T == {l \in S : link[l] = "open"}
    IN  /\ link' = [l \in Links |-> IF l \in T THEN "stopping" ELSE link[l]]
        /\ healthy' = healthy \ T
        /\ out' = [l \in Links |-> IF l \in T
                                   THEN IF l \in writing THEN <<Head(out[l])>> ELSE << >>
                                   ELSE out[l]]
        /\ broken' = broken \cup T

\* message_link::enqueue succeeds, with one unit of the writes budget.
CanEnqueue(l) == link[l] = "open" /\ Units(out) < MaxWrites
Enqueue(l, f) == out' = [out EXCEPT ![l] = Append(@, f)]

\* message_link::write: the coroutine at the head of the slot's queue goes on.
WriteStart(l) ==
    /\ link[l] = "open" /\ l \notin writing /\ out[l] # << >>
    /\ writing' = writing \cup {l}
    /\ UNCHANGED <<gate, link, healthy, reading, out, table, broken, wire, mstream, rest>>

\* message_link::OnWriteDone: the frame is on the wire, or lost with the call.
WriteDone(l) ==
    /\ l \in writing /\ writing' = writing \ {l}
    /\ \/ /\ l \notin broken
          /\ up' = [up EXCEPT ![l] = Append(@, Head(out[l]))]
          /\ out' = [out EXCEPT ![l] = Tail(@)]
          /\ UNCHANGED <<link, healthy, broken>>
       \/ /\ l \in broken
          /\ link' = [link EXCEPT ![l] = "stopping"] /\ healthy' = healthy \ {l}
          /\ out' = [out EXCEPT ![l] = << >>]
          /\ UNCHANGED <<up, broken>>
    /\ UNCHANGED <<gate, reading, table, down, mstream, rest>>

\* driver::on_grpc_frame for a result: the pending entry with its correlation,
\* if it was sent on this very link.
Resolves(l, c) == {p \in On(l) : Correlation[p] = Correlation[c]}

\* message_link::OnReadDone(true).  A push is acknowledged on the same link; if
\* the budget has no room for that the exception stops the link.
ReadFrame(l) ==
    LET f == Head(down[l])
        rejected == f.kind = "push" /\ ~CanEnqueue(l)
    IN  /\ l \in reading /\ down[l] # << >>
        /\ down' = [down EXCEPT ![l] = Tail(@)]
        /\ reading' = IF link[l] = "open" /\ ~rejected THEN reading ELSE reading \ {l}
        /\ \/ /\ f.kind = "registered"
              /\ healthy' = IF link[l] = "open" THEN healthy \cup {l} ELSE healthy
              /\ UNCHANGED <<link, out, broken, table>>
           \/ /\ f.kind = "result"
              /\ pending' = [c \in Commands |-> IF c \in Resolves(l, f.cmd) THEN None ELSE pending[c]]
              /\ outcome' = [c \in Commands |-> IF c \notin Resolves(l, f.cmd) THEN outcome[c]
                                                ELSE IF c = f.cmd THEN "result" ELSE "foreign"]
              /\ inflight' = [inflight EXCEPT ![l] = @ - Cardinality(Resolves(l, f.cmd))]
              /\ UNCHANGED <<link, healthy, out, broken>>
           \/ /\ f.kind = "push" /\ ~rejected
              /\ Enqueue(l, Frame("ack", None))
              /\ UNCHANGED <<link, healthy, broken, table>>
           \/ rejected /\ StopLinks({l}) /\ UNCHANGED table
        /\ UNCHANGED <<gate, writing, up, mstream, rest>>

\* message_link::OnReadDone(false).
ReadFails(l) ==
    /\ l \in reading /\ l \in broken
    /\ reading' = reading \ {l} /\ StopLinks({l})
    /\ UNCHANGED <<gate, writing, table, wire, mstream, rest>>

\* message_link::OnDone and driver::on_grpc_done, once the hold is removed and
\* no read or write is outstanding: the commands sent on this link fail.
OnDone(l) ==
    /\ link[l] = "stopping" /\ l \notin reading \cup writing
    /\ link' = [link EXCEPT ![l] = "finished"]
    /\ pending' = [c \in Commands |-> IF c \in On(l) THEN None ELSE pending[c]]
    /\ outcome' = [c \in Commands |-> IF c \in On(l) THEN "failed" ELSE outcome[c]]
    /\ inflight' = [inflight EXCEPT ![l] = @ - Cardinality(On(l))]
    /\ down' = [down EXCEPT ![l] = << >>]
    /\ UNCHANGED <<gate, healthy, reading, out, writing, broken, up, mstream, rest>>

-----------------------------------------------------------------------------
(* Gateway: grpc_control.                                                  *)

\* A new link: read first, then the registration frame, then the call.  If the
\* budget refuses the frame the link is stopped before it starts.
OpenLink(n, l) ==
    /\ l \in scenario.links /\ NodeOf[l] = n /\ link[l] = "absent"
    /\ current' = [current EXCEPT ![n] = l]
    /\ reading' = reading \cup {l}
    /\ \/ /\ Units(out) < MaxWrites
          /\ link' = [link EXCEPT ![l] = "open"]
          /\ Enqueue(l, Frame("register", None))
          /\ UNCHANGED broken
       \/ /\ Units(out) >= MaxWrites
          /\ link' = [link EXCEPT ![l] = "stopping"]
          /\ broken' = broken \cup {l}
          /\ UNCHANGED out

\* The pass over the topology comes to node n: before the abort, or later if it
\* was interrupted by it.
Visits(n) == control = "idle" /\ (stopping => n \in left) /\ left' = left \ {n}

\* The topology names an active node that has no link.
Connect(n) ==
    /\ Visits(n) /\ current[n] = None
    /\ \E l \in Links : OpenLink(n, l)
    /\ UNCHANGED <<control, stopping, stopped, closed, healthy, writing, table, wire, mstream, rest>>

\* The link of a node is finished, or the topology has moved or dropped the
\* node: close() is called and awaited.
Retire(n) ==
    /\ Visits(n) /\ current[n] # None
    /\ control' = n /\ StopLinks({current[n]})
    /\ UNCHANGED <<current, stopping, stopped, closed, reading, writing, table, wire, mstream, rest>>

\* close() returns after OnDone and after the last writer has left the gate.
Drained(l) == link[l] = "finished" /\ out[l] = << >>

\* The closed link is erased; a node that is still in the topology gets a new
\* one at once, with no look at _stopping.
Replace(n) ==
    /\ control = n /\ Drained(current[n])
    /\ control' = "idle"
    /\ \/ \E l \in Links : OpenLink(n, l)
       \/ current' = [current EXCEPT ![n] = None] /\ UNCHANGED <<link, reading, out, broken>>
    /\ UNCHANGED <<stopping, left, stopped, closed, healthy, writing, table, wire, mstream, rest>>

\* driver::abort, right after the operation queue has been flushed.  A pass that
\* waits for a link to close goes on with the nodes it has not come to.
Abort ==
    /\ ~stopping /\ stopping' = TRUE
    /\ left' = IF control \in Nodes THEN Nodes \ {control} ELSE {}
    /\ StopLinks({current[n] : n \in Nodes} \ {None})
    /\ outcome' = [c \in Commands |-> IF outcome[c] = "queued" THEN "failed" ELSE outcome[c]]
    /\ UNCHANGED <<current, control, stopped, closed, reading, writing, pending, inflight, wire,
                   mstream, rest>>

\* The control loop sees _stopping.
ControlEnds ==
    /\ control = "idle" /\ stopping /\ control' = "ended"
    /\ UNCHANGED <<current, stopping, left, stopped, closed, glink, table, broken, wire, mstream, rest>>

\* As it would be if only registered links were closed.
CloseHealthyLink(n) ==
    /\ control = "ended" /\ current[n] \in healthy
    /\ StopLinks({current[n]})
    /\ UNCHANGED <<gate, reading, writing, table, wire, mstream, rest>>

\* driver::stop closes what links are left ...
CloseLink(n) ==
    /\ control = "ended" /\ current[n] # None /\ link[current[n]] = "open"
    /\ StopLinks({current[n]})
    /\ UNCHANGED <<gate, reading, writing, table, wire, mstream, rest>>

\* As it would be if the links were stopped but not waited for.
StopReturnsEarly ==
    /\ control = "ended" /\ ~stopped /\ stopped' = TRUE
    /\ \A n \in Nodes : current[n] # None => link[current[n]] # "open"
    /\ current' = [n \in Nodes |-> None]
    /\ UNCHANGED <<control, stopping, left, closed, glink, table, broken, wire, mstream, rest>>

\* ... and clears the map when all of them are closed.
StopReturns ==
    /\ control = "ended" /\ ~stopped /\ stopped' = TRUE
    /\ \A n \in Nodes : current[n] # None => Drained(current[n])
    /\ current' = [n \in Nodes |-> None]
    /\ UNCHANGED <<control, stopping, left, closed, glink, table, broken, wire, mstream, rest>>

-----------------------------------------------------------------------------
(* Gateway: one command.                                                   *)

\* service::forward submits send_command to the operation queue.
Submit(c) ==
    /\ c \in scenario.commands /\ outcome[c] = "new" /\ Connection[c] \notin closed /\ ~stopping
    /\ outcome' = [outcome EXCEPT ![c] = "queued"]
    /\ UNCHANGED <<gate, glink, pending, inflight, broken, wire, mstream, rest>>

Usable == {l \in healthy : \E n \in Nodes : current[n] = l}
Duplicate(c) == \E p \in Pending : Correlation[p] = Correlation[c]
CanSend(c) == Cardinality(Pending) < MaxPending /\ ~Duplicate(c) /\ Units(out) < MaxWrites

\* driver::execute(send_command): a queue consumer runs it without suspending.
Execute(c) ==
    /\ outcome[c] = "queued" /\ ~stopping
    /\ \/ /\ CanSend(c)
          /\ \E l \in Usable :
                /\ Enqueue(l, Frame("command", c))
                /\ pending' = [pending EXCEPT ![c] = l]
                /\ inflight' = [inflight EXCEPT ![l] = @ + 1]
          /\ outcome' = [outcome EXCEPT ![c] = "sent"]
       \/ /\ Usable = {} \/ ~CanSend(c)
          /\ outcome' = [outcome EXCEPT ![c] = "refused"]
          /\ UNCHANGED <<out, pending, inflight>>
    /\ UNCHANGED <<gate, link, healthy, reading, writing, broken, wire, mstream, rest>>

\* driver::cancel: the pending commands of one connection fail.
CancelOf(k) == {c \in Pending : Connection[c] = k}
\* As it would be without remove_inflight.
CancelKeepsInflight(k) ==
    /\ pending' = [c \in Commands |-> IF c \in CancelOf(k) THEN None ELSE pending[c]]
    /\ UNCHANGED inflight
Cancel(k) ==
    /\ pending' = [c \in Commands |-> IF c \in CancelOf(k) THEN None ELSE pending[c]]
    /\ inflight' = [l \in Links |-> inflight[l] - Cardinality(CancelOf(k) \cap On(l))]

\* service::forward resumes with the ticket; a connection that was closed while
\* the command was queued is cancelled again.
Resume(c) ==
    /\ outcome[c] = "sent"
    /\ \/ /\ Connection[c] \notin closed
          /\ outcome' = [outcome EXCEPT ![c] = "waiting"]
          /\ UNCHANGED <<pending, inflight>>
       \/ /\ Connection[c] \in closed /\ Cancel(Connection[c])
          /\ outcome' = [p \in Commands |-> IF p \in CancelOf(Connection[c]) THEN "cancelled" ELSE outcome[p]]
    /\ UNCHANGED <<gate, glink, broken, wire, mstream, rest>>

\* connection::close.
CloseConnection(k) ==
    /\ k \notin closed /\ closed' = closed \cup {k} /\ Cancel(k)
    /\ outcome' = [c \in Commands |-> IF c \in CancelOf(k) THEN "cancelled" ELSE outcome[c]]
    /\ UNCHANGED <<current, control, stopping, left, stopped, glink, broken, wire, mstream, rest>>

-----------------------------------------------------------------------------
(* Message.                                                                *)

\* stream::stop for the streams in S that are open: stream::finish waits for an
\* outstanding write, frames that wait for the slot are dropped.
Ending(S) ==
    [l \in Links |-> IF l \notin S \/ stream[l] # "open" THEN stream[l]
                     ELSE IF l \in sending THEN "stopping" ELSE "finishing"]
Shortened(S) ==
    [l \in Links |-> IF l \notin S \/ stream[l] # "open" THEN replies[l]
                     ELSE IF l \in sending THEN <<Head(replies[l])>> ELSE << >>]
StopStreams(S) ==
    /\ stream' = Ending(S) /\ replies' = Shortened(S)
    /\ broken' = broken \cup {l \in S : stream[l] = "open"}

\* stream::enqueue succeeds, with one unit of the server's _writes budget.
CanReply(l) ==
    /\ stream[l] = "open"
    /\ Units([k \in Links |-> IF NodeOf[k] = NodeOf[l] THEN replies[k] ELSE << >>]) < MaxReplies
EnqueueReply(l, f) ==
    /\ replies' = [replies EXCEPT ![l] = Append(@, f)]
    /\ UNCHANGED <<stream, broken>>

\* server::Connect; a server that is stopping stops the new stream.
Accept(l) ==
    /\ stream[l] = "absent" /\ link[l] # "absent" /\ l \notin broken
    /\ \/ /\ NodeOf[l] \notin draining
          /\ stream' = [stream EXCEPT ![l] = "open"] /\ UNCHANGED broken
       \/ /\ NodeOf[l] \in draining
          /\ stream' = [stream EXCEPT ![l] = "finishing"] /\ broken' = broken \cup {l}
    /\ UNCHANGED <<gate, glink, table, wire, replies, sending, registered, rest>>

\* server::register_stream: the index moves to the new stream, then the old one
\* is stopped, then the answer is queued; without room for it the new stream is
\* stopped as well.  The stream_epoch of the frame is not compared.
Register(l) ==
    LET old == {registered[NodeOf[l]]} \ {None}
    IN  /\ registered' = [registered EXCEPT ![NodeOf[l]] = l]
        /\ \/ /\ CanReply(l)
              /\ stream' = Ending(old)
              /\ replies' = [Shortened(old) EXCEPT ![l] = Append(@, Frame("registered", None))]
              /\ broken' = broken \cup {o \in old : stream[o] = "open"}
           \/ ~CanReply(l) /\ StopStreams(old \cup {l})

\* server::process.
StreamRead(l) ==
    LET f == Head(up[l])
    IN  /\ stream[l] = "open" /\ up[l] # << >>
        /\ up' = [up EXCEPT ![l] = Tail(@)]
        /\ \/ f.kind = "register" /\ Register(l) /\ UNCHANGED executing
           \/ /\ f.kind = "command" /\ executing' = executing \cup {<<f.cmd, l>>}
              /\ UNCHANGED <<stream, replies, registered, broken>>
           \/ f.kind = "ack" /\ UNCHANGED <<stream, replies, registered, broken, executing>>
        /\ UNCHANGED <<gate, glink, table, down, sending, draining, pushes, breaks, scenario>>

\* stream::OnCancel, or OnReadDone(false).
OnCancel(l) ==
    /\ stream[l] = "open" /\ l \in broken /\ StopStreams({l})
    /\ UNCHANGED <<gate, glink, table, wire, sending, registered, rest>>

\* stream::write and stream::OnWriteDone.
SendStart(l) ==
    /\ stream[l] = "open" /\ l \notin sending /\ replies[l] # << >>
    /\ sending' = sending \cup {l}
    /\ UNCHANGED <<gate, glink, table, broken, wire, stream, replies, registered, rest>>

SendDone(l) ==
    /\ l \in sending /\ sending' = sending \ {l}
    /\ \/ /\ l \notin broken
          /\ down' = [down EXCEPT ![l] = Append(@, Head(replies[l]))]
          /\ replies' = [replies EXCEPT ![l] = Tail(@)]
          /\ UNCHANGED stream
       \/ /\ l \in broken
          /\ stream' = [stream EXCEPT ![l] = "finishing"]
          /\ replies' = [replies EXCEPT ![l] = << >>]
          /\ UNCHANGED down
    /\ UNCHANGED <<gate, glink, table, broken, up, registered, rest>>

\* stream::OnDone and server::on_grpc_done: an old stream removes only itself.
StreamDone(l) ==
    /\ stream[l] = "finishing"
    /\ stream' = [stream EXCEPT ![l] = "finished"]
    /\ registered' = [n \in Nodes |-> IF registered[n] = l THEN None ELSE registered[n]]
    /\ up' = [up EXCEPT ![l] = << >>]
    /\ UNCHANGED <<gate, glink, table, broken, down, replies, sending, rest>>

\* As it would be without the comparison of tokens.
DestinationOfShard(l) ==
    {t \in Links : t = registered[NodeOf[l]] /\ NodeOf[l] \notin draining /\ stream[t] = "open"}

\* Where server::reply sends the result of a command that came by stream l: to
\* the registered stream, if it is that one.
Destination(l) ==
    {t \in Links : t = registered[NodeOf[l]] /\ t = l /\ NodeOf[l] \notin draining /\ stream[t] = "open"}

\* As it would be if a result without room were dropped.
ReplyOrDrop(c, l) ==
    /\ <<c, l>> \in executing /\ executing' = executing \ {<<c, l>>}
    /\ \/ (\A t \in Destination(l) : ~CanReply(t)) /\ UNCHANGED <<stream, replies, broken>>
       \/ \E t \in Destination(l) : CanReply(t) /\ EnqueueReply(t, Frame("result", c))
    /\ UNCHANGED <<gate, glink, table, wire, sending, registered, draining, pushes, breaks, scenario>>

\* service::reply when a command is over: the result goes to the stream the
\* command came by; if the budget has no room that stream is stopped.
Reply(c, l) ==
    /\ <<c, l>> \in executing /\ executing' = executing \ {<<c, l>>}
    /\ \/ Destination(l) = {} /\ UNCHANGED <<stream, replies, broken>>
       \/ \E t \in Destination(l) : CanReply(t) /\ EnqueueReply(t, Frame("result", c))
       \/ \E t \in Destination(l) : ~CanReply(t) /\ StopStreams({t})
    /\ UNCHANGED <<gate, glink, table, wire, sending, registered, draining, pushes, breaks, scenario>>

\* server::forward; without room the push is not sent (BACKPRESSURED).
Push(n) ==
    /\ pushes < scenario.pushes /\ pushes' = pushes + 1
    /\ registered[n] # None /\ n \notin draining /\ CanReply(registered[n])
    /\ EnqueueReply(registered[n], Frame("push", None))
    /\ UNCHANGED <<gate, glink, table, wire, sending, registered, executing, draining, breaks, scenario>>

\* server::begin_stop.
Drain(n) ==
    /\ n \in scenario.drains \ draining /\ draining' = draining \cup {n}
    /\ StopStreams({l \in Links : NodeOf[l] = n})
    /\ UNCHANGED <<gate, glink, table, wire, sending, registered, executing, pushes, breaks, scenario>>

\* The transport fails: both ends will hear of it, at different times.
Break(l) ==
    /\ breaks < scenario.breaks /\ breaks' = breaks + 1
    /\ link[l] # "absent" /\ l \notin broken /\ broken' = broken \cup {l}
    /\ UNCHANGED <<gate, glink, table, wire, mstream, executing, draining, pushes, scenario>>

-----------------------------------------------------------------------------
LinkStep(l) ==
    \/ WriteStart(l) \/ WriteDone(l) \/ ReadFrame(l) \/ ReadFails(l) \/ OnDone(l)

StreamStep(l) ==
    \/ Accept(l) \/ StreamRead(l) \/ OnCancel(l) \/ SendStart(l) \/ SendDone(l) \/ StreamDone(l)

ControlStep ==
    \/ \E n \in Nodes : Replace(n) \/ CloseLink(n)
    \/ ControlEnds \/ StopReturns

CommandStep(c) == Execute(c) \/ Resume(c) \/ \E l \in Links : Reply(c, l)

Next ==
    \/ \E l \in Links : LinkStep(l) \/ StreamStep(l) \/ Break(l)
    \/ \E n \in Nodes : Connect(n) \/ Retire(n) \/ Push(n) \/ Drain(n)
    \/ \E c \in Commands : Submit(c) \/ CommandStep(c)
    \/ \E k \in {Connection[c] : c \in scenario.commands} : CloseConnection(k)
    \/ ControlStep \/ Abort

\* Reactors run what is ready, gRPC completes the operations of a call, Message
\* answers every command.  Nothing forces a client, the topology, the network
\* or an operator to act.
Fairness ==
    /\ \A l \in Links : /\ WF_vars(WriteStart(l) \/ WriteDone(l))
                        /\ WF_vars(ReadFrame(l) \/ ReadFails(l)) /\ WF_vars(OnDone(l))
                        /\ WF_vars(StreamRead(l) \/ OnCancel(l))
                        /\ WF_vars(SendStart(l) \/ SendDone(l)) /\ WF_vars(StreamDone(l))
    /\ \A c \in Commands : WF_vars(CommandStep(c))
    /\ WF_vars(ControlStep)

SafeSpec == Init /\ [][Next]_vars
Spec == SafeSpec /\ Fairness

-----------------------------------------------------------------------------
\* No side holds on to what is gone: a pending command points to a link that is
\* still in the map and has not had its OnDone (the pointer in pending_command
\* never dangles), the link's _inflight, by which links are chosen, counts exactly
\* those commands, and the registered token names a stream that exists, so that
\* _streams.at() in register_stream, reply and forward cannot throw.
NothingDangles ==
    /\ \A l \in Links :
          /\ On(l) # {} => link[l] \in {"open", "stopping"} /\ current[NodeOf[l]] = l
          /\ inflight[l] = Cardinality(On(l))
    /\ \A n \in Nodes : registered[n] # None =>
          stream[registered[n]] \in {"open", "stopping", "finishing"} /\ NodeOf[registered[n]] = n

\* A client is given the result of its own command, although a retry on the same
\* connection has the same correlation and the first attempt may still run.  A
\* command that was queued when its connection closed may be completed by the
\* result of an earlier one, which nobody reads any more.
ResultIsOwn == \A c \in Commands : outcome[c] = "foreign" => Connection[c] \in closed

\* When driver::stop returns nothing is pending, no frame holds budget and no
\* link is alive, also if the control loop opened one after the abort, to the
\* node whose link it was closing or to one later in its pass.
CleanStop ==
    stopped => /\ Pending = {}
               /\ \A l \in Links : link[l] \in {"absent", "finished"} /\ out[l] = << >>

\* Every command that was submitted is answered, refused or failed, and then
\* none is under way: no result is dropped without the stream of its command
\* being closed.
CommandsEnd ==
    LET underway == {c \in Commands : outcome[c] \in {"queued", "sent", "waiting"}}
    IN  underway # {} ~> underway = {}

\* driver::stop always returns.
StopEnds == stopping ~> stopped

=============================================================================
