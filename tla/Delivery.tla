------------------------------ MODULE Delivery ------------------------------
(***************************************************************************)
(* gateway/transport/connection.cc: how a Gateway shard writes to its      *)
(* clients.  Frames go through a bounded queue to one writer coroutine;    *)
(* pushes with a sequence number are also kept in _reliable and sent again *)
(* every 5 s until the client acknowledges the number, a newer body takes  *)
(* its place, or the third copy has had its 5 s.  A connection that runs   *)
(* out of room is closed.                                                  *)
(*                                                                         *)
(* The budgets of the shard are shared by its connections.  Their units    *)
(* belong to the entries that hold them (RAII), so what is in use is the   *)
(* sum over the entries; the connection's own counters are kept by hand.   *)
(***************************************************************************)
EXTENDS Integers, Sequences, FiniteSets, FiniteSetsExt

CONSTANTS
    Conns,
    Bodies,         \* the envelopes that are ever offered, each one once
    To,             \* To[b]: the connection b is for
    Sequence,       \* Sequence[b]: TcpPacketReliableSequence, 0 for a response
    Size,           \* Size[b]: the bytes of the envelope
    Header,         \* sizeof(uint32_t)
    MaxFrame,       \* PROTOCOL_SEND_MSS
    MaxEntries,     \* max_connection_writes
    MaxBytes,       \* max_connection_bytes
    WriteEntries, WriteBytes,         \* the budget driver.writes
    ReliableEntries, ReliableBytes,   \* the budget driver.reliable
    NoFrame

ASSUME DeliveryConstants ==
    /\ To \in [Bodies -> Conns] /\ Sequence \in [Bodies -> Nat] /\ Size \in [Bodies -> Nat]
    /\ {Header, MaxFrame, MaxEntries, MaxBytes} \subseteq Nat
    /\ {WriteEntries, WriteBytes, ReliableEntries, ReliableBytes} \subseteq Nat
    /\ NoFrame \notin Bodies /\ IsFiniteSet(Conns)

VARIABLES
    closed,         \* the connections with _closed
    quitting,       \* the connections with _close_after_write
    writes,         \* _writes of each connection
    writeBytes,     \* _write_bytes
    writer,         \* write_loop: "none", "starting", "busy" or "failed"; not "none" is _writing
    onWire,         \* the frame that write_loop has handed to the socket
    reliable,       \* _reliable: entries of a sequence, its body, units and attempts
    reliableBytes,  \* _reliable_bytes
    offered,        \* the bodies that have been offered
    copies,         \* history: how often each body was queued
    due             \* history: pushes neither replaced nor acknowledged

queue == <<writes, writeBytes, writer, copies>>
table == <<reliable, reliableBytes>>
deliveryVars == <<closed, quitting, queue, onWire, table, offered, due>>

Sequences == {Sequence[b] : b \in Bodies} \ {0}
FrameBytes(b) == Size[b] + Header
SumBytes(s) == SumFunction([i \in DOMAIN s |-> FrameBytes(s[i])])
Entries(k, s) == {e \in reliable[k] : e.seq = s}
AllEntries == UNION {reliable[k] : k \in Conns}
OnWire(k) == IF onWire[k] = NoFrame THEN << >> ELSE <<onWire[k]>>
Held(k) == OnWire(k) \o writes[k]

DeliveryInit ==
    /\ closed = {} /\ quitting = {}
    /\ writes = [k \in Conns |-> << >>] /\ writeBytes = [k \in Conns |-> 0]
    /\ writer = [k \in Conns |-> "none"] /\ onWire = [k \in Conns |-> NoFrame]
    /\ reliable = [k \in Conns |-> {}] /\ reliableBytes = [k \in Conns |-> 0]
    /\ offered = {} /\ copies = [b \in Bodies |-> 0] /\ due = {}
-----------------------------------------------------------------------------
\* What the entries of all connections hold of driver.writes and of driver.reliable.
FramesInUse == SumFunction([k \in Conns |-> Len(Held(k))])
FrameBytesInUse == SumFunction([k \in Conns |-> SumBytes(Held(k))])
PushesInUse == SumFunction([k \in Conns |-> Cardinality(reliable[k])])
PushBytesInUse == SumFunction([k \in Conns |-> SumFunction([e \in reliable[k] |-> e.units])])

\* budget::acquire of driver.writes and of driver.reliable.
WritesHaveRoom(b) == FramesInUse < WriteEntries /\ FrameBytesInUse + FrameBytes(b) <= WriteBytes
ReliableHasRoom(b) == PushesInUse < ReliableEntries /\ PushBytesInUse + Size[b] <= ReliableBytes

\* budget::resize: only what the entry needs more is taken.
CanResize(e, b) == Size[b] > e.units => PushBytesInUse + Size[b] - e.units <= ReliableBytes

\* connection::close.
Closing(k) ==
    /\ closed' = closed \cup {k}
    /\ writes' = [writes EXCEPT ![k] = << >>] /\ writeBytes' = [writeBytes EXCEPT ![k] = 0]
    /\ reliable' = [reliable EXCEPT ![k] = {}] /\ reliableBytes' = [reliableBytes EXCEPT ![k] = 0]

\* connection::send: refused (and then the connection is closed) or queued.  The
\* writer may run at once, in the caller's step; here it runs in one of its own.
CanSend(k, b) ==
    /\ Size[b] <= MaxFrame
    /\ Len(writes[k]) < MaxEntries
    /\ FrameBytes(b) <= MaxBytes - writeBytes[k]
    /\ WritesHaveRoom(b)

Enqueue(k, b) ==
    /\ writes' = [writes EXCEPT ![k] = Append(@, b)]
    /\ writeBytes' = [writeBytes EXCEPT ![k] = @ + FrameBytes(b)]
    /\ writer' = [writer EXCEPT ![k] = IF @ = "none" THEN "starting" ELSE @]
    /\ copies' = [copies EXCEPT ![b] = @ + 1]
    /\ UNCHANGED closed

Offer(k, b) ==
    /\ To[b] = k /\ k \notin closed
    /\ b \notin offered /\ offered' = offered \cup {b}

SendOrClose(k, b) ==
    \/ CanSend(k, b) /\ Enqueue(k, b) /\ UNCHANGED table
    \/ ~CanSend(k, b) /\ Closing(k) /\ UNCHANGED <<writer, copies>>

\* respond(), error(), and pushes without a sequence number.
Send(k, b) ==
    /\ Sequence[b] = 0 /\ Offer(k, b)
    /\ SendOrClose(k, b)
    /\ UNCHANGED <<quitting, onWire, due>>

\* quit(): the response is the last thing the writer is sure to write.
Quit(k, b) ==
    /\ Sequence[b] = 0 /\ Offer(k, b)
    /\ k \notin quitting /\ quitting' = quitting \cup {k}
    /\ SendOrClose(k, b)
    /\ UNCHANGED <<onWire, due>>

Entry(b) == [seq |-> Sequence[b], body |-> b, units |-> Size[b], attempts |-> 1]

\* send_reliable for a number that is not in the table.
CanKeep(k, b) ==
    /\ Cardinality(reliable[k]) < MaxEntries
    /\ Size[b] <= MaxBytes - reliableBytes[k]
    /\ ReliableHasRoom(b)

SendNew(k, b) ==
    /\ Sequence[b] > 0 /\ Offer(k, b)
    /\ Entries(k, Sequence[b]) = {}
    /\ \/ /\ CanKeep(k, b) /\ CanSend(k, b)
          /\ Enqueue(k, b)
          /\ reliable' = [reliable EXCEPT ![k] = @ \cup {Entry(b)}]
          /\ reliableBytes' = [reliableBytes EXCEPT ![k] = @ + Size[b]]
          /\ due' = {o \in due : To[o] # k \/ Sequence[o] # Sequence[b]} \cup {b}
       \/ ~(CanKeep(k, b) /\ CanSend(k, b)) /\ Closing(k) /\ UNCHANGED <<writer, copies, due>>
    /\ UNCHANGED <<quitting, onWire>>

\* As it would be if only the body's place were taken and not its bytes.
ReplacedKeepingBytes(k, e, b) ==
    /\ reliable' = [reliable EXCEPT ![k] = (@ \ {e}) \cup {Entry(b)}]
    /\ UNCHANGED reliableBytes

\* As it would be if the timer went on with the body it was armed for.
ReplacedKeepingBody(k, e, b) ==
    /\ reliable' = [reliable EXCEPT ![k] = (@ \ {e}) \cup {[e EXCEPT !.attempts = 1]}]
    /\ UNCHANGED reliableBytes

Replaced(k, e, b) ==
    /\ reliable' = [reliable EXCEPT ![k] = (@ \ {e}) \cup {[e EXCEPT !.body = b, !.units = Size[b], !.attempts = 1]}]
    /\ reliableBytes' = [reliableBytes EXCEPT ![k] = @ - Size[e.body] + Size[b]]

\* send_reliable for a number in the table: a newer body takes the entry over.
CanReplace(k, e, b) ==
    /\ Size[b] <= MaxBytes - (reliableBytes[k] - Size[e.body])
    /\ CanResize(e, b)

SendReplacing(k, b) ==
    /\ Sequence[b] > 0 /\ Offer(k, b)
    /\ \E e \in Entries(k, Sequence[b]) :
          \/ /\ CanReplace(k, e, b) /\ CanSend(k, b)
             /\ Enqueue(k, b)
             /\ Replaced(k, e, b)
             /\ due' = {o \in due : To[o] # k \/ Sequence[o] # Sequence[b]} \cup {b}
          \/ ~(CanReplace(k, e, b) /\ CanSend(k, b)) /\ Closing(k) /\ UNCHANGED <<writer, copies, due>>
    /\ UNCHANGED <<quitting, onWire>>

Forget(k, e) ==
    /\ reliable' = [reliable EXCEPT ![k] = @ \ {e}]
    /\ reliableBytes' = [reliableBytes EXCEPT ![k] = @ - Size[e.body]]

\* As it would be if the third time-out returned and left the entry in the table.
AbandonSilently(k, e) ==
    /\ e.attempts >= 3
    /\ UNCHANGED <<closed, queue, table>>

\* retry(): the third copy has had its 5 s.
Abandon(k, e) ==
    /\ e.attempts >= 3
    /\ Forget(k, e)
    /\ UNCHANGED <<closed, queue>>

Again(k, e) ==
    /\ e.attempts < 3
    /\ \/ /\ CanSend(k, e.body) /\ Enqueue(k, e.body)
          /\ reliable' = [reliable EXCEPT ![k] = (@ \ {e}) \cup {[e EXCEPT !.attempts = @ + 1]}]
          /\ UNCHANGED reliableBytes
       \/ ~CanSend(k, e.body) /\ Closing(k) /\ UNCHANGED <<writer, copies>>

\* The timer of an entry fires.
Retry(k, s) ==
    /\ \E e \in Entries(k, s) : Abandon(k, e) \/ Again(k, e)
    /\ UNCHANGED <<quitting, onWire, offered, due>>

\* acknowledge_request: the client names a number, be it one whose push it has
\* not received yet; a number that is not in the table changes nothing.  A
\* connection that runs quit() reads no further requests.
Acknowledge(k, s) ==
    /\ k \notin closed \cup quitting
    /\ \E e \in Entries(k, s) : Forget(k, e)
    /\ due' = {b \in due : To[b] # k \/ Sequence[b] # s}
    /\ UNCHANGED <<closed, quitting, queue, onWire, offered>>
-----------------------------------------------------------------------------
\* write_loop from the head of its loop: the next frame, or the end.
TakeNext(k) ==
    /\ k \notin closed /\ writes[k] # << >>
    /\ onWire' = [onWire EXCEPT ![k] = Head(writes[k])]
    /\ writes' = [writes EXCEPT ![k] = Tail(@)]
    /\ writer' = [writer EXCEPT ![k] = "busy"]
    /\ UNCHANGED <<closed, table>>

LoopEnds(k) ==
    /\ k \in closed \/ writes[k] = << >>
    /\ onWire' = [onWire EXCEPT ![k] = NoFrame]
    /\ writer' = [writer EXCEPT ![k] = "none"]

StartWriter(k) ==
    /\ writer[k] = "starting"
    /\ \/ TakeNext(k) /\ UNCHANGED writeBytes
       \/ LoopEnds(k) /\ UNCHANGED <<closed, writes, writeBytes, table>>
    /\ UNCHANGED <<quitting, copies, offered, due>>

\* The frame is flushed, its units are returned, and the loop goes on.
Flushed(k) ==
    /\ onWire[k] # NoFrame
    /\ \/ /\ TakeNext(k)
          /\ writeBytes' = [writeBytes EXCEPT ![k] = @ - FrameBytes(onWire[k])]
       \/ /\ LoopEnds(k) /\ k \in quitting \ closed /\ Closing(k)
       \/ /\ LoopEnds(k) /\ k \notin quitting \ closed
          /\ writeBytes' = [writeBytes EXCEPT ![k] = IF k \in closed THEN @ ELSE @ - FrameBytes(onWire[k])]
          /\ UNCHANGED <<closed, writes, table>>
    /\ UNCHANGED <<quitting, copies, offered, due>>

\* The socket fails, or was shut down by close().
WriteFails(k) ==
    /\ onWire[k] # NoFrame /\ onWire' = [onWire EXCEPT ![k] = NoFrame]
    /\ writer' = [writer EXCEPT ![k] = "failed"]
    /\ Closing(k)
    /\ UNCHANGED <<quitting, copies, offered, due>>

\* The client leaves, or a newer login closes the connection.
Close(k) ==
    /\ k \notin closed /\ Closing(k)
    /\ UNCHANGED <<quitting, writer, copies, onWire, offered, due>>

DeliveryNext ==
    \/ \E k \in Conns, b \in Bodies : Send(k, b) \/ Quit(k, b) \/ SendNew(k, b) \/ SendReplacing(k, b)
    \/ \E k \in Conns, s \in Sequences : Retry(k, s) \/ Acknowledge(k, s)
    \/ \E k \in Conns : StartWriter(k) \/ Flushed(k) \/ WriteFails(k) \/ Close(k)

\* Timers fire and the reactor starts the writer.  Whether a frame is ever
\* flushed depends on the client.
DeliveryFairness ==
    /\ \A k \in Conns, s \in Sequences : WF_deliveryVars(Retry(k, s))
    /\ \A k \in Conns : WF_deliveryVars(StartWriter(k))

DeliverySafeSpec == DeliveryInit /\ [][DeliveryNext]_deliveryVars
DeliverySpec == DeliverySafeSpec /\ DeliveryFairness
-----------------------------------------------------------------------------
\* The counters kept by hand are what the entries hold: _write_bytes the queued
\* frames and the one on the wire, _reliable_bytes and the units of the budget
\* the bodies in the table.  They stay within the limit, so that the unsigned
\* differences of send and send_reliable never wrap, and a closed connection
\* holds nothing, as its destructor asserts.  All connections together hold no
\* more than the shard's two budgets, though frames on the wire outlive close()
\* and a replaced push is charged for the difference only.
Accounted ==
    /\ \A k \in Conns :
        /\ writeBytes[k] = IF k \in closed THEN 0 ELSE SumBytes(Held(k))
        /\ reliableBytes[k] = SumFunction([e \in reliable[k] |-> Size[e.body]])
        /\ \A e \in reliable[k] : e.units = Size[e.body]
        /\ writeBytes[k] <= MaxBytes /\ reliableBytes[k] <= MaxBytes
        /\ k \in closed => writes[k] = << >> /\ reliable[k] = {}
    /\ FramesInUse <= WriteEntries /\ FrameBytesInUse <= WriteBytes
    /\ PushesInUse <= ReliableEntries /\ PushBytesInUse <= ReliableBytes

\* What is queued for a number is its newest body, not acknowledged since it was
\* accepted, and at most the third copy of it.
ResendIsDue ==
    [][\A b \in Bodies :
          copies'[b] # copies[b] /\ Sequence[b] > 0 => b \in due' /\ copies'[b] <= 3]_deliveryVars

\* Every reliable push leaves the table, even if the client neither reads nor
\* acknowledges: it is acknowledged, replaced, given up, or the connection closes.
PushSettles ==
    \A b \in Bodies :
        (\E e \in AllEntries : e.body = b) ~> ~\E e \in AllEntries : e.body = b
=============================================================================
