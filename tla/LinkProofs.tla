----------------------------- MODULE LinkProofs -----------------------------
(***************************************************************************)
(* Theorems about CommandLink, for any number of nodes, calls, commands    *)
(* and lost connections: what the Gateway's table, its links and Message's *)
(* streams know of each other, and that neither a command nor driver::stop *)
(* waits for what cannot come.                                             *)
(***************************************************************************)
EXTENDS CommandLink, FiniteSetTheorems, TLAPS

\* Leaves that are not marked SMTT are for Zenon.
USE ZenonT(90)

UpFrames == {Frame("register", None), Frame("ack", None)} \cup {Frame("command", c) : c \in Commands}
DownFrames == {Frame("registered", None), Frame("push", None)} \cup {Frame("result", c) : c \in Commands}
Alive == {"open", "stopping"}
-----------------------------------------------------------------------------
(* The Gateway.                                                            *)

LinkTypes ==
    /\ current \in [Nodes -> Links \cup {None}] /\ control \in Nodes \cup {"idle", "ended"}
    /\ link \in [Links -> Alive \cup {"absent", "finished"}] 
    /\ writing \subseteq Links /\ healthy \subseteq Links
    /\ out \in [Links -> Seq(UpFrames)]
    /\ pending \in [Commands -> Links \cup {None}] /\ inflight \in [Links -> Int]

\* A link that is alive is the one of its node; what it has queued is with gRPC
\* once it stops; the commands it has in flight are the pending ones.
LinkSound(l) ==
    /\ link[l] \in Alive => current[NodeOf[l]] = l
    /\ l \in healthy => link[l] = "open"
    /\ l \in writing => link[l] \in Alive /\ out[l] # << >>
    /\ link[l] = "stopping" => l \in broken /\ (l \notin writing => out[l] = << >>)
    /\ link[l] \notin Alive => out[l] = << >> /\ On(l) = {}
    /\ inflight[l] = Cardinality(On(l))

\* The control loop has ended before stop returns, with no link alive.
Ended ==
    /\ control = "ended" => stopping
    /\ stopped => control = "ended" /\ \A l \in Links : link[l] \notin Alive

LinkInv == LinkTypes /\ IsFiniteSet(Pending) /\ (\A l \in Links : LinkSound(l)) /\ Ended
-----------------------------------------------------------------------------
(* Message.                                                                *)

StreamTypes ==
    /\ stream \in [Links -> Alive \cup {"absent", "finishing", "finished"}]
    /\ registered \in [Nodes -> Links \cup {None}] /\ replies \in [Links -> Seq(DownFrames)]

\* A frame that gRPC has belongs to a stream that is not finishing yet.
StreamSound(l) == l \in sending => stream[l] \in Alive /\ replies[l] # << >>

RegisteredSound(n) ==
    registered[n] # None =>
        NodeOf[registered[n]] = n /\ stream[registered[n]] \in Alive \cup {"finishing"}

StreamInv ==
    StreamTypes /\ (\A l \in Links : StreamSound(l)) /\ (\A n \in Nodes : RegisteredSound(n))
-----------------------------------------------------------------------------
(* One command on its way.                                                 *)

Has(q, f) == \E i \in DOMAIN q : q[i] = f
Once(q, f) == \A i, j \in DOMAIN q : q[i] = f /\ q[j] = f => i = j

Leaving(c, l) == Has(out[l], Frame("command", c))
Arriving(c, l) == Has(up[l], Frame("command", c))
Executing(c, l) == <<c, l>> \in executing
Answered(c, l) == Has(replies[l], Frame("result", c))
Returning(c, l) == Has(down[l], Frame("result", c))
Underway(c, l) ==
    Leaving(c, l) \/ Arriving(c, l) \/ Executing(c, l) \/ Answered(c, l) \/ Returning(c, l)

\* A command is in one place, once.
OnePlace(c, l) ==
    /\ Leaving(c, l) => ~(Arriving(c, l) \/ Executing(c, l) \/ Answered(c, l) \/ Returning(c, l))
    /\ Arriving(c, l) => ~(Executing(c, l) \/ Answered(c, l) \/ Returning(c, l))
    /\ Executing(c, l) => ~(Answered(c, l) \/ Returning(c, l))
    /\ Answered(c, l) => ~Returning(c, l)
    /\ Once(out[l], Frame("command", c)) /\ Once(up[l], Frame("command", c))
    /\ Once(replies[l], Frame("result", c)) /\ Once(down[l], Frame("result", c))

\* A command under way on a link is pending there, or its connection has closed,
\* or the link is over.  One that is not sent is nowhere.
TraceSound(c, l) ==
    /\ OnePlace(c, l)
    /\ Underway(c, l) => pending[c] = l \/ Connection[c] \in closed \/ link[l] = "finished"
    /\ outcome[c] \in {"new", "queued"} => ~Underway(c, l)

\* If the answer of c could be taken for that of d, nobody waits for that of d.
Mistaken(c, d, l) ==
    Underway(c, l) /\ pending[d] = l /\ Correlation[c] = Correlation[d] /\ c # d
        => Connection[d] \in closed

TraceTypes ==
    /\ outcome \in [Commands -> {"new", "queued", "sent", "waiting", "result", "foreign", "failed",
                                 "cancelled", "refused"}]
    /\ up \in [Links -> Seq(UpFrames)] /\ down \in [Links -> Seq(DownFrames)]
    /\ \A c \in Commands : outcome[c] \in {"new", "queued"} => pending[c] = None

TraceInv ==
    /\ TraceTypes
    /\ \A c \in Commands, l \in Links : TraceSound(c, l)
    /\ \A c, d \in Commands, l \in Links : Mistaken(c, d, l)
    /\ ResultIsOwn
-----------------------------------------------------------------------------
\* What a queue of frames has after a frame is added, taken, or all but the
\* first are dropped.
LEMMA AppendHas ==
    ASSUME NEW S, NEW q \in Seq(S), NEW f \in S, NEW g
    PROVE  /\ Append(q, f) \in Seq(S) /\ Append(q, f) # << >>
           /\ Has(Append(q, f), g) <=> Has(q, g) \/ f = g
           /\ Once(q, g) /\ (Has(q, g) => f # g) => Once(Append(q, f), g)
<1>1. /\ Append(q, f) \in Seq(S) /\ Len(Append(q, f)) = Len(q) + 1
      /\ \A i \in 1..Len(q) : Append(q, f)[i] = q[i]
      /\ Append(q, f)[Len(q) + 1] = f
      /\ DOMAIN q = 1..Len(q) /\ DOMAIN Append(q, f) = 1..(Len(q) + 1) /\ Len(q) \in Nat
  BY SMTT(30)
<1>2. DOMAIN Append(q, f) = DOMAIN q \cup {Len(q) + 1}
  BY SMTT(30), <1>1
<1>3. Has(Append(q, f), g) <=> Has(q, g) \/ f = g
  BY <1>1, <1>2 DEF Has
<1>4. Once(q, g) /\ (Has(q, g) => f # g) => Once(Append(q, f), g)
  BY <1>1, <1>2 DEF Has, Once
<1>5. Append(q, f) # << >>
  BY SMTT(30), <1>1
<1> QED BY <1>1, <1>3, <1>4, <1>5

LEMMA TailHas ==
    ASSUME NEW S, NEW q \in Seq(S), q # << >>, NEW g
    PROVE  /\ Head(q) \in S /\ Tail(q) \in Seq(S) /\ <<Head(q)>> \in Seq(S)
           /\ <<Head(q)>> # << >> /\ Has(q, Head(q))
           /\ Has(Tail(q), g) => Has(q, g)
           /\ Has(<<Head(q)>>, g) => Has(q, g)
           /\ Once(<<Head(q)>>, g)
           /\ Once(q, g) => Once(Tail(q), g) /\ (Head(q) = g => ~Has(Tail(q), g))
           /\ Has(q, g) => Head(q) = g \/ Has(Tail(q), g)
<1>1. /\ Len(q) \in Nat \ {0} /\ DOMAIN q = 1..Len(q) /\ Head(q) = q[1] /\ Head(q) \in S
      /\ Tail(q) \in Seq(S) /\ DOMAIN Tail(q) = 1..(Len(q) - 1)
      /\ \A i \in 1..(Len(q) - 1) : Tail(q)[i] = q[i + 1]
  BY SMTT(30)
<1>2. <<Head(q)>> \in Seq(S) /\ DOMAIN <<Head(q)>> = {1} /\ <<Head(q)>>[1] = Head(q) /\ <<Head(q)>> # << >>
  BY SMTT(30), <1>1
<1>3. 1 \in DOMAIN q
  BY SMTT(30), <1>1
<1>4. Has(q, Head(q)) /\ (Has(<<Head(q)>>, g) => Has(q, g)) /\ Once(<<Head(q)>>, g)
  BY <1>1, <1>2, <1>3 DEF Has, Once
<1>5. Has(Tail(q), g) => Has(q, g)
  BY SMTT(30), <1>1 DEF Has
<1>6. Once(q, g) => Once(Tail(q), g)
  BY SMTT(30), <1>1 DEF Once
<1>7. Once(q, g) /\ Head(q) = g => ~Has(Tail(q), g)
  BY SMTT(30), <1>1 DEF Once, Has
<1>8. Has(q, g) => Head(q) = g \/ Has(Tail(q), g)
  <2>1. ASSUME NEW i \in DOMAIN q, q[i] = g, i # 1 PROVE Has(Tail(q), g)
    <3>1. i - 1 \in DOMAIN Tail(q) /\ Tail(q)[i - 1] = q[i]
      BY SMTT(30), <1>1, <2>1
    <3> QED BY <2>1, <3>1 DEF Has
  <2> QED BY <1>1, <2>1 DEF Has
<1> QED BY <1>1, <1>2, <1>4, <1>5, <1>6, <1>7, <1>8

LEMMA EmptyHas ==
    ASSUME NEW S, NEW g
    PROVE  << >> \in Seq(S) /\ ~Has(<< >>, g) /\ Once(<< >>, g)
<1>1. << >> \in Seq(S) /\ DOMAIN << >> = {}
  BY SMTT(30)
<1> QED BY <1>1 DEF Has, Once

\* Frames are told apart by their kind and command.
LEMMA Frames ==
    /\ \A k, m, c, d : Frame(k, c) = Frame(m, d) <=> k = m /\ c = d
    /\ \A k, c : Frame(k, c).kind = k /\ Frame(k, c).cmd = c
BY DEF Frame
-----------------------------------------------------------------------------
(* The Gateway keeps its invariant.                                        *)

\* A step that changes nothing of it.
LEMMA LinkRests ==
    ASSUME LinkInv, UNCHANGED <<current, control, stopping, stopped, link, healthy, writing, out, pending, inflight>>,
           broken \subseteq broken'
    PROVE  LinkInv'
<1>1. LinkTypes' /\ Ended'
  BY DEF LinkInv, LinkTypes, Ended
<1>2. Pending' = Pending /\ \A l \in Links : On(l)' = On(l)
  BY DEF Pending, On
<1>3. ASSUME NEW l \in Links PROVE LinkSound(l)'
  BY <1>2 DEF LinkInv, LinkSound
<1> QED BY <1>1, <1>2, <1>3 DEF LinkInv

\* A step of the links that leaves the table of commands alone.
LEMMA LinkMoves ==
    ASSUME LinkInv, UNCHANGED <<pending, inflight>>, LinkTypes', Ended',
           \A l \in Links :
               /\ link[l] \in Alive => link'[l] \in Alive
               /\ link'[l] \in Alive => current'[NodeOf[l]] = l
               /\ l \in healthy' => link'[l] = "open"
               /\ l \in writing' => link'[l] \in Alive /\ out'[l] # << >>
               /\ link'[l] = "stopping" => l \in broken' /\ (l \notin writing' => out'[l] = << >>)
               /\ link'[l] \notin Alive => out'[l] = << >>
    PROVE  LinkInv'
<1>1. Pending' = Pending /\ \A l \in Links : On(l)' = On(l)
  BY DEF Pending, On
<1>2. ASSUME NEW l \in Links PROVE LinkSound(l)'
  <2>1. LinkSound(l) /\ On(l)' = On(l)
    BY <1>1 DEF LinkInv
  <2> QED BY <2>1 DEF LinkSound, Alive
<1> QED BY <1>1, <1>2 DEF LinkInv

\* The frame that gRPC has is there.
LEMMA FirstFrame ==
    ASSUME LinkInv, NEW l \in Links, out[l] # << >>
    PROVE  /\ out[l] \in Seq(UpFrames) /\ Head(out[l]) \in UpFrames /\ Tail(out[l]) \in Seq(UpFrames)
           /\ <<Head(out[l])>> \in Seq(UpFrames) /\ <<Head(out[l])>> # << >>
<1>1. out[l] \in Seq(UpFrames)
  BY DEF LinkInv, LinkTypes
<1> QED BY <1>1, TailHas

\* message_link::stop.
LEMMA StopLinksKeeps ==
    ASSUME LinkInv, NEW S, StopLinks(S), UNCHANGED <<current, writing, pending, inflight>>,
           control' \in Nodes \cup {"idle", "ended"}, control' = "ended" => stopping',
           stopped' => control' = "ended" /\ stopped
    PROVE  LinkInv'
<1> DEFINE T == {l \in S : link[l] = "open"}
<1>1. \A l \in Links : LinkSound(l)
  BY DEF LinkInv
<1>2. ASSUME NEW l \in Links
      PROVE  /\ link'[l] = IF l \in T THEN "stopping" ELSE link[l]
             /\ out'[l] = IF l \in T THEN IF l \in writing THEN <<Head(out[l])>> ELSE << >> ELSE out[l]
  BY DEF StopLinks
<1>3. healthy' = healthy \ T /\ broken' = broken \cup T
  BY DEF StopLinks
<1>4. ASSUME NEW l \in Links PROVE out'[l] \in Seq(UpFrames) /\ (l \in writing => out'[l] # << >>)
  <2>1. l \in writing => out[l] # << >>
    BY <1>1 DEF LinkSound
  <2>2. out[l] \in Seq(UpFrames) /\ << >> \in Seq(UpFrames)
    BY EmptyHas DEF LinkInv, LinkTypes
  <2> QED BY <1>2, <2>1, <2>2, FirstFrame
<1>5. LinkTypes'
  <2>1. link' \in [Links -> Alive \cup {"absent", "finished"}]
    BY DEF LinkInv, LinkTypes, StopLinks, Alive
  <2>2. out' \in [Links -> Seq(UpFrames)]
    BY <1>4 DEF StopLinks
  <2> QED BY <1>3, <2>1, <2>2 DEF LinkInv, LinkTypes
<1>6. Ended'
  BY <1>2 DEF LinkInv, Ended, Alive
<1>7. ASSUME NEW l \in Links
      PROVE  /\ link[l] \in Alive => link'[l] \in Alive
             /\ link'[l] \in Alive => link[l] \in Alive
             /\ l \in healthy' => link'[l] = "open"
             /\ link'[l] = "stopping" => l \in broken' /\ (l \notin writing' => out'[l] = << >>)
             /\ link'[l] \notin Alive => out'[l] = << >>
  BY <1>1, <1>2, <1>3 DEF LinkSound, Alive
<1>8. ASSUME NEW l \in Links
      PROVE  /\ link'[l] \in Alive => current'[NodeOf[l]] = l
             /\ l \in writing' => link'[l] \in Alive /\ out'[l] # << >>
  BY <1>1, <1>4, <1>7 DEF LinkSound
<1> QED BY <1>5, <1>6, <1>7, <1>8, LinkMoves

\* The steps that stop links: a failed read, a topology change, abort and stop.
LEMMA StoppingKeeps ==
    ASSUME LinkInv, \/ \E l \in Links : ReadFails(l)
                    \/ \E n \in Nodes : Retire(n) \/ CloseLink(n)
                    \/ Abort
    PROVE  LinkInv'
<1>1. control \in Nodes \cup {"idle", "ended"} /\ (control = "ended" => stopping) /\ (stopped => control = "ended")
  BY DEF LinkInv, LinkTypes, Ended
<1>2. ASSUME NEW l \in Links, ReadFails(l) PROVE LinkInv'
  BY <1>1, <1>2, StopLinksKeeps DEF ReadFails, gate, table
<1>3. ASSUME NEW n \in Nodes, Retire(n) PROVE LinkInv'
  <2>1. control' \in Nodes /\ control' # "ended" /\ ~stopped
    BY <1>1, <1>3, LinkConstants DEF Retire, Visits
  <2> QED BY <1>3, <2>1, StopLinksKeeps DEF Retire, table
<1>4. ASSUME NEW n \in Nodes, CloseLink(n) PROVE LinkInv'
  BY <1>1, <1>4, StopLinksKeeps DEF CloseLink, gate, table
<1>5. CASE Abort
  BY <1>1, <1>5, StopLinksKeeps DEF Abort
<1> QED BY <1>2, <1>3, <1>4, <1>5

\* A frame is handed to gRPC.
LEMMA WriteStartKeeps ==
    ASSUME LinkInv, NEW l \in Links, WriteStart(l)
    PROVE  LinkInv'
<1>1. LinkTypes' /\ Ended'
  BY DEF WriteStart, gate, table, LinkInv, LinkTypes, Ended
<1>2. link[l] = "open" /\ out[l] # << >> /\ writing' = writing \cup {l}
      /\ UNCHANGED <<current, link, healthy, out, pending, inflight, broken>>
  BY DEF WriteStart, gate, table
<1>3. \A k \in Links : LinkSound(k)
  BY DEF LinkInv
<1> QED BY <1>1, <1>2, <1>3, LinkMoves DEF LinkSound, Alive

\* A frame is on the wire, or lost with the call, which stops the link.
LEMMA WriteDoneKeeps ==
    ASSUME LinkInv, NEW l \in Links, WriteDone(l)
    PROVE  LinkInv'
<1>1. /\ l \in writing /\ writing' = writing \ {l}
      /\ UNCHANGED <<current, control, stopping, stopped, pending, inflight, broken>>
  BY DEF WriteDone, gate, table
<1>2. (\A k \in Links : LinkSound(k)) /\ link[l] \in Alive /\ out[l] # << >>
  BY <1>1 DEF LinkInv, LinkSound
<1>3. CASE l \notin broken /\ out' = [out EXCEPT ![l] = Tail(@)] /\ UNCHANGED <<link, healthy>>
  <2>1. out'[l] \in Seq(UpFrames) /\ \A k \in Links \ {l} : out'[k] = out[k]
    BY <1>2, <1>3, FirstFrame DEF LinkInv, LinkTypes
  <2>2. LinkTypes' /\ Ended'
    BY <1>1, <1>2, <1>3, FirstFrame DEF LinkInv, LinkTypes, Ended
  <2>3. link[l] = "open"
    BY <1>2, <1>3 DEF LinkSound, Alive
  <2> QED BY <1>1, <1>2, <1>3, <2>1, <2>2, <2>3, LinkMoves DEF LinkSound, Alive
<1>4. CASE /\ l \in broken /\ link' = [link EXCEPT ![l] = "stopping"] /\ healthy' = healthy \ {l}
           /\ out' = [out EXCEPT ![l] = << >>]
  <2>1. /\ out'[l] = << >> /\ link'[l] = "stopping"
        /\ \A k \in Links \ {l} : out'[k] = out[k] /\ link'[k] = link[k]
    BY <1>4 DEF LinkInv, LinkTypes
  <2>2. LinkTypes'
    BY <1>1, <1>4, EmptyHas DEF LinkInv, LinkTypes, Alive
  <2>3. Ended'
    BY <1>1, <1>2 DEF LinkInv, Ended
  <2> QED BY <1>1, <1>2, <1>4, <2>1, <2>2, <2>3, LinkMoves DEF LinkSound, Alive
<1> QED BY <1>3, <1>4 DEF WriteDone

\* grpc_control opens a link for a node that has none alive.
LEMMA OpenKeeps ==
    ASSUME LinkInv, NEW n \in Nodes, Connect(n) \/ Replace(n)
    PROVE  LinkInv'
<1>1. /\ control \in {"idle", n} /\ control' = "idle"
      /\ UNCHANGED <<stopping, stopped, healthy, writing, pending, inflight>>
  BY DEF Connect, Visits, Replace, table
<1>2. (\A k \in Links : LinkSound(k)) /\ ~stopped /\ ~stopped'
  BY <1>1, LinkConstants DEF LinkInv, Ended
<1>3. ASSUME NEW k \in Links, NodeOf[k] = n PROVE link[k] \notin Alive
  BY <1>2, <1>3, LinkConstants DEF Connect, Replace, Drained, LinkSound, Alive
<1>4. Ended'
  BY <1>1, <1>2 DEF Ended
<1>5. ASSUME NEW l \in Links, OpenLink(n, l) PROVE LinkInv'
  <2>1. link[l] = "absent" /\ NodeOf[l] = n /\ current' = [current EXCEPT ![n] = l]
    BY <1>5 DEF OpenLink
  <2>2. l \notin healthy \cup writing /\ out[l] = << >> /\ out[l] \in Seq(UpFrames)
    BY <1>2, <2>1 DEF LinkSound, LinkInv, LinkTypes, Alive
  <2>3. \/ /\ link' = [link EXCEPT ![l] = "open"] /\ UNCHANGED broken
           /\ out' = [out EXCEPT ![l] = Append(@, Frame("register", None))]
        \/ link' = [link EXCEPT ![l] = "stopping"] /\ broken' = broken \cup {l} /\ out' = out
    BY <1>5 DEF OpenLink, Enqueue
  <2>4. LinkTypes'
    <3>1. Append(out[l], Frame("register", None)) \in Seq(UpFrames)
      BY <2>2, AppendHas DEF UpFrames
    <3> QED BY <1>1, <2>1, <2>3, <3>1 DEF LinkInv, LinkTypes, Alive
  <2>5. /\ link'[l] \in Alive /\ current'[n] = l
        /\ link'[l] = "stopping" => l \in broken' /\ out'[l] = << >>
    BY <2>1, <2>2, <2>3 DEF LinkInv, LinkTypes, Alive
  <2>6. broken \subseteq broken' /\ \A k \in Links \ {l} : link'[k] = link[k] /\ out'[k] = out[k]
    BY <2>3 DEF LinkInv, LinkTypes
  <2>7. \A k \in Links \ {l} : link[k] \in Alive => current'[NodeOf[k]] = current[NodeOf[k]]
    BY <1>3, <2>1, LinkConstants DEF LinkInv, LinkTypes
  <2>8. ASSUME NEW k \in Links
        PROVE  /\ link[k] \in Alive => link'[k] \in Alive
               /\ link'[k] \in Alive => current'[NodeOf[k]] = k
               /\ k \in healthy' => link'[k] = "open"
               /\ k \in writing' => link'[k] \in Alive /\ out'[k] # << >>
               /\ link'[k] = "stopping" => k \in broken' /\ (k \notin writing' => out'[k] = << >>)
               /\ link'[k] \notin Alive => out'[k] = << >>
    <3>1. CASE k = l
      BY <1>1, <2>1, <2>2, <2>5, <3>1
    <3>2. CASE k # l
      BY <1>1, <1>2, <2>6, <2>7, <3>2 DEF LinkSound
    <3> QED BY <3>1, <3>2
  <2> QED BY <1>1, <1>4, <2>4, <2>8, LinkMoves
<1>6. CASE current' = [current EXCEPT ![n] = None] /\ UNCHANGED <<link, reading, out, broken>>
  <2>1. LinkTypes'
    BY <1>1, <1>6 DEF LinkInv, LinkTypes
  <2>2. \A k \in Links : link[k] \in Alive => current'[NodeOf[k]] = current[NodeOf[k]]
    BY <1>3, <1>6, LinkConstants DEF LinkInv, LinkTypes
  <2> QED BY <1>1, <1>2, <1>4, <1>6, <2>1, <2>2, LinkMoves DEF LinkSound
<1> QED BY <1>5, <1>6 DEF Connect, Replace

\* The control loop ends, and stop returns when no link is alive.
LEMMA ControlEndsKeeps ==
    ASSUME LinkInv, ControlEnds \/ StopReturns
    PROVE  LinkInv'
<1>1. \A l \in Links : LinkSound(l)
  BY DEF LinkInv
<1>2. UNCHANGED <<link, healthy, out, writing, pending, inflight, broken>>
  BY DEF ControlEnds, StopReturns, glink, table
<1>3. CASE ControlEnds
  <2>1. LinkTypes' /\ Ended' /\ UNCHANGED current
    BY <1>2, <1>3, LinkConstants DEF ControlEnds, LinkInv, LinkTypes, Ended
  <2> QED BY <1>1, <1>2, <2>1, LinkMoves DEF LinkSound
<1>4. CASE StopReturns
  <2>1. \A l \in Links : link[l] \notin Alive
    <3> SUFFICES ASSUME NEW l \in Links, link[l] \in Alive PROVE FALSE
      OBVIOUS
    <3>1. NodeOf[l] \in Nodes /\ l # None /\ current[NodeOf[l]] = l
      BY <1>1, LinkConstants DEF LinkSound
    <3>2. link[l] = "finished"
      BY <1>4, <3>1 DEF StopReturns, Drained
    <3> QED BY <3>2 DEF Alive
  <2>2. LinkTypes' /\ Ended'
    BY <1>2, <1>4, <2>1 DEF StopReturns, LinkInv, LinkTypes, Ended
  <2> QED BY <1>1, <1>2, <2>1, <2>2, LinkMoves DEF LinkSound, Alive
<1> QED BY <1>3, <1>4
-----------------------------------------------------------------------------
(* The table of pending commands.                                          *)

\* What is left when the commands of R are taken out of the table.
LEMMA Forgets ==
    ASSUME LinkInv, NEW R, R \subseteq Commands,
           pending' = [c \in Commands |-> IF c \in R THEN None ELSE pending[c]]
    PROVE  /\ IsFiniteSet(Pending') /\ pending' \in [Commands -> Links \cup {None}]
           /\ \A l \in Links : /\ On(l)' = On(l) \ R /\ IsFiniteSet(On(l))
                               /\ Cardinality(On(l)') = Cardinality(On(l)) - Cardinality(R \cap On(l))
<1>1. pending \in [Commands -> Links \cup {None}] /\ IsFiniteSet(Pending)
  BY DEF LinkInv, LinkTypes
<1>2. Pending' \subseteq Pending
  BY DEF Pending
<1>3. IsFiniteSet(Pending')
  BY <1>1, <1>2, FS_Subset
<1>4. ASSUME NEW l \in Links
      PROVE  /\ On(l)' = On(l) \ R /\ IsFiniteSet(On(l))
             /\ Cardinality(On(l)') = Cardinality(On(l)) - Cardinality(R \cap On(l))
  <2>1. On(l)' = On(l) \ R
    BY LinkConstants DEF On
  <2>2. On(l) \subseteq Pending
    BY LinkConstants DEF On, Pending
  <2>3. IsFiniteSet(On(l))
    BY <1>1, <2>2, FS_Subset
  <2>4. Cardinality(On(l) \ R) = Cardinality(On(l)) - Cardinality(On(l) \cap R)
    BY <2>3, FS_Difference
  <2>5. On(l) \cap R = R \cap On(l)
    OBVIOUS
  <2> QED BY <2>1, <2>3, <2>4, <2>5
<1> QED BY <1>1, <1>3, <1>4

\* A step that only takes commands out of the table, and counts them.
LEMMA ForgetKeeps ==
    ASSUME LinkInv, NEW R, R \subseteq Commands,
           pending' = [c \in Commands |-> IF c \in R THEN None ELSE pending[c]],
           inflight' = [l \in Links |-> inflight[l] - Cardinality(R \cap On(l))],
           UNCHANGED <<current, control, stopping, stopped, healthy, out, writing, broken>>,
           link' \in [Links -> Alive \cup {"absent", "finished"}],
           \A l \in Links : link'[l] # link[l] =>
               On(l) \subseteq R /\ link[l] = "stopping" /\ link'[l] = "finished" /\ l \notin writing
    PROVE  LinkInv'
<1>1. \A l \in Links : LinkSound(l) /\ inflight[l] \in Int
  BY DEF LinkInv, LinkTypes
<1>2. \A l \in Links : /\ On(l)' = On(l) \ R /\ IsFiniteSet(On(l))
                       /\ Cardinality(On(l)') = Cardinality(On(l)) - Cardinality(R \cap On(l))
  BY Forgets
<1>3. IsFiniteSet(Pending') /\ pending' \in [Commands -> Links \cup {None}]
  BY Forgets
<1>4. ASSUME NEW l \in Links PROVE inflight'[l] = Cardinality(On(l)') /\ inflight'[l] \in Int
  <2>1. On(l)' \subseteq On(l) /\ IsFiniteSet(On(l)')
    BY <1>2, FS_Subset
  <2>2. Cardinality(On(l)') \in Nat
    BY <2>1, FS_CardinalityType
  <2>3. Cardinality(On(l)') \in Int
    BY SMTT(30), <2>2
  <2> QED BY <1>1, <1>2, <2>3 DEF LinkSound
<1>5. LinkTypes'
  BY <1>3, <1>4 DEF LinkInv, LinkTypes
<1>6. Ended'
  BY DEF LinkInv, Ended, Alive
<1>7. ASSUME NEW l \in Links PROVE LinkSound(l)'
  <2>1. LinkSound(l) /\ On(l)' = On(l) \ R /\ inflight'[l] = Cardinality(On(l)')
    BY <1>1, <1>2, <1>4
  <2>2. CASE link'[l] = link[l]
    BY <2>1, <2>2 DEF LinkSound
  <2>3. CASE link'[l] # link[l]
    <3>1. link'[l] = "finished" /\ link[l] = "stopping" /\ l \notin writing /\ On(l)' = {}
      BY <2>1, <2>3
    <3> QED BY <2>1, <3>1 DEF LinkSound, Alive
  <2> QED BY <2>2, <2>3
<1> QED BY <1>3, <1>5, <1>6, <1>7 DEF LinkInv

\* The budget of one link goes down by the commands taken from it.
LEMMA FromOneLink ==
    ASSUME LinkInv, NEW l \in Links, NEW R, R \subseteq On(l),
           inflight' = [inflight EXCEPT ![l] = @ - Cardinality(R)]
    PROVE  inflight' = [k \in Links |-> inflight[k] - Cardinality(R \cap On(k))]
<1>1. inflight \in [Links -> Int]
  BY DEF LinkInv, LinkTypes
<1>2. R \cap On(l) = R
  OBVIOUS
<1>3. ASSUME NEW k \in Links, k # l PROVE inflight[k] - Cardinality(R \cap On(k)) = inflight[k]
  <2>1. R \cap On(k) = {}
    BY <1>3 DEF On
  <2>2. Cardinality(R \cap On(k)) = 0
    BY <2>1, FS_EmptySet
  <2> QED BY SMTT(30), <1>1, <2>2
<1> QED BY <1>1, <1>2, <1>3

\* message_link::OnDone.
LEMMA OnDoneKeeps ==
    ASSUME LinkInv, NEW l \in Links, OnDone(l)
    PROVE  LinkInv'
<1>1. inflight' = [k \in Links |-> inflight[k] - Cardinality(On(l) \cap On(k))]
  BY FromOneLink DEF OnDone
<1>2. On(l) \subseteq Commands
  BY DEF On
<1>3. link' \in [Links -> Alive \cup {"absent", "finished"}]
  BY DEF OnDone, LinkInv, LinkTypes
<1>4. \A k \in Links : link'[k] # link[k] =>
          On(k) \subseteq On(l) /\ link[k] = "stopping" /\ link'[k] = "finished" /\ k \notin writing
  BY DEF OnDone, LinkInv, LinkTypes
<1> QED BY <1>1, <1>2, <1>3, <1>4, ForgetKeeps DEF OnDone, gate

\* driver::cancel, by connection::close and by forward.
LEMMA CancelKeeps ==
    ASSUME LinkInv, \/ \E c \in Commands : Resume(c)
                    \/ \E k : CloseConnection(k)
    PROVE  LinkInv'
<1>1. UNCHANGED <<current, control, stopping, stopped, link, healthy, out, writing, broken>>
  BY DEF Resume, CloseConnection, gate, glink
<1>2. ASSUME NEW k, Cancel(k) PROVE LinkInv'
  <2>1. CancelOf(k) \subseteq Commands
    BY DEF CancelOf, Pending
  <2>2. link \in [Links -> Alive \cup {"absent", "finished"}]
    BY DEF LinkInv, LinkTypes
  <2> QED BY <1>1, <1>2, <2>1, <2>2, ForgetKeeps DEF Cancel
<1>3. CASE UNCHANGED <<pending, inflight>>
  BY <1>1, <1>3, LinkRests
<1> QED BY <1>2, <1>3 DEF Resume, CloseConnection

\* message_link::OnReadDone(true).
LEMMA ReadFrameKeeps ==
    ASSUME LinkInv, NEW l \in Links, ReadFrame(l)
    PROVE  LinkInv'
<1> DEFINE f == Head(down[l])
<1>1. UNCHANGED <<current, control, stopping, stopped, writing>>
  BY DEF ReadFrame, gate
<1>2. \A k \in Links : LinkSound(k)
  BY DEF LinkInv
<1>3. CASE healthy' \subseteq healthy \cup {l} /\ (l \in healthy' => link[l] = "open")
           /\ UNCHANGED <<link, out, broken, table>>
  <2>1. LinkTypes' /\ Ended'
    BY <1>1, <1>3 DEF LinkInv, LinkTypes, Ended, table
  <2> QED BY <1>1, <1>2, <1>3, <2>1, LinkMoves DEF LinkSound, table
<1>4. CASE /\ pending' = [c \in Commands |-> IF c \in Resolves(l, f.cmd) THEN None ELSE pending[c]]
           /\ inflight' = [inflight EXCEPT ![l] = @ - Cardinality(Resolves(l, f.cmd))]
           /\ UNCHANGED <<link, healthy, out, broken>>
  <2>1. Resolves(l, f.cmd) \subseteq On(l) /\ Resolves(l, f.cmd) \subseteq Commands
    BY DEF Resolves, On
  <2>2. inflight' = [k \in Links |-> inflight[k] - Cardinality(Resolves(l, f.cmd) \cap On(k))]
    BY <1>4, <2>1, FromOneLink
  <2>3. link \in [Links -> Alive \cup {"absent", "finished"}]
    BY DEF LinkInv, LinkTypes
  <2> HIDE DEF f
  <2> QED BY <1>1, <1>4, <2>1, <2>2, <2>3, ForgetKeeps
<1>5. CASE CanEnqueue(l) /\ Enqueue(l, Frame("ack", None)) /\ UNCHANGED <<link, healthy, broken, table>>
  <2>1. link[l] = "open" /\ out[l] \in Seq(UpFrames) /\ Frame("ack", None) \in UpFrames
    BY <1>5 DEF CanEnqueue, LinkInv, LinkTypes, UpFrames
  <2>2. Append(out[l], Frame("ack", None)) \in Seq(UpFrames) /\ Append(out[l], Frame("ack", None)) # << >>
    BY <2>1, AppendHas
  <2>3. out'[l] # << >> /\ \A k \in Links \ {l} : out'[k] = out[k]
    BY <1>5, <2>2 DEF Enqueue, LinkInv, LinkTypes
  <2>4. LinkTypes' /\ Ended'
    BY <1>1, <1>5, <2>2 DEF Enqueue, LinkInv, LinkTypes, Ended, table
  <2> QED BY <1>1, <1>2, <1>5, <2>1, <2>3, <2>4, LinkMoves DEF LinkSound, table, Alive
<1>6. CASE StopLinks({l}) /\ UNCHANGED table
  BY <1>1, <1>6, StopLinksKeeps DEF table, LinkInv, LinkTypes, Ended
<1> HIDE DEF f
<1>7. \/ /\ healthy' = IF link[l] = "open" THEN healthy \cup {l} ELSE healthy
         /\ UNCHANGED <<link, out, broken, table>>
      \/ /\ pending' = [c \in Commands |-> IF c \in Resolves(l, f.cmd) THEN None ELSE pending[c]]
         /\ inflight' = [inflight EXCEPT ![l] = @ - Cardinality(Resolves(l, f.cmd))]
         /\ UNCHANGED <<link, healthy, out, broken>>
      \/ CanEnqueue(l) /\ Enqueue(l, Frame("ack", None)) /\ UNCHANGED <<link, healthy, broken, table>>
      \/ StopLinks({l}) /\ UNCHANGED table
  BY DEF ReadFrame, f
<1>8. ASSUME healthy' = IF link[l] = "open" THEN healthy \cup {l} ELSE healthy
      PROVE  healthy' \subseteq healthy \cup {l} /\ (l \in healthy' => link[l] = "open")
  BY <1>2, <1>8 DEF LinkSound
<1> QED BY <1>3, <1>4, <1>5, <1>6, <1>7, <1>8

\* driver::execute for send_command: the link is registered, hence open.
LEMMA ExecuteKeeps ==
    ASSUME LinkInv, NEW c \in Commands, Execute(c), pending[c] = None
    PROVE  LinkInv'
<1>1. UNCHANGED <<current, control, stopping, stopped, link, healthy, writing, broken>>
  BY DEF Execute, gate
<1>2. \A k \in Links : LinkSound(k)
  BY DEF LinkInv
<1>3. CASE UNCHANGED <<out, pending, inflight>>
  BY <1>1, <1>3, LinkRests
<1>4. ASSUME NEW l \in Usable, Enqueue(l, Frame("command", c)), pending' = [pending EXCEPT ![c] = l],
             inflight' = [inflight EXCEPT ![l] = @ + 1]
      PROVE  LinkInv'
  <2>1. l \in Links /\ link[l] = "open" /\ l # None
    <3>1. l \in healthy /\ healthy \subseteq Links
      BY DEF Usable, LinkInv, LinkTypes
    <3> QED BY <1>2, <3>1, LinkConstants DEF LinkSound
  <2>2. Append(out[l], Frame("command", c)) \in Seq(UpFrames) /\ Append(out[l], Frame("command", c)) # << >>
    <3>1. out[l] \in Seq(UpFrames) /\ Frame("command", c) \in UpFrames
      BY <2>1 DEF LinkInv, LinkTypes, UpFrames
    <3> QED BY <3>1, AppendHas
  <2>3. out'[l] # << >> /\ \A k \in Links \ {l} : out'[k] = out[k]
    BY <1>4, <2>1, <2>2 DEF Enqueue, LinkInv, LinkTypes
  <2>4. pending'[c] = l /\ (\A d \in Commands \ {c} : pending'[d] = pending[d])
    BY <1>4 DEF LinkInv, LinkTypes
  <2>5. On(l)' = On(l) \cup {c} /\ c \notin On(l) /\ \A k \in Links \ {l} : On(k)' = On(k)
    BY <2>1, <2>4, LinkConstants DEF On
  <2>6. Pending' = Pending \cup {c} /\ On(l) \subseteq Pending
    BY <2>1, <2>4, LinkConstants DEF Pending, On
  <2>7. IsFiniteSet(Pending') /\ IsFiniteSet(On(l))
    BY <2>6, FS_AddElement, FS_Subset DEF LinkInv
  <2>8. Cardinality(On(l)') = Cardinality(On(l)) + 1
    BY <2>5, <2>7, FS_AddElement
  <2>9. inflight'[l] = inflight[l] + 1 /\ inflight'[l] \in Int /\ \A k \in Links \ {l} : inflight'[k] = inflight[k]
    <3>1. inflight[l] \in Int /\ inflight'[l] = inflight[l] + 1 /\ \A k \in Links \ {l} : inflight'[k] = inflight[k]
      BY <1>4, <2>1 DEF LinkInv, LinkTypes
    <3>2. inflight[l] + 1 \in Int
      BY SMTT(30), <3>1
    <3> QED BY <3>1, <3>2
  <2>10. LinkTypes'
    BY <1>1, <1>4, <2>1, <2>2, <2>9 DEF Enqueue, LinkInv, LinkTypes
  <2>11. Ended'
    BY <1>1 DEF LinkInv, Ended
  <2>12. ASSUME NEW k \in Links PROVE LinkSound(k)'
    <3>1. CASE k = l
      BY <1>1, <1>2, <2>1, <2>3, <2>8, <2>9, <3>1 DEF LinkSound, Alive
    <3>2. CASE k # l
      BY <1>1, <1>2, <2>3, <2>5, <2>9, <3>2 DEF LinkSound
    <3> QED BY <3>1, <3>2
  <2> QED BY <2>7, <2>10, <2>11, <2>12 DEF LinkInv
<1> QED BY <1>3, <1>4 DEF Execute

\* Every step of CommandLink.
LEMMA LinkStepKeeps ==
    ASSUME LinkInv, TraceTypes, [Next]_vars
    PROVE  LinkInv'
<1>1. ASSUME NEW l \in Links, StreamStep(l) \/ Break(l) PROVE LinkInv'
  BY <1>1, LinkRests DEF StreamStep, Accept, StreamRead, Register, StopStreams, OnCancel, SendStart, SendDone,
     StreamDone, Break, gate, glink, table
<1>2. ASSUME NEW n \in Nodes, Push(n) \/ Drain(n) PROVE LinkInv'
  BY <1>2, LinkRests DEF Push, Drain, EnqueueReply, StopStreams, gate, glink, table
<1>3. ASSUME NEW c \in Commands, Submit(c) \/ \E l \in Links : Reply(c, l) PROVE LinkInv'
  BY <1>3, LinkRests DEF Submit, Reply, EnqueueReply, StopStreams, gate, glink, table
<1>4. ASSUME NEW c \in Commands, Execute(c) PROVE LinkInv'
  BY <1>4, ExecuteKeeps DEF Execute, TraceTypes
<1>5. CASE UNCHANGED vars
  BY <1>5, LinkRests DEF vars, gate, glink, table
<1> QED BY <1>1, <1>2, <1>3, <1>4, <1>5, StoppingKeeps, WriteStartKeeps, WriteDoneKeeps, OpenKeeps, ControlEndsKeeps,
           OnDoneKeeps, CancelKeeps, ReadFrameKeeps DEF Next, LinkStep, ControlStep, CommandStep
-----------------------------------------------------------------------------
(* Message keeps its invariant.                                            *)

LEMMA StreamRests ==
    ASSUME StreamInv, UNCHANGED mstream
    PROVE  StreamInv'
BY DEF StreamInv, StreamTypes, StreamSound, RegisteredSound, mstream

\* stream::stop: the frame that gRPC has stays, and nothing is added.
LEMMA Ends ==
    ASSUME StreamInv, NEW S
    PROVE  /\ Ending(S) \in [Links -> Alive \cup {"absent", "finishing", "finished"}]
           /\ Shortened(S) \in [Links -> Seq(DownFrames)]
           /\ \A l \in Links :
                 /\ stream[l] \in Alive \cup {"finishing"} => Ending(S)[l] \in Alive \cup {"finishing"}
                 /\ l \in sending => Ending(S)[l] \in Alive /\ Shortened(S)[l] # << >>
           /\ \A l \in Links : \A g : /\ Has(Shortened(S)[l], g) => Has(replies[l], g)
                                      /\ Once(replies[l], g) => Once(Shortened(S)[l], g)
<1>1. /\ stream \in [Links -> Alive \cup {"absent", "finishing", "finished"}]
      /\ replies \in [Links -> Seq(DownFrames)] /\ \A l \in Links : StreamSound(l)
  BY DEF StreamInv, StreamTypes
<1>2. Ending(S) \in [Links -> Alive \cup {"absent", "finishing", "finished"}]
  BY <1>1 DEF Ending, Alive
<1>3. ASSUME NEW l \in Links
      PROVE  /\ stream[l] \in Alive \cup {"finishing"} => Ending(S)[l] \in Alive \cup {"finishing"}
             /\ l \in sending => Ending(S)[l] \in Alive
  BY <1>1 DEF Ending, Alive, StreamSound
<1>4. ASSUME NEW l \in Links
      PROVE  \/ Shortened(S)[l] = replies[l]
             \/ Shortened(S)[l] = << >> /\ l \notin sending
             \/ Shortened(S)[l] = <<Head(replies[l])>> /\ replies[l] # << >>
  BY <1>1 DEF Shortened, StreamSound
<1>5. ASSUME NEW l \in Links, NEW g
      PROVE  /\ Shortened(S)[l] \in Seq(DownFrames) /\ (l \in sending => Shortened(S)[l] # << >>)
             /\ Has(Shortened(S)[l], g) => Has(replies[l], g)
             /\ Once(replies[l], g) => Once(Shortened(S)[l], g)
  <2>1. replies[l] \in Seq(DownFrames) /\ (l \in sending => replies[l] # << >>)
    BY <1>1 DEF StreamSound
  <2>2. CASE Shortened(S)[l] = replies[l]
    BY <2>1, <2>2
  <2>3. CASE Shortened(S)[l] = << >> /\ l \notin sending
    BY <2>3, EmptyHas
  <2>4. CASE Shortened(S)[l] = <<Head(replies[l])>> /\ replies[l] # << >>
    <3>1. /\ <<Head(replies[l])>> \in Seq(DownFrames) /\ <<Head(replies[l])>> # << >>
          /\ Has(<<Head(replies[l])>>, g) => Has(replies[l], g)
          /\ Once(<<Head(replies[l])>>, g)
      BY <2>1, <2>4, TailHas
    <3> QED BY <2>4, <3>1
  <2> QED BY <1>4, <2>2, <2>3, <2>4
<1>6. Shortened(S) \in [Links -> Seq(DownFrames)]
  BY <1>5 DEF Shortened
<1> QED BY <1>2, <1>3, <1>5, <1>6

\* Streams are stopped, whoever is registered.
LEMMA StopStreamsKeeps ==
    ASSUME StreamInv, NEW S, StopStreams(S), UNCHANGED sending,
           registered' \in [Nodes -> Links \cup {None}],
           \A n \in Nodes : registered'[n] # registered[n] =>
               /\ registered'[n] \in Links /\ NodeOf[registered'[n]] = n
               /\ stream[registered'[n]] \in Alive
    PROVE  StreamInv'
<1>1. StreamTypes'
  BY Ends DEF StopStreams, StreamTypes
<1>2. ASSUME NEW l \in Links PROVE StreamSound(l)'
  BY Ends DEF StopStreams, StreamSound
<1>3. ASSUME NEW n \in Nodes PROVE RegisteredSound(n)'
  <2>1. registered \in [Nodes -> Links \cup {None}] /\ RegisteredSound(n)
    BY DEF StreamInv, StreamTypes
  <2>2. \A l \in Links : stream[l] \in Alive \cup {"finishing"} => stream'[l] \in Alive \cup {"finishing"}
    BY Ends DEF StopStreams
  <2> QED BY <2>1, <2>2 DEF RegisteredSound
<1> QED BY <1>1, <1>2, <1>3 DEF StreamInv

\* A frame is queued for a stream.
LEMMA ReplyQueued ==
    ASSUME StreamInv, NEW l \in Links, NEW f \in DownFrames, EnqueueReply(l, f), UNCHANGED <<sending, registered>>
    PROVE  StreamInv'
<1>1. replies \in [Links -> Seq(DownFrames)] /\ UNCHANGED stream /\ replies' = [replies EXCEPT ![l] = Append(@, f)]
  BY DEF StreamInv, StreamTypes, EnqueueReply
<1>2. Append(replies[l], f) \in Seq(DownFrames) /\ Append(replies[l], f) # << >>
  BY <1>1, AppendHas
<1> QED BY <1>1, <1>2 DEF StreamInv, StreamTypes, StreamSound, RegisteredSound

\* server::register_stream.
LEMMA RegisterKeeps ==
    ASSUME StreamInv, NEW l \in Links, Register(l), stream[l] = "open", UNCHANGED sending
    PROVE  StreamInv'
<1>1. NodeOf[l] \in Nodes /\ registered' = [registered EXCEPT ![NodeOf[l]] = l]
  BY LinkConstants DEF Register
<1>2. /\ registered' \in [Nodes -> Links \cup {None}]
      /\ \A n \in Nodes : registered'[n] # registered[n] =>
             registered'[n] \in Links /\ NodeOf[registered'[n]] = n /\ stream[registered'[n]] \in Alive
  BY <1>1 DEF StreamInv, StreamTypes, Alive
<1>3. ASSUME NEW S, StopStreams(S) PROVE StreamInv'
  BY <1>2, <1>3, StopStreamsKeeps
<1>4. ASSUME NEW S, stream' = Ending(S), replies' = [Shortened(S) EXCEPT ![l] = Append(@, Frame("registered", None))]
      PROVE  StreamInv'
  <2>1. Shortened(S) \in [Links -> Seq(DownFrames)] /\ Frame("registered", None) \in DownFrames
    BY Ends DEF DownFrames
  <2>2. /\ Append(Shortened(S)[l], Frame("registered", None)) \in Seq(DownFrames)
        /\ Append(Shortened(S)[l], Frame("registered", None)) # << >>
    BY <2>1, AppendHas
  <2>3. replies' \in [Links -> Seq(DownFrames)] /\ \A k \in Links : k \in sending => replies'[k] # << >>
    BY <1>4, <2>1, <2>2, Ends
  <2>4. StreamTypes'
    BY <1>2, <1>4, <2>3, Ends DEF StreamTypes
  <2>5. ASSUME NEW k \in Links PROVE StreamSound(k)'
    BY <1>4, <2>3, Ends DEF StreamSound
  <2>6. ASSUME NEW n \in Nodes PROVE RegisteredSound(n)'
    <3>1. registered \in [Nodes -> Links \cup {None}] /\ RegisteredSound(n)
      BY DEF StreamInv, StreamTypes
    <3>2. \A k \in Links : stream[k] \in Alive \cup {"finishing"} => stream'[k] \in Alive \cup {"finishing"}
      BY <1>4, Ends
    <3> QED BY <1>2, <3>1, <3>2 DEF RegisteredSound
  <2> QED BY <2>4, <2>5, <2>6 DEF StreamInv
<1> QED BY <1>3, <1>4 DEF Register

\* A new stream, a stopped one, a frame handed to gRPC.
LEMMA StreamTurns ==
    ASSUME StreamInv, NEW l \in Links, Accept(l) \/ OnCancel(l) \/ SendStart(l)
    PROVE  StreamInv'
<1>1. CASE Accept(l)
  <2>1. /\ stream[l] = "absent" /\ UNCHANGED <<replies, sending, registered>>
        /\ \/ stream' = [stream EXCEPT ![l] = "open"] \/ stream' = [stream EXCEPT ![l] = "finishing"]
    BY <1>1 DEF Accept
  <2>2. stream \in [Links -> Alive \cup {"absent", "finishing", "finished"}]
    BY DEF StreamInv, StreamTypes
  <2>3. stream'[l] \in Alive \cup {"finishing"} /\ \A k \in Links \ {l} : stream'[k] = stream[k]
    BY <2>1, <2>2 DEF Alive
  <2>4. StreamTypes'
    BY <2>1, <2>2 DEF StreamInv, StreamTypes, Alive
  <2>5. ASSUME NEW k \in Links PROVE StreamSound(k)'
    BY <2>1, <2>3 DEF StreamInv, StreamSound, Alive
  <2>6. ASSUME NEW n \in Nodes PROVE RegisteredSound(n)'
    <3>1. RegisteredSound(n) /\ registered[n] \in Links \cup {None} /\ registered'[n] = registered[n]
      BY <2>1 DEF StreamInv, StreamTypes
    <3> QED BY <2>3, <3>1 DEF RegisteredSound
  <2> QED BY <2>4, <2>5, <2>6 DEF StreamInv
<1>2. CASE OnCancel(l)
  <2>1. StopStreams({l}) /\ UNCHANGED <<sending, registered>> /\ registered \in [Nodes -> Links \cup {None}]
    BY <1>2 DEF OnCancel, StreamInv, StreamTypes
  <2> QED BY <2>1, StopStreamsKeeps
<1>3. CASE SendStart(l)
  BY <1>3 DEF SendStart, StreamInv, StreamTypes, StreamSound, RegisteredSound, Alive
<1> QED BY <1>1, <1>2, <1>3

\* A frame has left, or is lost with the call; and the end of a stream.
LEMMA StreamLeaves ==
    ASSUME StreamInv, NEW l \in Links, SendDone(l) \/ StreamDone(l)
    PROVE  StreamInv'
<1>1. /\ stream \in [Links -> Alive \cup {"absent", "finishing", "finished"}]
      /\ registered \in [Nodes -> Links \cup {None}] /\ replies \in [Links -> Seq(DownFrames)]
      /\ (\A k \in Links : StreamSound(k)) /\ (\A n \in Nodes : RegisteredSound(n))
  BY DEF StreamInv, StreamTypes
<1>2. CASE SendDone(l)
  <2>1. l \in sending /\ sending' = sending \ {l} /\ UNCHANGED registered /\ stream[l] \in Alive
    BY <1>1, <1>2 DEF SendDone, StreamSound
  <2>2. Tail(replies[l]) \in Seq(DownFrames) /\ << >> \in Seq(DownFrames)
    BY <1>1, <2>1, TailHas, EmptyHas DEF StreamSound
  <2>3. \/ replies' = [replies EXCEPT ![l] = Tail(@)] /\ UNCHANGED stream
        \/ replies' = [replies EXCEPT ![l] = << >>] /\ stream' = [stream EXCEPT ![l] = "finishing"]
    BY <1>2 DEF SendDone
  <2>4. StreamTypes'
    BY <1>1, <2>1, <2>2, <2>3 DEF StreamTypes
  <2>5. /\ \A k \in Links \ {l} : replies'[k] = replies[k] /\ stream'[k] = stream[k]
        /\ stream'[l] \in Alive \cup {"finishing"}
    BY <1>1, <2>1, <2>3
  <2>6. ASSUME NEW k \in Links PROVE StreamSound(k)'
    BY <1>1, <2>1, <2>5 DEF StreamSound
  <2>7. ASSUME NEW n \in Nodes PROVE RegisteredSound(n)'
    <3>1. RegisteredSound(n) /\ registered[n] \in Links \cup {None} /\ registered'[n] = registered[n]
      BY <1>1, <2>1
    <3> QED BY <2>5, <3>1 DEF RegisteredSound
  <2> QED BY <2>4, <2>6, <2>7 DEF StreamInv
<1>3. CASE StreamDone(l)
  <2>1. /\ stream[l] = "finishing" /\ stream' = [stream EXCEPT ![l] = "finished"] /\ UNCHANGED <<replies, sending>>
        /\ registered' = [n \in Nodes |-> IF registered[n] = l THEN None ELSE registered[n]]
    BY <1>3 DEF StreamDone
  <2>2. l \notin sending /\ \A k \in Links \ {l} : stream'[k] = stream[k]
    BY <1>1, <2>1 DEF StreamSound, Alive
  <2>3. StreamTypes'
    BY <1>1, <2>1 DEF StreamTypes
  <2>4. ASSUME NEW k \in Links PROVE StreamSound(k)'
    BY <1>1, <2>1, <2>2 DEF StreamSound
  <2>5. ASSUME NEW n \in Nodes PROVE RegisteredSound(n)'
    <3>1. /\ RegisteredSound(n) /\ registered[n] \in Links \cup {None}
          /\ registered'[n] = IF registered[n] = l THEN None ELSE registered[n]
      BY <1>1, <2>1
    <3> QED BY <2>2, <3>1 DEF RegisteredSound
  <2> QED BY <2>3, <2>4, <2>5 DEF StreamInv
<1> QED BY <1>2, <1>3

\* server::process, server::reply, server::forward and server::begin_stop.
LEMMA ServerKeeps ==
    ASSUME StreamInv, \/ \E l \in Links : StreamRead(l)
                      \/ \E c \in Commands, l \in Links : Reply(c, l)
                      \/ \E n \in Nodes : Push(n) \/ Drain(n)
    PROVE  StreamInv'
<1>1. registered \in [Nodes -> Links \cup {None}]
  BY DEF StreamInv, StreamTypes
<1>2. ASSUME NEW S, StopStreams(S), UNCHANGED <<sending, registered>> PROVE StreamInv'
  BY <1>1, <1>2, StopStreamsKeeps
<1>3. ASSUME NEW l \in Links, StreamRead(l) PROVE StreamInv'
  <2>1. stream[l] = "open" /\ UNCHANGED sending
    BY <1>3 DEF StreamRead
  <2>2. Register(l) \/ UNCHANGED <<stream, replies, registered>>
    BY <1>3 DEF StreamRead
  <2> QED BY <2>1, <2>2, RegisterKeeps, StreamRests DEF mstream
<1>4. ASSUME NEW c \in Commands, NEW l \in Links, Reply(c, l) PROVE StreamInv'
  <2>1. Frame("result", c) \in DownFrames /\ Destination(l) \subseteq Links
    BY DEF DownFrames, Destination
  <2> QED BY <1>2, <1>4, <2>1, ReplyQueued, StreamRests DEF Reply, mstream
<1>5. ASSUME NEW n \in Nodes, Push(n) PROVE StreamInv'
  <2>1. Frame("push", None) \in DownFrames /\ registered[n] \in Links
    BY <1>1, <1>5 DEF DownFrames, Push
  <2> QED BY <1>5, <2>1, ReplyQueued DEF Push
<1>6. ASSUME NEW n \in Nodes, Drain(n) PROVE StreamInv'
  BY <1>2, <1>6 DEF Drain
<1> QED BY <1>3, <1>4, <1>5, <1>6

\* The steps of the Gateway leave the streams alone.
LEMMA StreamStepKeeps ==
    ASSUME StreamInv, [Next]_vars
    PROVE  StreamInv'
<1>1. ASSUME NEW l \in Links, LinkStep(l) \/ Break(l) PROVE StreamInv'
  BY <1>1, StreamRests DEF LinkStep, WriteStart, WriteDone, ReadFrame, ReadFails, OnDone, Break
<1>2. ASSUME NEW n \in Nodes, Connect(n) \/ Retire(n) PROVE StreamInv'
  BY <1>2, StreamRests DEF Connect, Retire
<1>3. ASSUME NEW c \in Commands, Submit(c) \/ Execute(c) \/ Resume(c) PROVE StreamInv'
  BY <1>3, StreamRests DEF Submit, Execute, Resume
<1>4. ASSUME NEW k, CloseConnection(k) PROVE StreamInv'
  BY <1>4, StreamRests DEF CloseConnection
<1>5. CASE ControlStep \/ Abort
  BY <1>5, StreamRests DEF ControlStep, Replace, CloseLink, ControlEnds, StopReturns, Abort
<1>6. CASE UNCHANGED vars
  BY <1>6, StreamRests DEF vars
<1> QED BY <1>1, <1>2, <1>3, <1>4, <1>5, <1>6, StreamTurns, StreamLeaves, ServerKeeps
        DEF Next, StreamStep, CommandStep
-----------------------------------------------------------------------------
(* A command on its way.                                                   *)

\* Of frame f, queue r has no more than q.
Less(r, q, f) == (Has(r, f) => Has(q, f)) /\ (Once(q, f) => Once(r, f))

\* What a step may do to the table, if no command sets out in it.
Settles ==
    /\ closed \subseteq closed' /\ \A l \in Links : link[l] = "finished" => link'[l] = "finished"
    /\ \A c \in Commands :
          /\ outcome'[c] \in {"new", "queued"} => outcome[c] \in {"new", "queued"}
          /\ outcome'[c] = "foreign" => outcome[c] = "foreign" \/ Connection[c] \in closed'
          /\ pending'[c] # pending[c] =>
                /\ pending'[c] = None
                /\ \A l \in Links : pending[c] = l =>
                      Connection[c] \in closed' \/ link'[l] = "finished" \/ ~Underway(c, l)'

LEMMA LessQueues ==
    ASSUME NEW S, NEW q \in Seq(S), NEW f
    PROVE  /\ Less(<< >>, q, f) /\ Less(q, q, f)
           /\ q # << >> => Less(Tail(q), q, f) /\ Less(<<Head(q)>>, q, f)
           /\ \A g \in S : g # f => Less(Append(q, g), q, f)
<1>1. Less(<< >>, q, f) /\ Less(q, q, f)
  BY EmptyHas DEF Less
<1>2. ASSUME q # << >> PROVE Less(Tail(q), q, f) /\ Less(<<Head(q)>>, q, f)
  <2>1. /\ (Has(Tail(q), f) => Has(q, f)) /\ (Has(<<Head(q)>>, f) => Has(q, f))
        /\ Once(<<Head(q)>>, f) /\ (Once(q, f) => Once(Tail(q), f))
    BY <1>2, TailHas
  <2> QED BY <2>1 DEF Less
<1>3. ASSUME NEW g \in S, g # f PROVE Less(Append(q, g), q, f)
  <2>1. /\ Append(q, g) \in Seq(S) /\ Append(q, g) # << >>
        /\ Has(Append(q, g), f) <=> Has(q, f) \/ g = f
        /\ Once(q, f) /\ (Has(q, f) => g # f) => Once(Append(q, g), f)
    BY <1>3, AppendHas
  <2> QED BY <1>3, <2>1 DEF Less
<1> QED BY <1>1, <1>2, <1>3

\* The first frame of one queue goes to the end of another.
LEMMA QueueToQueue ==
    ASSUME NEW S, NEW q \in Seq(S), NEW r \in Seq(S), q # << >>, NEW g,
           Once(q, g), Once(r, g), ~(Has(q, g) /\ Has(r, g))
    PROVE  /\ Once(Tail(q), g) /\ Once(Append(r, Head(q)), g)
           /\ ~(Has(Tail(q), g) /\ Has(Append(r, Head(q)), g))
           /\ Has(Tail(q), g) \/ Has(Append(r, Head(q)), g) => Has(q, g) \/ Has(r, g)
<1>1. /\ Head(q) \in S /\ Has(q, Head(q)) /\ (Has(Tail(q), g) => Has(q, g))
      /\ Once(Tail(q), g) /\ (Head(q) = g => ~Has(Tail(q), g))
  BY TailHas
<1>2. /\ Append(r, Head(q)) \in Seq(S) /\ Append(r, Head(q)) # << >>
      /\ Has(Append(r, Head(q)), g) <=> Has(r, g) \/ Head(q) = g
      /\ Once(r, g) /\ (Has(r, g) => Head(q) # g) => Once(Append(r, Head(q)), g)
  BY <1>1, AppendHas
<1> QED BY <1>1, <1>2

\* No command sets out: those under way were, and are in one place still.
LEMMA TraceMoves ==
    ASSUME TraceInv, Settles,
           outcome' \in [Commands -> {"new", "queued", "sent", "waiting", "result", "foreign", "failed",
                                      "cancelled", "refused"}],
           up' \in [Links -> Seq(UpFrames)], down' \in [Links -> Seq(DownFrames)],
           \A c \in Commands, l \in Links : OnePlace(c, l)' /\ (Underway(c, l)' => Underway(c, l))
    PROVE  TraceInv'
<1>1. TraceTypes'
  BY DEF TraceInv, TraceTypes, Settles
<1>2. ASSUME NEW c \in Commands, NEW l \in Links PROVE TraceSound(c, l)'
  <2>1. TraceSound(c, l) /\ OnePlace(c, l)' /\ (Underway(c, l)' => Underway(c, l))
    BY DEF TraceInv
  <2>2. outcome'[c] \in {"new", "queued"} => ~Underway(c, l)'
    BY <2>1 DEF TraceSound, Settles
  <2>3. ASSUME Underway(c, l)' PROVE pending'[c] = l \/ Connection[c] \in closed' \/ link'[l] = "finished"
    <3>1. pending[c] = l \/ Connection[c] \in closed \/ link[l] = "finished"
      BY <2>1, <2>3 DEF TraceSound
    <3>2. CASE pending[c] = l
      BY <2>3, <3>2 DEF Settles
    <3>3. CASE Connection[c] \in closed \/ link[l] = "finished"
      BY <3>3 DEF Settles
    <3> QED BY <3>1, <3>2, <3>3
  <2> QED BY <2>1, <2>2, <2>3 DEF TraceSound
<1>3. ASSUME NEW c \in Commands, NEW d \in Commands, NEW l \in Links PROVE Mistaken(c, d, l)'
  <2> SUFFICES ASSUME Underway(c, l)', pending'[d] = l, Correlation[c] = Correlation[d], c # d
               PROVE  Connection[d] \in closed'
    BY DEF Mistaken
  <2>1. Mistaken(c, d, l) /\ Underway(c, l) /\ pending[d] = l
    BY LinkConstants DEF TraceInv, Settles
  <2> QED BY <2>1 DEF Mistaken, Settles
<1>4. ResultIsOwn'
  BY DEF TraceInv, ResultIsOwn, Settles
<1> QED BY <1>1, <1>2, <1>3, <1>4 DEF TraceInv

\* Nothing moves; frames may be dropped.
LEMMA TraceRests ==
    ASSUME TraceInv, Settles,
           outcome' \in [Commands -> {"new", "queued", "sent", "waiting", "result", "foreign", "failed",
                                      "cancelled", "refused"}],
           up' \in [Links -> Seq(UpFrames)], down' \in [Links -> Seq(DownFrames)], executing' \subseteq executing,
           \A c \in Commands, l \in Links :
               /\ Less(out'[l], out[l], Frame("command", c)) /\ Less(up'[l], up[l], Frame("command", c))
               /\ Less(replies'[l], replies[l], Frame("result", c)) /\ Less(down'[l], down[l], Frame("result", c))
    PROVE  TraceInv'
<1>1. ASSUME NEW c \in Commands, NEW l \in Links
      PROVE  OnePlace(c, l)' /\ (Underway(c, l)' => Underway(c, l))
  <2>1. /\ Leaving(c, l)' => Leaving(c, l)
        /\ Arriving(c, l)' => Arriving(c, l)
        /\ Executing(c, l)' => Executing(c, l)
        /\ Answered(c, l)' => Answered(c, l)
        /\ Returning(c, l)' => Returning(c, l)
    BY DEF Less, Leaving, Arriving, Executing, Answered, Returning
  <2>2. OnePlace(c, l)
    BY DEF TraceInv, TraceSound
  <2>3. /\ Once(out'[l], Frame("command", c)) /\ Once(up'[l], Frame("command", c))
        /\ Once(replies'[l], Frame("result", c)) /\ Once(down'[l], Frame("result", c))
    BY <2>2 DEF Less, OnePlace
  <2>4. OnePlace(c, l)'
    BY <2>1, <2>2, <2>3 DEF OnePlace
  <2> QED BY <2>1, <2>4 DEF Underway
<1> QED BY <1>1, TraceMoves

\* A frame with no command in it is no command and no result.
LEMMA OtherFrames ==
    \A c : /\ Frame("register", None) # Frame("command", c) /\ Frame("ack", None) # Frame("command", c)
           /\ Frame("registered", None) # Frame("result", c) /\ Frame("push", None) # Frame("result", c)
<1>1. "register" # "command" /\ "ack" # "command" /\ "registered" # "result" /\ "push" # "result"
  OBVIOUS
<1> QED BY SMTT(30), <1>1, Frames

\* A frame with a command or a result says of which command.
LEMMA FrameOf ==
    /\ \A f \in UpFrames : f.kind = "command" => \E c \in Commands : f = Frame("command", c) /\ f.cmd = c
    /\ \A f \in DownFrames : f.kind = "result" => \E c \in Commands : f = Frame("result", c) /\ f.cmd = c
BY SMTT(30) DEF UpFrames, DownFrames, Frame

LEMMA SameLess == \A q, f : Less(q, q, f)
BY DEF Less

\* A step of the Gateway that adds nothing to its queues.
LEMMA OutShrinks ==
    ASSUME TraceInv, Settles, UNCHANGED <<up, down, replies, executing>>,
           outcome' \in [Commands -> {"new", "queued", "sent", "waiting", "result", "foreign", "failed",
                                      "cancelled", "refused"}],
           \A c \in Commands, l \in Links : Less(out'[l], out[l], Frame("command", c))
    PROVE  TraceInv'
BY SameLess, TraceRests DEF TraceInv, TraceTypes

\* A step of Message that adds nothing to its queues.
LEMMA RepliesShrink ==
    ASSUME TraceInv, UNCHANGED <<closed, link, table, out, down>>, up' \in [Links -> Seq(UpFrames)],
           executing' \subseteq executing,
           \A c \in Commands, l \in Links : /\ Less(up'[l], up[l], Frame("command", c))
                                            /\ Less(replies'[l], replies[l], Frame("result", c))
    PROVE  TraceInv'
<1>1. Settles
  BY DEF Settles, table
<1> QED BY <1>1, SameLess, TraceRests DEF TraceInv, TraceTypes, table

LEMMA StopLinksLess ==
    ASSUME LinkInv, NEW S, StopLinks(S)
    PROVE  /\ \A c \in Commands, l \in Links : Less(out'[l], out[l], Frame("command", c))
           /\ \A l \in Links : link[l] = "finished" => link'[l] = "finished"
<1>1. ASSUME NEW c \in Commands, NEW l \in Links PROVE Less(out'[l], out[l], Frame("command", c))
  <2>1. out[l] \in Seq(UpFrames) /\ (l \in writing => out[l] # << >>)
    BY DEF LinkInv, LinkTypes, LinkSound
  <2>2. \/ out'[l] = out[l] \/ out'[l] = << >>
        \/ l \in writing /\ out'[l] = <<Head(out[l])>>
    BY DEF StopLinks
  <2> QED BY <2>1, <2>2, LessQueues
<1>2. \A l \in Links : link[l] = "finished" => link'[l] = "finished"
  BY DEF StopLinks
<1> QED BY <1>1, <1>2

\* The steps of the Gateway that stop links or change only the table.
LEMMA TraceStops ==
    ASSUME LinkInv, TraceInv, \/ \E l \in Links : ReadFails(l)
                              \/ \E n \in Nodes : Retire(n) \/ CloseLink(n)
                              \/ Abort
    PROVE  TraceInv'
<1>1. UNCHANGED <<up, down, replies, executing, pending, closed>> /\ \E S : StopLinks(S)
  BY DEF ReadFails, Retire, CloseLink, Abort, gate, table, wire, mstream, rest
<1>2. /\ outcome' \in [Commands -> {"new", "queued", "sent", "waiting", "result", "foreign", "failed",
                                    "cancelled", "refused"}]
      /\ \A c \in Commands : outcome'[c] = outcome[c] \/ outcome'[c] = "failed"
  <2>1. outcome' = outcome \/ outcome' = [c \in Commands |-> IF outcome[c] = "queued" THEN "failed" ELSE outcome[c]]
    BY DEF ReadFails, Retire, CloseLink, Abort, table
  <2> QED BY <2>1 DEF TraceInv, TraceTypes
<1>3. /\ \A c \in Commands, l \in Links : Less(out'[l], out[l], Frame("command", c))
      /\ \A l \in Links : link[l] = "finished" => link'[l] = "finished"
  BY <1>1, StopLinksLess
<1>4. Settles
  BY <1>1, <1>2, <1>3 DEF Settles
<1> QED BY <1>1, <1>2, <1>3, <1>4, OutShrinks

\* Submitting, giving up and closing: only the table changes.
LEMMA TraceTable ==
    ASSUME LinkInv, TraceInv, \/ \E c \in Commands : Submit(c) \/ Resume(c)
                              \/ \E k : CloseConnection(k)
    PROVE  TraceInv'
<1>1. UNCHANGED <<up, down, replies, executing, out, link>> /\ closed \subseteq closed'
  BY DEF Submit, Resume, CloseConnection, gate, glink, wire, mstream, rest
<1>2. outcome \in [Commands -> {"new", "queued", "sent", "waiting", "result", "foreign", "failed",
                                "cancelled", "refused"}]
  BY DEF TraceInv, TraceTypes
<1>3. ASSUME NEW k, k \in closed', Cancel(k),
             outcome' = [c \in Commands |-> IF c \in CancelOf(k) THEN "cancelled" ELSE outcome[c]]
      PROVE  TraceInv'
  <2>1. Settles
    BY <1>1, <1>3 DEF Settles, Cancel, CancelOf
  <2>2. outcome' \in [Commands -> {"new", "queued", "sent", "waiting", "result", "foreign", "failed",
                                   "cancelled", "refused"}]
    BY <1>2, <1>3
  <2> QED BY <1>1, <2>1, <2>2, OutShrinks, SameLess
<1>4. ASSUME NEW c \in Commands, UNCHANGED pending,
             \/ outcome[c] = "new" /\ outcome' = [outcome EXCEPT ![c] = "queued"]
             \/ outcome' = [outcome EXCEPT ![c] = "waiting"]
      PROVE  TraceInv'
  <2>1. Settles
    BY <1>1, <1>2, <1>4 DEF Settles
  <2>2. outcome' \in [Commands -> {"new", "queued", "sent", "waiting", "result", "foreign", "failed",
                                   "cancelled", "refused"}]
    BY <1>2, <1>4
  <2> QED BY <1>1, <2>1, <2>2, OutShrinks, SameLess
<1>5. ASSUME NEW c \in Commands, Submit(c) PROVE TraceInv'
  BY <1>4, <1>5 DEF Submit
<1>6. ASSUME NEW c \in Commands, Resume(c) PROVE TraceInv'
  <2>1. CASE outcome' = [outcome EXCEPT ![c] = "waiting"] /\ UNCHANGED <<pending, inflight>>
    BY <1>4, <2>1
  <2>2. CASE /\ Connection[c] \in closed /\ Cancel(Connection[c])
             /\ outcome' = [p \in Commands |-> IF p \in CancelOf(Connection[c]) THEN "cancelled" ELSE outcome[p]]
    BY <1>1, <1>3, <2>2
  <2> QED BY <1>6, <2>1, <2>2 DEF Resume
<1>7. ASSUME NEW k, CloseConnection(k) PROVE TraceInv'
  BY <1>3, <1>7 DEF CloseConnection
<1> QED BY <1>5, <1>6, <1>7

\* A new link has no command on it.
LEMMA TraceOpens ==
    ASSUME LinkInv, TraceInv, NEW n \in Nodes, Connect(n) \/ Replace(n)
    PROVE  TraceInv'
<1>1. UNCHANGED <<up, down, replies, executing, pending, outcome, closed>>
  BY DEF Connect, Replace, table, wire, mstream, rest
<1>2. link \in [Links -> Alive \cup {"absent", "finished"}] /\ out \in [Links -> Seq(UpFrames)]
  BY DEF LinkInv, LinkTypes
<1>3. ASSUME NEW l \in Links, OpenLink(n, l) PROVE TraceInv'
  <2>1. /\ link[l] = "absent" /\ \E s : link' = [link EXCEPT ![l] = s]
        /\ out' = out \/ out' = [out EXCEPT ![l] = Append(@, Frame("register", None))]
    BY <1>3 DEF OpenLink, Enqueue
  <2>2. Settles
    BY <1>1, <1>2, <2>1 DEF Settles
  <2>3. ASSUME NEW c \in Commands, NEW k \in Links PROVE Less(out'[k], out[k], Frame("command", c))
    <3>1. Frame("register", None) \in UpFrames /\ Frame("register", None) # Frame("command", c)
      BY OtherFrames DEF UpFrames
    <3>2. out'[k] = out[k] \/ out'[k] = Append(out[k], Frame("register", None))
      BY <1>2, <2>1
    <3>3. out[k] \in Seq(UpFrames)
      BY <1>2
    <3> QED BY <3>1, <3>2, <3>3, LessQueues
  <2> QED BY <1>1, <2>2, <2>3, OutShrinks DEF TraceInv, TraceTypes
<1>4. CASE UNCHANGED <<link, reading, out, broken>>
  <2>1. Settles
    BY <1>1, <1>4 DEF Settles
  <2> QED BY <1>1, <1>4, <2>1, OutShrinks, SameLess DEF TraceInv, TraceTypes
<1> QED BY <1>3, <1>4 DEF Connect, Replace

\* message_link::OnWriteDone: a command leaves the Gateway, or is lost.
LEMMA TraceWriteDone ==
    ASSUME LinkInv, TraceInv, NEW l \in Links, WriteDone(l)
    PROVE  TraceInv'
<1>1. /\ UNCHANGED <<down, replies, executing, pending, outcome, closed>>
      /\ l \in writing /\ link[l] \in Alive /\ out[l] # << >>
  BY DEF WriteDone, gate, table, mstream, rest, LinkInv, LinkSound
<1>2. /\ out \in [Links -> Seq(UpFrames)] /\ up \in [Links -> Seq(UpFrames)]
      /\ link \in [Links -> Alive \cup {"absent", "finished"}]
  BY DEF LinkInv, LinkTypes, TraceInv, TraceTypes
<1>3. link' = link \/ link' = [link EXCEPT ![l] = "stopping"]
  BY DEF WriteDone
<1>4. Settles
  BY <1>1, <1>2, <1>3 DEF Settles, Alive
<1>5. CASE up' = [up EXCEPT ![l] = Append(@, Head(out[l]))] /\ out' = [out EXCEPT ![l] = Tail(@)]
  <2>1. Append(up[l], Head(out[l])) \in Seq(UpFrames)
    BY <1>1, <1>2, FirstFrame, AppendHas
  <2>2. up' \in [Links -> Seq(UpFrames)]
    BY <1>2, <1>5, <2>1
  <2>3. ASSUME NEW c \in Commands, NEW k \in Links
        PROVE  OnePlace(c, k)' /\ (Underway(c, k)' => Underway(c, k))
    <3>1. OnePlace(c, k)
      BY DEF TraceInv, TraceSound
    <3>2. /\ Executing(c, k)' = Executing(c, k) /\ Answered(c, k)' = Answered(c, k)
          /\ Returning(c, k)' = Returning(c, k)
      BY <1>1 DEF Executing, Answered, Returning
    <3>3. CASE k # l
      <4>1. out'[k] = out[k] /\ up'[k] = up[k]
        BY <1>2, <1>5, <3>3
      <4> QED BY <1>1, <3>1, <3>2, <4>1 DEF OnePlace, Underway, Leaving, Arriving
    <3>4. CASE k = l
      <4>1. out'[k] = Tail(out[k]) /\ up'[k] = Append(up[k], Head(out[k])) /\ out[k] # << >>
            /\ out[k] \in Seq(UpFrames) /\ up[k] \in Seq(UpFrames)
        BY <1>1, <1>2, <1>5, <3>4
      <4>2. /\ Once(out[k], Frame("command", c)) /\ Once(up[k], Frame("command", c))
            /\ ~(Has(out[k], Frame("command", c)) /\ Has(up[k], Frame("command", c)))
        BY <3>1 DEF OnePlace, Leaving, Arriving
      <4>3. /\ Once(out'[k], Frame("command", c)) /\ Once(up'[k], Frame("command", c))
            /\ ~(Has(out'[k], Frame("command", c)) /\ Has(up'[k], Frame("command", c)))
            /\ Has(out'[k], Frame("command", c)) \/ Has(up'[k], Frame("command", c)) =>
                   Has(out[k], Frame("command", c)) \/ Has(up[k], Frame("command", c))
        <5>1. /\ Once(Tail(out[k]), Frame("command", c)) /\ Once(Append(up[k], Head(out[k])), Frame("command", c))
              /\ ~(Has(Tail(out[k]), Frame("command", c)) /\ Has(Append(up[k], Head(out[k])), Frame("command", c)))
              /\ Has(Tail(out[k]), Frame("command", c)) \/ Has(Append(up[k], Head(out[k])), Frame("command", c)) =>
                     Has(out[k], Frame("command", c)) \/ Has(up[k], Frame("command", c))
          BY <4>1, <4>2, QueueToQueue
        <5> QED BY <4>1, <5>1
      <4>4. /\ ~(Leaving(c, k)' /\ Arriving(c, k)')
            /\ Leaving(c, k)' \/ Arriving(c, k)' => Leaving(c, k) \/ Arriving(c, k)
        BY <4>3 DEF Leaving, Arriving
      <4>5. Once(replies'[k], Frame("result", c)) /\ Once(down'[k], Frame("result", c))
        BY <1>1, <3>1 DEF OnePlace
      <4> QED BY <3>1, <3>2, <4>3, <4>4, <4>5 DEF OnePlace, Underway
    <3> QED BY <3>3, <3>4
  <2> QED BY <1>1, <1>4, <2>2, <2>3, TraceMoves DEF TraceInv, TraceTypes
<1>6. CASE out' = [out EXCEPT ![l] = << >>] /\ UNCHANGED <<up, broken>>
  <2>1. ASSUME NEW c \in Commands, NEW k \in Links PROVE Less(out'[k], out[k], Frame("command", c))
    <3>1. (out'[k] = out[k] \/ out'[k] = << >>) /\ out[k] \in Seq(UpFrames)
      BY <1>2, <1>6
    <3> QED BY <3>1, LessQueues
  <2> QED BY <1>1, <1>4, <1>6, <2>1, OutShrinks DEF TraceInv, TraceTypes
<1> QED BY <1>5, <1>6 DEF WriteDone

\* stream::OnWriteDone: a result leaves Message, or is lost.
LEMMA TraceSendDone ==
    ASSUME StreamInv, TraceInv, NEW l \in Links, SendDone(l)
    PROVE  TraceInv'
<1>1. /\ UNCHANGED <<up, out, executing, pending, outcome, closed, link, table>>
      /\ l \in sending /\ replies[l] # << >>
  BY DEF SendDone, gate, glink, table, rest, StreamInv, StreamSound
<1>2. replies \in [Links -> Seq(DownFrames)] /\ down \in [Links -> Seq(DownFrames)]
  BY DEF StreamInv, StreamTypes, TraceInv, TraceTypes
<1>3. Settles
  BY <1>1 DEF Settles
<1>4. CASE down' = [down EXCEPT ![l] = Append(@, Head(replies[l]))] /\ replies' = [replies EXCEPT ![l] = Tail(@)]
  <2>1. Append(down[l], Head(replies[l])) \in Seq(DownFrames)
    BY <1>1, <1>2, TailHas, AppendHas
  <2>2. down' \in [Links -> Seq(DownFrames)]
    BY <1>2, <1>4, <2>1
  <2>3. ASSUME NEW c \in Commands, NEW k \in Links
        PROVE  OnePlace(c, k)' /\ (Underway(c, k)' => Underway(c, k))
    <3>1. OnePlace(c, k)
      BY DEF TraceInv, TraceSound
    <3>2. /\ Executing(c, k)' = Executing(c, k) /\ Leaving(c, k)' = Leaving(c, k)
          /\ Arriving(c, k)' = Arriving(c, k)
      BY <1>1 DEF Executing, Leaving, Arriving
    <3>3. CASE k # l
      <4>1. replies'[k] = replies[k] /\ down'[k] = down[k]
        BY <1>2, <1>4, <3>3
      <4> QED BY <1>1, <3>1, <3>2, <4>1 DEF OnePlace, Underway, Answered, Returning
    <3>4. CASE k = l
      <4>1. replies'[k] = Tail(replies[k]) /\ down'[k] = Append(down[k], Head(replies[k])) /\ replies[k] # << >>
            /\ replies[k] \in Seq(DownFrames) /\ down[k] \in Seq(DownFrames)
        BY <1>1, <1>2, <1>4, <3>4
      <4>2. /\ Once(replies[k], Frame("result", c)) /\ Once(down[k], Frame("result", c))
            /\ ~(Has(replies[k], Frame("result", c)) /\ Has(down[k], Frame("result", c)))
        BY <3>1 DEF OnePlace, Answered, Returning
      <4>3. /\ Once(replies'[k], Frame("result", c)) /\ Once(down'[k], Frame("result", c))
            /\ ~(Has(replies'[k], Frame("result", c)) /\ Has(down'[k], Frame("result", c)))
            /\ Has(replies'[k], Frame("result", c)) \/ Has(down'[k], Frame("result", c)) =>
                   Has(replies[k], Frame("result", c)) \/ Has(down[k], Frame("result", c))
        <5>1. /\ Once(Tail(replies[k]), Frame("result", c)) /\ Once(Append(down[k], Head(replies[k])), Frame("result", c))
              /\ ~(Has(Tail(replies[k]), Frame("result", c)) /\ Has(Append(down[k], Head(replies[k])), Frame("result", c)))
              /\ Has(Tail(replies[k]), Frame("result", c)) \/ Has(Append(down[k], Head(replies[k])), Frame("result", c)) =>
                     Has(replies[k], Frame("result", c)) \/ Has(down[k], Frame("result", c))
          BY <4>1, <4>2, QueueToQueue
        <5> QED BY <4>1, <5>1
      <4>4. /\ ~(Answered(c, k)' /\ Returning(c, k)')
            /\ Answered(c, k)' \/ Returning(c, k)' => Answered(c, k) \/ Returning(c, k)
        BY <4>3 DEF Answered, Returning
      <4>5. Once(out'[k], Frame("command", c)) /\ Once(up'[k], Frame("command", c))
        BY <1>1, <3>1 DEF OnePlace
      <4> QED BY <3>1, <3>2, <4>3, <4>4, <4>5 DEF OnePlace, Underway
    <3> QED BY <3>3, <3>4
  <2> QED BY <1>1, <1>3, <2>2, <2>3, TraceMoves DEF TraceInv, TraceTypes
<1>5. CASE replies' = [replies EXCEPT ![l] = << >>] /\ UNCHANGED down
  <2>1. ASSUME NEW c \in Commands, NEW k \in Links PROVE Less(replies'[k], replies[k], Frame("result", c))
    <3>1. (replies'[k] = replies[k] \/ replies'[k] = << >>) /\ replies[k] \in Seq(DownFrames)
      BY <1>2, <1>5
    <3> QED BY <3>1, LessQueues
  <2> QED BY <1>1, <1>5, <2>1, RepliesShrink, SameLess DEF TraceInv, TraceTypes
<1> QED BY <1>4, <1>5 DEF SendDone

\* message_link::OnDone: what was under way on the link goes to nobody.
LEMMA TraceOnDone ==
    ASSUME LinkInv, TraceInv, NEW l \in Links, OnDone(l)
    PROVE  TraceInv'
<1>1. /\ UNCHANGED <<up, out, executing, replies, closed>> /\ link' = [link EXCEPT ![l] = "finished"]
      /\ pending' = [c \in Commands |-> IF c \in On(l) THEN None ELSE pending[c]]
      /\ outcome' = [c \in Commands |-> IF c \in On(l) THEN "failed" ELSE outcome[c]]
      /\ down' = [down EXCEPT ![l] = << >>]
  BY DEF OnDone, gate, mstream, rest
<1>2. down \in [Links -> Seq(DownFrames)] /\ link \in [Links -> Alive \cup {"absent", "finished"}]
  BY DEF LinkInv, LinkTypes, TraceInv, TraceTypes
<1>3. Settles
  BY <1>1, <1>2 DEF Settles, On
<1>4. outcome' \in [Commands -> {"new", "queued", "sent", "waiting", "result", "foreign", "failed",
                                 "cancelled", "refused"}]
  BY <1>1 DEF TraceInv, TraceTypes
<1>5. down' \in [Links -> Seq(DownFrames)]
  BY <1>1, <1>2, EmptyHas
<1>6. ASSUME NEW c \in Commands, NEW k \in Links PROVE Less(down'[k], down[k], Frame("result", c))
  <2>1. (down'[k] = down[k] \/ down'[k] = << >>) /\ down[k] \in Seq(DownFrames)
    BY <1>1, <1>2
  <2> QED BY <2>1, LessQueues
<1> QED BY <1>1, <1>3, <1>4, <1>5, <1>6, TraceRests, SameLess DEF TraceInv, TraceTypes

\* message_link::OnReadDone(true): a result ends the command it is of, or one
\* whose connection is gone.
LEMMA TraceReadFrame ==
    ASSUME LinkInv, TraceInv, NEW l \in Links, ReadFrame(l)
    PROVE  TraceInv'
<1> DEFINE f == Head(down[l])
<1>1. /\ UNCHANGED <<up, executing, replies, closed>> /\ down[l] # << >>
      /\ down' = [down EXCEPT ![l] = Tail(@)]
  BY DEF ReadFrame, gate, mstream, rest
<1>2. down \in [Links -> Seq(DownFrames)] /\ out \in [Links -> Seq(UpFrames)]
  BY DEF LinkInv, LinkTypes, TraceInv, TraceTypes
<1>3. down[l] \in Seq(DownFrames) /\ down'[l] = Tail(down[l]) /\ \A k \in Links \ {l} : down'[k] = down[k]
  BY <1>1, <1>2
<1>4. f \in DownFrames /\ Has(down[l], f) /\ Tail(down[l]) \in Seq(DownFrames)
  BY <1>1, <1>3, TailHas
<1>5. down' \in [Links -> Seq(DownFrames)]
  BY <1>1, <1>2, <1>4
<1>6. ASSUME NEW c \in Commands, NEW k \in Links PROVE Less(down'[k], down[k], Frame("result", c))
  <2>1. CASE k = l
    BY <1>1, <1>3, <2>1, LessQueues
  <2>2. CASE k # l
    BY <1>3, <2>2, SameLess
  <2> QED BY <2>1, <2>2
<1> HIDE DEF f
<1>7. ASSUME UNCHANGED table, \A k \in Links : link[k] = "finished" => link'[k] = "finished",
             \A c \in Commands, k \in Links : Less(out'[k], out[k], Frame("command", c))
      PROVE  TraceInv'
  <2>1. Settles
    BY <1>1, <1>7 DEF Settles, table
  <2> QED BY <1>1, <1>5, <1>6, <1>7, <2>1, TraceRests, SameLess DEF TraceInv, TraceTypes, table
<1>8. CASE UNCHANGED <<link, out, broken, table>>
  BY <1>7, <1>8, SameLess
<1>9. CASE Enqueue(l, Frame("ack", None)) /\ UNCHANGED <<link, healthy, broken, table>>
  <2>1. ASSUME NEW c \in Commands, NEW k \in Links PROVE Less(out'[k], out[k], Frame("command", c))
    <3>1. Frame("ack", None) \in UpFrames /\ Frame("ack", None) # Frame("command", c)
      BY OtherFrames DEF UpFrames
    <3>2. out'[k] = out[k] \/ out'[k] = Append(out[k], Frame("ack", None))
      BY <1>2, <1>9 DEF Enqueue
    <3>3. out[k] \in Seq(UpFrames)
      BY <1>2
    <3> QED BY <3>1, <3>2, <3>3, LessQueues
  <2> QED BY <1>7, <1>9, <2>1
<1>10. CASE StopLinks({l}) /\ UNCHANGED table
  BY <1>7, <1>10, StopLinksLess
<1>11. CASE /\ f.kind = "result"
            /\ pending' = [c \in Commands |-> IF c \in Resolves(l, f.cmd) THEN None ELSE pending[c]]
            /\ outcome' = [c \in Commands |-> IF c \notin Resolves(l, f.cmd) THEN outcome[c]
                                              ELSE IF c = f.cmd THEN "result" ELSE "foreign"]
            /\ UNCHANGED <<link, healthy, out, broken>>
  <2>1. PICK b \in Commands : f = Frame("result", b) /\ f.cmd = b
    BY <1>4, <1>11, FrameOf
  <2>2. Returning(b, l) /\ OnePlace(b, l)
    BY <1>4, <2>1 DEF Returning, TraceInv, TraceSound
  <2>3. ~Has(Tail(down[l]), f)
    <3>1. Once(down[l], f)
      BY <2>1, <2>2 DEF OnePlace
    <3>2. Head(down[l]) = f
      BY DEF f
    <3> QED BY <1>1, <1>3, <3>1, <3>2, TailHas
  <2>4. ~Underway(b, l)'
    <3>1. /\ Leaving(b, l)' = Leaving(b, l) /\ Arriving(b, l)' = Arriving(b, l)
          /\ Executing(b, l)' = Executing(b, l) /\ Answered(b, l)' = Answered(b, l)
      BY <1>1, <1>11 DEF Leaving, Arriving, Executing, Answered
    <3>2. ~Returning(b, l)'
      BY <1>3, <2>1, <2>3 DEF Returning
    <3> QED BY <2>2, <3>1, <3>2 DEF OnePlace, Underway
  <2>5. ASSUME NEW c \in Resolves(l, b), c # b PROVE c \in Commands /\ Connection[c] \in closed
    <3>1. c \in Commands /\ pending[c] = l /\ Correlation[b] = Correlation[c]
      BY DEF Resolves, On
    <3>2. Mistaken(b, c, l) /\ Underway(b, l)
      BY <2>2, <3>1 DEF TraceInv, Underway
    <3> QED BY <2>5, <3>1, <3>2 DEF Mistaken
  <2>6. \A c \in Resolves(l, b) : pending[c] = l
    BY DEF Resolves, On
  <2>7. Settles
    BY <1>1, <1>11, <2>1, <2>4, <2>5, <2>6 DEF Settles
  <2>8. outcome' \in [Commands -> {"new", "queued", "sent", "waiting", "result", "foreign", "failed",
                                   "cancelled", "refused"}]
    BY <1>11 DEF TraceInv, TraceTypes
  <2> QED BY <1>1, <1>5, <1>6, <1>11, <2>7, <2>8, TraceRests, SameLess DEF TraceInv, TraceTypes
<1> QED BY <1>8, <1>9, <1>10, <1>11 DEF ReadFrame, f

\* server::process: a command begins to be executed; a registration stops the
\* old stream.
LEMMA TraceStreamRead ==
    ASSUME StreamInv, TraceInv, NEW l \in Links, StreamRead(l)
    PROVE  TraceInv'
<1> DEFINE f == Head(up[l])
<1>1. UNCHANGED <<closed, link, table, out, down>> /\ up[l] # << >> /\ up' = [up EXCEPT ![l] = Tail(@)]
  BY DEF StreamRead, gate, glink
<1>2. up \in [Links -> Seq(UpFrames)] /\ replies \in [Links -> Seq(DownFrames)]
  BY DEF StreamInv, StreamTypes, TraceInv, TraceTypes
<1>3. up[l] \in Seq(UpFrames) /\ up'[l] = Tail(up[l]) /\ \A k \in Links \ {l} : up'[k] = up[k]
  BY <1>1, <1>2
<1>4. f \in UpFrames /\ Has(up[l], f) /\ Tail(up[l]) \in Seq(UpFrames)
  BY <1>1, <1>3, TailHas
<1>5. up' \in [Links -> Seq(UpFrames)]
  BY <1>1, <1>2, <1>4
<1>6. ASSUME NEW c \in Commands, NEW k \in Links PROVE Less(up'[k], up[k], Frame("command", c))
  <2>1. CASE k = l
    BY <1>1, <1>3, <2>1, LessQueues
  <2>2. CASE k # l
    BY <1>3, <2>2, SameLess
  <2> QED BY <2>1, <2>2
<1> HIDE DEF f
<1>7. CASE Register(l) /\ UNCHANGED executing
  <2>1. PICK S : \/ replies' = Shortened(S)
                 \/ replies' = [Shortened(S) EXCEPT ![l] = Append(@, Frame("registered", None))]
    BY <1>7 DEF Register, StopStreams
  <2>2. Shortened(S) \in [Links -> Seq(DownFrames)]
    BY Ends
  <2>3. ASSUME NEW c \in Commands, NEW k \in Links PROVE Less(replies'[k], replies[k], Frame("result", c))
    <3>1. /\ Shortened(S)[k] \in Seq(DownFrames) /\ Less(Shortened(S)[k], replies[k], Frame("result", c))
      BY <2>2, Ends DEF Less
    <3>2. Frame("registered", None) \in DownFrames /\ Frame("registered", None) # Frame("result", c)
      BY OtherFrames DEF DownFrames
    <3>3. Less(Append(Shortened(S)[k], Frame("registered", None)), Shortened(S)[k], Frame("result", c))
      BY <3>1, <3>2, LessQueues
    <3>4. replies'[k] = Shortened(S)[k] \/ replies'[k] = Append(Shortened(S)[k], Frame("registered", None))
      BY <2>1, <2>2
    <3> QED BY <3>1, <3>3, <3>4 DEF Less
  <2> QED BY <1>1, <1>5, <1>6, <1>7, <2>3, RepliesShrink
<1>8. CASE f.kind = "command" /\ executing' = executing \cup {<<f.cmd, l>>} /\ UNCHANGED replies
  <2>1. PICK b \in Commands : f = Frame("command", b) /\ f.cmd = b
    BY <1>4, <1>8, FrameOf
  <2>2. Arriving(b, l) /\ OnePlace(b, l)
    BY <1>4, <2>1 DEF Arriving, TraceInv, TraceSound
  <2>3. ~Has(Tail(up[l]), f)
    <3>1. Once(up[l], f)
      BY <2>1, <2>2 DEF OnePlace
    <3>2. Head(up[l]) = f
      BY DEF f
    <3> QED BY <1>1, <1>3, <3>1, <3>2, TailHas
  <2>4. ASSUME NEW c \in Commands, NEW k \in Links
        PROVE  OnePlace(c, k)' /\ (Underway(c, k)' => Underway(c, k))
    <3>1. OnePlace(c, k) /\ Less(up'[k], up[k], Frame("command", c))
      BY <1>6 DEF TraceInv, TraceSound
    <3>2. /\ Leaving(c, k)' = Leaving(c, k) /\ Answered(c, k)' = Answered(c, k)
          /\ Returning(c, k)' = Returning(c, k)
      BY <1>1, <1>8 DEF Leaving, Answered, Returning
    <3>3. /\ Once(out'[k], Frame("command", c)) /\ Once(up'[k], Frame("command", c))
          /\ Once(replies'[k], Frame("result", c)) /\ Once(down'[k], Frame("result", c))
      BY <1>1, <1>8, <3>1 DEF OnePlace, Less
    <3>4. Arriving(c, k)' => Arriving(c, k)
      BY <3>1 DEF Less, Arriving
    <3>5. Executing(c, k)' => Executing(c, k) \/ <<c, k>> = <<b, l>>
      BY <1>8, <2>1 DEF Executing
    <3>6. <<c, k>> = <<b, l>> => c = b /\ k = l
      BY SMTT(30)
    <3>7. CASE c = b /\ k = l
      <4>1. ~Arriving(c, k)'
        BY <1>3, <2>1, <2>3, <3>7 DEF Arriving
      <4> QED BY <2>2, <3>1, <3>2, <3>3, <3>7, <4>1 DEF OnePlace, Underway
    <3>8. CASE ~(c = b /\ k = l)
      BY <3>1, <3>2, <3>3, <3>4, <3>5, <3>6, <3>8 DEF OnePlace, Underway
    <3> QED BY <3>7, <3>8
  <2>5. Settles
    BY <1>1 DEF Settles, table
  <2> QED BY <1>1, <1>5, <2>4, <2>5, TraceMoves DEF TraceInv, TraceTypes, table
<1>9. CASE UNCHANGED <<replies, executing>>
  BY <1>1, <1>5, <1>6, <1>9, RepliesShrink, SameLess
<1> QED BY <1>7, <1>8, <1>9 DEF StreamRead, f

\* service::reply: the result is queued for the stream its command came by.
LEMMA TraceReply ==
    ASSUME StreamInv, TraceInv, NEW b \in Commands, NEW l \in Links, Reply(b, l)
    PROVE  TraceInv'
<1>1. /\ UNCHANGED <<closed, link, table, out, up, down>> /\ Executing(b, l)
      /\ executing' = executing \ {<<b, l>>}
  BY DEF Reply, gate, glink, wire, Executing
<1>2. replies \in [Links -> Seq(DownFrames)] /\ up \in [Links -> Seq(UpFrames)]
  BY DEF StreamInv, StreamTypes, TraceInv, TraceTypes
<1>3. CASE UNCHANGED replies
  BY <1>1, <1>2, <1>3, RepliesShrink, SameLess
<1>4. ASSUME NEW t, StopStreams({t}) PROVE TraceInv'
  <2>1. \A c \in Commands, k \in Links : Less(replies'[k], replies[k], Frame("result", c))
    BY <1>4, Ends DEF StopStreams, Less
  <2> QED BY <1>1, <1>2, <2>1, RepliesShrink, SameLess
<1>5. ASSUME EnqueueReply(l, Frame("result", b)) PROVE TraceInv'
  <2>1. replies'[l] = Append(replies[l], Frame("result", b)) /\ \A k \in Links \ {l} : replies'[k] = replies[k]
    BY <1>2, <1>5 DEF EnqueueReply
  <2>2. OnePlace(b, l) /\ Frame("result", b) \in DownFrames /\ replies[l] \in Seq(DownFrames)
    BY <1>2 DEF TraceInv, TraceSound, DownFrames
  <2>3. ASSUME NEW c \in Commands, NEW k \in Links
        PROVE  OnePlace(c, k)' /\ (Underway(c, k)' => Underway(c, k))
    <3>1. OnePlace(c, k) /\ Once(out'[k], Frame("command", c)) /\ Once(up'[k], Frame("command", c))
          /\ Once(down'[k], Frame("result", c))
      BY <1>1 DEF TraceInv, TraceSound, OnePlace
    <3>2. /\ Leaving(c, k)' = Leaving(c, k) /\ Arriving(c, k)' = Arriving(c, k)
          /\ Returning(c, k)' = Returning(c, k)
      BY <1>1 DEF Leaving, Arriving, Returning
    <3>3. Executing(c, k)' => Executing(c, k)
      BY <1>1 DEF Executing
    <3>4. CASE c = b /\ k = l
      <4>1. ~Executing(c, k)'
        BY <1>1, <3>4 DEF Executing
      <4>2. ~Has(replies[l], Frame("result", b))
        BY <1>1, <2>2 DEF OnePlace, Answered
      <4>3. Once(Append(replies[l], Frame("result", b)), Frame("result", b))
        BY <2>2, <4>2, AppendHas DEF OnePlace
      <4>4. Once(replies'[k], Frame("result", c))
        BY <2>1, <3>4, <4>3
      <4> QED BY <1>1, <3>1, <3>2, <3>4, <4>1, <4>4 DEF OnePlace, Underway
    <3>5. CASE ~(c = b /\ k = l)
      <4>1. Less(replies'[k], replies[k], Frame("result", c))
        <5>1. CASE k # l
          BY <2>1, <5>1, SameLess
        <5>2. CASE k = l
          <6>1. Frame("result", b) # Frame("result", c)
            BY SMTT(30), <3>5, <5>2, Frames
          <6>2. Less(Append(replies[l], Frame("result", b)), replies[l], Frame("result", c))
            BY <2>2, <6>1, LessQueues
          <6> QED BY <2>1, <5>2, <6>2
        <5> QED BY <5>1, <5>2
      <4>2. (Answered(c, k)' => Answered(c, k)) /\ Once(replies'[k], Frame("result", c))
        BY <3>1, <4>1 DEF Less, Answered, OnePlace
      <4> QED BY <3>1, <3>2, <3>3, <4>2 DEF OnePlace, Underway
    <3> QED BY <3>4, <3>5
  <2>4. Settles
    BY <1>1 DEF Settles, table
  <2> QED BY <1>1, <2>3, <2>4, TraceMoves DEF TraceInv, TraceTypes, table
<1>6. ASSUME NEW t \in Destination(l) PROVE t = l
  BY <1>6 DEF Destination
<1> QED BY <1>3, <1>4, <1>5, <1>6 DEF Reply

\* The other steps of Message and of the call.
LEMMA TraceServer ==
    ASSUME StreamInv, TraceInv,
           \/ \E l \in Links : Accept(l) \/ OnCancel(l) \/ SendStart(l) \/ StreamDone(l) \/ Break(l)
           \/ \E n \in Nodes : Push(n) \/ Drain(n)
    PROVE  TraceInv'
<1>1. UNCHANGED <<closed, link, table, out, down, executing>>
  BY DEF Accept, OnCancel, SendStart, StreamDone, Break, Push, Drain, gate, glink, wire, rest
<1>2. replies \in [Links -> Seq(DownFrames)] /\ up \in [Links -> Seq(UpFrames)]
      /\ registered \in [Nodes -> Links \cup {None}]
  BY DEF StreamInv, StreamTypes, TraceInv, TraceTypes
<1>3. CASE UNCHANGED <<up, replies>>
  BY <1>1, <1>2, <1>3, RepliesShrink, SameLess
<1>4. ASSUME NEW S, StopStreams(S), UNCHANGED up PROVE TraceInv'
  <2>1. \A c \in Commands, k \in Links : Less(replies'[k], replies[k], Frame("result", c))
    BY <1>4, Ends DEF StopStreams, Less
  <2> QED BY <1>1, <1>2, <1>4, <2>1, RepliesShrink, SameLess
<1>5. ASSUME NEW n \in Nodes, Push(n) PROVE TraceInv'
  <2>1. replies' = [replies EXCEPT ![registered[n]] = Append(@, Frame("push", None))] /\ UNCHANGED up
    BY <1>5 DEF Push, EnqueueReply, wire
  <2>2. ASSUME NEW c \in Commands, NEW k \in Links PROVE Less(replies'[k], replies[k], Frame("result", c))
    <3>1. Frame("push", None) \in DownFrames /\ Frame("push", None) # Frame("result", c)
      BY OtherFrames DEF DownFrames
    <3>2. replies'[k] = replies[k] \/ replies'[k] = Append(replies[k], Frame("push", None))
      BY <1>2, <2>1
    <3>3. replies[k] \in Seq(DownFrames)
      BY <1>2
    <3> QED BY <3>1, <3>2, <3>3, LessQueues
  <2> QED BY <1>1, <1>2, <2>1, <2>2, RepliesShrink, SameLess
<1>6. ASSUME NEW l \in Links, StreamDone(l) PROVE TraceInv'
  <2>1. up' = [up EXCEPT ![l] = << >>] /\ UNCHANGED replies
    BY <1>6 DEF StreamDone
  <2>2. up' \in [Links -> Seq(UpFrames)]
    BY <1>2, <2>1, EmptyHas
  <2>3. ASSUME NEW c \in Commands, NEW k \in Links PROVE Less(up'[k], up[k], Frame("command", c))
    <3>1. (up'[k] = up[k] \/ up'[k] = << >>) /\ up[k] \in Seq(UpFrames)
      BY <1>2, <2>1
    <3> QED BY <3>1, LessQueues
  <2> QED BY <1>1, <2>1, <2>2, <2>3, RepliesShrink, SameLess
<1>7. ASSUME NEW l \in Links, Accept(l) \/ OnCancel(l) \/ SendStart(l) \/ Break(l) PROVE TraceInv'
  BY <1>3, <1>4, <1>7 DEF Accept, OnCancel, SendStart, Break, wire, mstream
<1>8. ASSUME NEW n \in Nodes, Drain(n) PROVE TraceInv'
  BY <1>4, <1>8 DEF Drain, wire
<1> QED BY <1>5, <1>6, <1>7, <1>8

\* driver::execute for send_command: one command with a correlation is pending,
\* and an earlier one that still runs has a connection that is gone.
LEMMA TraceExecute ==
    ASSUME LinkInv, TraceInv, NEW b \in Commands, Execute(b)
    PROVE  TraceInv'
<1>1. /\ UNCHANGED <<up, down, replies, executing, closed, link>> /\ outcome[b] = "queued"
  BY DEF Execute, gate, wire, mstream, rest
<1>2. /\ out \in [Links -> Seq(UpFrames)] /\ pending \in [Commands -> Links \cup {None}]
      /\ outcome \in [Commands -> {"new", "queued", "sent", "waiting", "result", "foreign", "failed",
                                   "cancelled", "refused"}]
      /\ up \in [Links -> Seq(UpFrames)] /\ down \in [Links -> Seq(DownFrames)]
  BY DEF LinkInv, LinkTypes, TraceInv, TraceTypes
<1>3. CASE outcome' = [outcome EXCEPT ![b] = "refused"] /\ UNCHANGED <<out, pending, inflight>>
  <2>1. Settles
    BY <1>1, <1>2, <1>3 DEF Settles
  <2>2. outcome' \in [Commands -> {"new", "queued", "sent", "waiting", "result", "foreign", "failed",
                                   "cancelled", "refused"}]
    BY <1>2, <1>3
  <2> QED BY <1>1, <1>3, <2>1, <2>2, OutShrinks, SameLess
<1>4. ASSUME NEW l \in Usable, ~Duplicate(b), Enqueue(l, Frame("command", b)), pending' = [pending EXCEPT ![b] = l],
             outcome' = [outcome EXCEPT ![b] = "sent"]
      PROVE  TraceInv'
  <2>1. l \in Links /\ link[l] # "finished"
    <3>1. l \in healthy /\ healthy \subseteq Links
      BY DEF Usable, LinkInv, LinkTypes
    <3> QED BY <3>1 DEF LinkInv, LinkSound
  <2>2. /\ outcome'[b] = "sent" /\ pending'[b] = l /\ \A c \in Commands \ {b} : outcome'[c] = outcome[c] /\ pending'[c] = pending[c]
    BY <1>2, <1>4
  <2>3. TraceTypes'
    BY <1>1, <1>2, <1>4, <2>1, <2>2 DEF TraceInv, TraceTypes
  <2>4. \A k \in Links : ~Underway(b, k)
    BY <1>1 DEF TraceInv, TraceSound
  <2>5. out'[l] = Append(out[l], Frame("command", b)) /\ \A k \in Links \ {l} : out'[k] = out[k]
    BY <1>2, <1>4, <2>1 DEF Enqueue
  <2>6. out[l] \in Seq(UpFrames) /\ Frame("command", b) \in UpFrames
    BY <1>2, <2>1 DEF UpFrames
  <2>7. ASSUME NEW c \in Commands, NEW k \in Links
        PROVE  /\ Arriving(c, k)' = Arriving(c, k) /\ Executing(c, k)' = Executing(c, k)
               /\ Answered(c, k)' = Answered(c, k) /\ Returning(c, k)' = Returning(c, k)
               /\ OnePlace(c, k) /\ Once(up'[k], Frame("command", c))
               /\ Once(replies'[k], Frame("result", c)) /\ Once(down'[k], Frame("result", c))
    BY <1>1 DEF Arriving, Executing, Answered, Returning, TraceInv, TraceSound, OnePlace
  <2>8. ASSUME NEW c \in Commands, NEW k \in Links, ~(c = b /\ k = l)
        PROVE  Less(out'[k], out[k], Frame("command", c))
    <3>1. CASE k # l
      BY <2>5, <3>1, SameLess
    <3>2. CASE k = l
      <4>1. Frame("command", b) # Frame("command", c)
        BY SMTT(30), <2>8, <3>2, Frames
      <4>2. Less(Append(out[l], Frame("command", b)), out[l], Frame("command", c))
        BY <2>6, <4>1, LessQueues
      <4> QED BY <2>5, <3>2, <4>2
    <3> QED BY <3>1, <3>2
  <2>9. ASSUME NEW c \in Commands, NEW k \in Links, ~(c = b /\ k = l)
        PROVE  OnePlace(c, k)' /\ (Underway(c, k)' => Underway(c, k))
    <3>1. /\ Leaving(c, k)' => Leaving(c, k)
          /\ Once(out'[k], Frame("command", c))
      BY <2>7, <2>8, <2>9 DEF Less, Leaving, OnePlace
    <3> QED BY <2>7, <3>1 DEF OnePlace, Underway
  <2>10. OnePlace(b, l)'
    <3>1. ~Has(out[l], Frame("command", b)) /\ Once(out[l], Frame("command", b))
      BY <2>1, <2>4, <2>7 DEF Underway, Leaving, OnePlace
    <3>2. Once(Append(out[l], Frame("command", b)), Frame("command", b))
      BY <2>6, <3>1, AppendHas
    <3>3. Once(out'[l], Frame("command", b))
      BY <2>5, <3>2
    <3> QED BY <2>1, <2>4, <2>7, <3>3 DEF OnePlace, Underway
  <2>11. ASSUME NEW c \in Commands, NEW k \in Links PROVE TraceSound(c, k)'
    <3>1. CASE c = b /\ k = l
      BY <2>2, <2>10, <3>1 DEF TraceSound
    <3>2. CASE c = b /\ k # l
      BY <2>2, <2>4, <2>9, <3>2 DEF TraceSound
    <3>3. CASE c # b
      BY <1>1, <2>2, <2>9, <3>3 DEF TraceInv, TraceSound
    <3> QED BY <3>1, <3>2, <3>3
  <2>12. ASSUME NEW c \in Commands, NEW d \in Commands, NEW k \in Links PROVE Mistaken(c, d, k)'
    <3> SUFFICES ASSUME Underway(c, k)', pending'[d] = k, Correlation[c] = Correlation[d], c # d
                 PROVE  Connection[d] \in closed
      BY <1>1 DEF Mistaken
    <3>1. ASSUME NEW p \in Commands, pending[p] \in Links, Correlation[p] = Correlation[b] PROVE FALSE
      BY <1>4, <3>1, LinkConstants DEF Duplicate, Pending
    <3>2. CASE d = b
      <4>1. k = l /\ Underway(c, k)
        BY <2>2, <2>9, <3>2
      <4>2. pending[c] = k \/ Connection[c] \in closed
        BY <2>1, <4>1 DEF TraceInv, TraceSound
      <4> QED BY <3>1, <3>2, <4>2, LinkConstants
    <3>3. CASE c = b /\ d # b
      BY <2>2, <3>1, <3>3
    <3>4. CASE c # b /\ d # b
      BY <2>2, <2>9, <3>4 DEF TraceInv, Mistaken
    <3> QED BY <3>2, <3>3, <3>4
  <2>13. ResultIsOwn'
    BY <1>1, <2>2 DEF TraceInv, ResultIsOwn
  <2> QED BY <2>3, <2>11, <2>12, <2>13 DEF TraceInv
<1> QED BY <1>3, <1>4 DEF Execute, CanSend

\* Every step of CommandLink.
LEMMA TraceStepKeeps ==
    ASSUME LinkInv, StreamInv, TraceInv, [Next]_vars
    PROVE  TraceInv'
<1>1. CASE UNCHANGED <<up, down, replies, executing, closed, link, table, out>>
  BY <1>1, RepliesShrink, SameLess DEF TraceInv, TraceTypes
<1>2. ASSUME NEW l \in Links, WriteStart(l) PROVE TraceInv'
  BY <1>1, <1>2 DEF WriteStart, gate, table, wire, mstream, rest
<1>3. CASE ControlEnds \/ StopReturns
  BY <1>1, <1>3 DEF ControlEnds, StopReturns, glink, table, wire, mstream, rest
<1>4. CASE UNCHANGED vars
  BY <1>1, <1>4 DEF vars, gate, glink, table, wire, mstream, rest
<1> QED BY <1>2, <1>3, <1>4, TraceStops, TraceTable, TraceOpens, TraceWriteDone, TraceSendDone, TraceOnDone,
           TraceReadFrame, TraceStreamRead, TraceReply, TraceServer, TraceExecute
        DEF Next, LinkStep, StreamStep, ControlStep, CommandStep
-----------------------------------------------------------------------------
(* The theorems.                                                           *)

Inductive == LinkInv /\ StreamInv /\ TraceInv

LEMMA InductiveInit == Init => Inductive
<1> SUFFICES ASSUME Init PROVE Inductive
  OBVIOUS
<1>1. Pending = {} /\ \A l \in Links : On(l) = {}
  BY LinkConstants DEF Init, Pending, On
<1>2. IsFiniteSet({}) /\ Cardinality({}) = 0 /\ 0 \in Int
  BY SMTT(30), FS_EmptySet
<1>3. LinkInv
  <2>1. LinkTypes
    BY <1>2, EmptyHas DEF Init, LinkTypes
  <2>2. ASSUME NEW l \in Links PROVE LinkSound(l)
    BY <1>1, <1>2 DEF Init, LinkSound, Alive
  <2>3. Ended
    BY DEF Init, Ended
  <2> QED BY <1>1, <1>2, <2>1, <2>2, <2>3 DEF LinkInv
<1>4. StreamInv
  <2>1. StreamTypes
    BY EmptyHas DEF Init, StreamTypes
  <2> QED BY <2>1 DEF StreamInv, Init, StreamSound, RegisteredSound
<1>5. TraceInv
  <2>1. TraceTypes
    BY EmptyHas DEF Init, TraceTypes
  <2>2. ASSUME NEW c \in Commands, NEW l \in Links PROVE ~Underway(c, l) /\ OnePlace(c, l)
    <3>1. /\ out[l] = << >> /\ up[l] = << >> /\ replies[l] = << >> /\ down[l] = << >> /\ executing = {}
      BY DEF Init
    <3> QED BY <3>1, EmptyHas DEF Underway, OnePlace, Leaving, Arriving, Executing, Answered, Returning
  <2>3. ResultIsOwn
    BY DEF Init, ResultIsOwn
  <2> QED BY <2>1, <2>2, <2>3 DEF TraceInv, TraceSound, Mistaken
<1> QED BY <1>3, <1>4, <1>5 DEF Inductive

LEMMA InductiveStep == Inductive /\ [Next]_vars => Inductive'
<1> SUFFICES ASSUME Inductive, [Next]_vars PROVE Inductive'
  OBVIOUS
<1>1. LinkInv /\ StreamInv /\ TraceInv /\ TraceTypes
  BY DEF Inductive, TraceInv
<1> QED BY <1>1, LinkStepKeeps, StreamStepKeeps, TraceStepKeeps DEF Inductive

LEMMA InductiveAlways == SafeSpec => []Inductive
BY InductiveInit, InductiveStep, PTL DEF SafeSpec

\* Neither side holds on to what is gone, for any number of calls, commands and
\* lost connections: the pointer of a pending command (pending_command::link) is
\* good, _inflight counts what it says, and _streams.at() in register_stream,
\* reply and forward does not throw.
THEOREM NothingDanglesAlways == SafeSpec => []NothingDangles
<1>1. Inductive => NothingDangles
  <2> SUFFICES ASSUME Inductive PROVE NothingDangles
    OBVIOUS
  <2>1. ASSUME NEW l \in Links
        PROVE  /\ On(l) # {} => link[l] \in {"open", "stopping"} /\ current[NodeOf[l]] = l
               /\ inflight[l] = Cardinality(On(l))
    BY DEF Inductive, LinkInv, LinkSound, Alive
  <2>2. ASSUME NEW n \in Nodes, registered[n] # None
        PROVE  stream[registered[n]] \in {"open", "stopping", "finishing"} /\ NodeOf[registered[n]] = n
    BY <2>2 DEF Inductive, StreamInv, RegisteredSound, Alive
  <2> QED BY <2>1, <2>2 DEF NothingDangles
<1> QED BY <1>1, InductiveAlways, PTL

\* A client is given the result of its own command: driver::on_grpc_frame takes
\* the pending entry with the correlation of the result, and no other command
\* with that correlation is under way on the link, unless its client is gone.
THEOREM ResultIsOwnAlways == SafeSpec => []ResultIsOwn
<1>1. Inductive => ResultIsOwn
  BY DEF Inductive, TraceInv
<1> QED BY <1>1, InductiveAlways, PTL

\* When driver::stop returns nothing is pending, no frame holds budget and no
\* link is alive, also if the control loop opened one after the abort.
THEOREM CleanStopAlways == SafeSpec => []CleanStop
<1>1. Inductive => CleanStop
  <2> SUFFICES ASSUME Inductive, stopped PROVE CleanStop
    BY DEF CleanStop
  <2>1. ASSUME NEW l \in Links
        PROVE  link[l] \in {"absent", "finished"} /\ out[l] = << >> /\ On(l) = {}
    <3>1. link[l] \notin Alive /\ LinkSound(l) /\ link[l] \in Alive \cup {"absent", "finished"}
      BY DEF Inductive, LinkInv, LinkTypes, Ended
    <3> QED BY <3>1 DEF LinkSound
  <2>2. Pending = {}
    BY <2>1 DEF Inductive, LinkInv, LinkTypes, Pending, On
  <2> QED BY <2>1, <2>2 DEF CleanStop
<1> QED BY <1>1, InductiveAlways, PTL
-----------------------------------------------------------------------------
(* Nothing waits for what cannot come.                                     *)

\* Message has told the Gateway, or is about to, that it knows the stream of call
\* l, or a command is on its way by it.
Told(l) ==
    \/ l \in healthy
    \/ Has(replies[l], Frame("registered", None)) \/ Has(down[l], Frame("registered", None))
Heard(l) == Told(l) \/ \E c \in Commands : Underway(c, l)

\* What is true of a call until it is cancelled or lost: a stream that the Gateway
\* has heard of is open and is the registered one, to which server::reply sends
\* the results, and each command pending on the link is on its way.
Clear(l) ==
    /\ stream[l] \in {"absent", "open"}
    /\ Heard(l) => stream[l] = "open" /\ registered[NodeOf[l]] = l
    /\ \A c \in Commands : pending[c] = l => Underway(c, l)

ClearInv ==
    /\ \A l \in Links : l \notin broken => Clear(l)
    /\ \A l \in Links : stream[l] = "open" => NodeOf[l] \notin draining

\* What a step does that neither tells more of call l nor loses a command on it.
Keeps(l) ==
    /\ stream'[l] = stream[l] /\ (registered[NodeOf[l]] = l => registered'[NodeOf[l]] = l)
    /\ Told(l)' => Told(l)
    /\ \A c \in Commands : Underway(c, l)' => Underway(c, l)
    /\ \A c \in Commands : pending'[c] = l => pending[c] = l /\ (Underway(c, l) => Underway(c, l)')

LEMMA ClearKept ==
    ASSUME NEW l \in Links, Clear(l), Keeps(l)
    PROVE  Clear(l)'
<1>1. Heard(l)' => Heard(l)
  BY DEF Heard, Keeps
<1> QED BY <1>1 DEF Clear, Keeps

\* A step that leaves the queues of call l alone.
Same(l) ==
    /\ out'[l] = out[l] /\ up'[l] = up[l] /\ replies'[l] = replies[l] /\ down'[l] = down[l]
    /\ \A c \in Commands : Executing(c, l)' <=> Executing(c, l)
    /\ l \in healthy' => l \in healthy
    /\ stream'[l] = stream[l] /\ (registered[NodeOf[l]] = l => registered'[NodeOf[l]] = l)
    /\ \A c \in Commands : pending'[c] = l => pending[c] = l

LEMMA ClearRests ==
    ASSUME NEW l \in Links, Clear(l), Same(l)
    PROVE  Clear(l)'
<1>1. Told(l)' => Told(l)
  BY DEF Told, Same
<1>2. ASSUME NEW c \in Commands PROVE Underway(c, l)' <=> Underway(c, l)
  <2>1. /\ Leaving(c, l)' <=> Leaving(c, l)
        /\ Arriving(c, l)' <=> Arriving(c, l)
        /\ Answered(c, l)' <=> Answered(c, l)
        /\ Returning(c, l)' <=> Returning(c, l)
        /\ Executing(c, l)' <=> Executing(c, l)
    BY DEF Same, Leaving, Arriving, Answered, Returning
  <2> QED BY <2>1 DEF Underway
<1>3. Keeps(l)
  BY <1>1, <1>2 DEF Keeps, Same
<1> QED BY <1>3, ClearKept

\* A link or a stream that is stopped is one whose call is cancelled.
LEMMA StopsBreak ==
    ASSUME NEW S, NEW l \in Links, l \notin broken'
    PROVE  /\ StopLinks(S) => l \notin broken /\ out'[l] = out[l] /\ (l \in healthy' => l \in healthy)
           /\ StopStreams(S) => /\ l \notin broken /\ stream'[l] = stream[l] /\ replies'[l] = replies[l]
                                /\ l \in S => stream[l] # "open"
<1>1. ASSUME StopLinks(S)
      PROVE  l \notin broken /\ out'[l] = out[l] /\ (l \in healthy' => l \in healthy)
  BY <1>1 DEF StopLinks
<1>2. ASSUME StopStreams(S)
      PROVE  /\ l \notin broken /\ stream'[l] = stream[l] /\ replies'[l] = replies[l]
             /\ l \in S => stream[l] # "open"
  BY <1>2 DEF StopStreams, Ending, Shortened
<1> QED BY <1>1, <1>2

\* The Gateway's steps that move no frame of a call that is still good.
LEMMA ClearGate ==
    ASSUME NEW l \in Links, l \notin broken', l \notin broken => Clear(l), LinkInv, TraceInv,
           \/ \E k \in Links : WriteStart(k) \/ ReadFails(k) \/ OnDone(k) \/ Break(k) \/ SendStart(k)
           \/ \E n \in Nodes : Retire(n) \/ CloseLink(n)
           \/ \E c \in Commands : Submit(c) \/ Resume(c)
           \/ \E k : CloseConnection(k)
           \/ Abort \/ ControlEnds \/ StopReturns \/ UNCHANGED vars
    PROVE  Clear(l)'
<1>1. ASSUME l \notin broken, Same(l) PROVE Clear(l)'
  BY <1>1, ClearRests
<1>2. ASSUME UNCHANGED <<out, healthy, up, down, replies, executing, stream, registered, broken>>,
             \A c \in Commands : pending'[c] = l => pending[c] = l
      PROVE  Clear(l)'
  BY <1>1, <1>2 DEF Same, Executing
<1>3. ASSUME NEW S, StopLinks(S), UNCHANGED <<pending, up, down, replies, executing, stream, registered>>
      PROVE  Clear(l)'
  BY <1>1, <1>3, StopsBreak DEF Same, Executing
<1>4. ASSUME NEW k \in Links, WriteStart(k) \/ SendStart(k) \/ ReadFails(k) PROVE Clear(l)'
  BY <1>2, <1>3, <1>4 DEF WriteStart, SendStart, ReadFails, glink, table, wire, mstream, rest
<1>5. ASSUME NEW k \in Links, OnDone(k) PROVE Clear(l)'
  <2>1. link[k] = "stopping" /\ l # k /\ down'[l] = down[l]
        /\ UNCHANGED <<healthy, out, broken, up, stream, replies, registered, executing>>
        /\ \A c \in Commands : pending'[c] = l => pending[c] = l
    <3>1. link[k] = "stopping" /\ UNCHANGED <<healthy, out, broken, up, stream, replies, registered, executing>>
          /\ down' = [down EXCEPT ![k] = << >>]
          /\ pending' = [c \in Commands |-> IF c \in On(k) THEN None ELSE pending[c]]
      BY <1>5 DEF OnDone, mstream, rest
    <3>2. l # k
      BY <3>1 DEF LinkInv, LinkSound
    <3>3. l # None
      BY LinkConstants
    <3>4. down'[l] = down[l]
      BY <3>1, <3>2 DEF TraceInv, TraceTypes
    <3> QED BY <3>1, <3>2, <3>3, <3>4
  <2> QED BY <1>1, <2>1 DEF Same, Executing
<1>6. ASSUME NEW k \in Links, Break(k) PROVE Clear(l)'
  <2>1. UNCHANGED <<pending, out, healthy, up, down, replies, executing, stream, registered>> /\ l \notin broken
    BY <1>6 DEF Break, glink, table, wire, mstream
  <2> QED BY <1>1, <2>1 DEF Same, Executing
<1>7. ASSUME NEW n \in Nodes, Retire(n) \/ CloseLink(n) PROVE Clear(l)'
  BY <1>3, <1>7 DEF Retire, CloseLink, table, wire, mstream, rest
<1>8. ASSUME NEW k, Cancel(k) PROVE \A c \in Commands : pending'[c] = l => pending[c] = l
  BY <1>8, LinkConstants DEF Cancel
<1>9. ASSUME NEW c \in Commands, Submit(c) \/ Resume(c) PROVE Clear(l)'
  BY <1>2, <1>8, <1>9 DEF Submit, Resume, glink, wire, mstream, rest
<1>10. ASSUME NEW k, CloseConnection(k) PROVE Clear(l)'
  BY <1>2, <1>8, <1>10 DEF CloseConnection, glink, wire, mstream, rest
<1>11. CASE Abort
  BY <1>3, <1>11 DEF Abort, wire, mstream, rest
<1>12. CASE ControlEnds \/ StopReturns \/ UNCHANGED vars
  BY <1>2, <1>12 DEF ControlEnds, StopReturns, vars, glink, table, wire, mstream, rest
<1> QED BY <1>4, <1>5, <1>6, <1>7, <1>9, <1>10, <1>11, <1>12

\* The first frame of one queue goes to the end of another, or is taken.
LEMMA FramePasses ==
    ASSUME NEW S, NEW q \in Seq(S), NEW r \in Seq(S), q # << >>, NEW g
    PROVE  /\ Has(Tail(q), g) \/ Has(Append(r, Head(q)), g) <=> Has(q, g) \/ Has(r, g)
           /\ Head(q) # g => (Has(Tail(q), g) <=> Has(q, g))
<1>1. /\ Head(q) \in S /\ Has(q, Head(q)) /\ (Has(Tail(q), g) => Has(q, g))
      /\ Has(q, g) => Head(q) = g \/ Has(Tail(q), g)
  BY TailHas
<1>2. Has(Append(r, Head(q)), g) <=> Has(r, g) \/ Head(q) = g
  BY <1>1, AppendHas
<1> QED BY <1>1, <1>2

\* message_link::OnWriteDone: the command is on the wire.
LEMMA ClearWriteDone ==
    ASSUME NEW l \in Links, l \notin broken', l \notin broken => Clear(l), LinkInv, TraceInv,
           NEW k \in Links, WriteDone(k)
    PROVE  Clear(l)'
<1>1. /\ k \in writing /\ UNCHANGED <<pending, broken, down, stream, replies, registered, executing>>
      /\ \/ /\ k \notin broken /\ up' = [up EXCEPT ![k] = Append(@, Head(out[k]))]
            /\ out' = [out EXCEPT ![k] = Tail(@)] /\ UNCHANGED healthy
         \/ /\ k \in broken /\ out' = [out EXCEPT ![k] = << >>] /\ healthy' = healthy \ {k}
            /\ UNCHANGED up
  BY DEF WriteDone, table, mstream, rest
<1>2. /\ out \in [Links -> Seq(UpFrames)] /\ up \in [Links -> Seq(UpFrames)] /\ out[k] # << >> /\ Clear(l)
  BY <1>1 DEF LinkInv, LinkTypes, LinkSound, TraceInv, TraceTypes
<1>3. CASE l # k
  <2>1. Same(l)
    BY <1>1, <1>2, <1>3 DEF Same, Executing
  <2> QED BY <1>2, <2>1, ClearRests
<1>4. CASE l = k
  <2>1. /\ up'[l] = Append(up[l], Head(out[l])) /\ out'[l] = Tail(out[l]) /\ UNCHANGED healthy
        /\ out[l] \in Seq(UpFrames) /\ up[l] \in Seq(UpFrames) /\ out[l] # << >>
    BY <1>1, <1>2, <1>4
  <2>2. ASSUME NEW c \in Commands PROVE Underway(c, l)' <=> Underway(c, l)
    <3>1. Leaving(c, l)' \/ Arriving(c, l)' <=> Leaving(c, l) \/ Arriving(c, l)
      <4>1. Has(Tail(out[l]), Frame("command", c)) \/ Has(Append(up[l], Head(out[l])), Frame("command", c))
            <=> Has(out[l], Frame("command", c)) \/ Has(up[l], Frame("command", c))
        BY <2>1, FramePasses
      <4> QED BY <2>1, <4>1 DEF Leaving, Arriving
    <3>2. /\ Executing(c, l)' <=> Executing(c, l)
          /\ Answered(c, l)' <=> Answered(c, l)
          /\ Returning(c, l)' <=> Returning(c, l)
      BY <1>1 DEF Executing, Answered, Returning
    <3> QED BY <3>1, <3>2 DEF Underway
  <2>3. Told(l)' <=> Told(l)
    BY <1>1, <2>1 DEF Told
  <2>4. Keeps(l)
    BY <1>1, <2>2, <2>3 DEF Keeps
  <2> QED BY <1>2, <2>4, ClearKept
<1> QED BY <1>3, <1>4

\* stream::OnWriteDone: the result, or the answer to a registration, is on the wire.
LEMMA ClearSendDone ==
    ASSUME NEW l \in Links, l \notin broken', l \notin broken => Clear(l), StreamInv, TraceInv,
           NEW k \in Links, SendDone(k)
    PROVE  Clear(l)'
<1>1. /\ k \in sending /\ UNCHANGED <<pending, broken, up, out, healthy, registered, executing>>
      /\ \/ /\ k \notin broken /\ down' = [down EXCEPT ![k] = Append(@, Head(replies[k]))]
            /\ replies' = [replies EXCEPT ![k] = Tail(@)] /\ UNCHANGED stream
         \/ /\ k \in broken /\ replies' = [replies EXCEPT ![k] = << >>]
            /\ stream' = [stream EXCEPT ![k] = "finishing"] /\ UNCHANGED down
  BY DEF SendDone, table, glink, rest
<1>2. /\ replies \in [Links -> Seq(DownFrames)] /\ down \in [Links -> Seq(DownFrames)] /\ replies[k] # << >>
      /\ Clear(l) /\ stream \in [Links -> Alive \cup {"absent", "finishing", "finished"}]
  BY <1>1 DEF StreamInv, StreamTypes, StreamSound, TraceInv, TraceTypes
<1>3. CASE l # k
  <2>1. Same(l)
    BY <1>1, <1>2, <1>3 DEF Same, Executing
  <2> QED BY <1>2, <2>1, ClearRests
<1>4. CASE l = k
  <2>1. /\ down'[l] = Append(down[l], Head(replies[l])) /\ replies'[l] = Tail(replies[l]) /\ UNCHANGED stream
        /\ replies[l] \in Seq(DownFrames) /\ down[l] \in Seq(DownFrames) /\ replies[l] # << >>
    BY <1>1, <1>2, <1>4
  <2>2. \A g : Has(Tail(replies[l]), g) \/ Has(Append(down[l], Head(replies[l])), g)
              <=> Has(replies[l], g) \/ Has(down[l], g)
    BY <2>1, FramePasses
  <2>3. ASSUME NEW c \in Commands PROVE Underway(c, l)' <=> Underway(c, l)
    <3>1. Answered(c, l)' \/ Returning(c, l)' <=> Answered(c, l) \/ Returning(c, l)
      BY <2>1, <2>2 DEF Answered, Returning
    <3>2. /\ Executing(c, l)' <=> Executing(c, l)
          /\ Leaving(c, l)' <=> Leaving(c, l)
          /\ Arriving(c, l)' <=> Arriving(c, l)
      BY <1>1 DEF Executing, Leaving, Arriving
    <3> QED BY <3>1, <3>2 DEF Underway
  <2>4. Told(l)' <=> Told(l)
    BY <1>1, <2>1, <2>2 DEF Told
  <2>5. Keeps(l)
    BY <1>1, <2>1, <2>3, <2>4 DEF Keeps
  <2> QED BY <1>2, <2>5, ClearKept
<1> QED BY <1>3, <1>4

\* grpc_control opens a link: its first frame is no command.
LEMMA ClearOpens ==
    ASSUME NEW l \in Links, l \notin broken', l \notin broken => Clear(l), LinkInv,
           NEW n \in Nodes, Connect(n) \/ Replace(n)
    PROVE  Clear(l)'
<1>1. UNCHANGED <<pending, healthy, up, down, stream, replies, registered, executing>>
  BY DEF Connect, Replace, table, wire, mstream, rest
<1>2. \/ UNCHANGED <<out, broken>>
      \/ \E k \in Links : Enqueue(k, Frame("register", None)) /\ UNCHANGED broken
      \/ \E k \in Links : broken' = broken \cup {k} /\ UNCHANGED out
  BY DEF Connect, Replace, OpenLink
<1>3. Clear(l) /\ out \in [Links -> Seq(UpFrames)] /\ Frame("register", None) \in UpFrames
  BY <1>2 DEF LinkInv, LinkTypes, UpFrames
<1>4. \A c \in Commands : Leaving(c, l)' <=> Leaving(c, l)
  <2>1. CASE UNCHANGED out
    BY <2>1 DEF Leaving
  <2>2. ASSUME NEW k \in Links, Enqueue(k, Frame("register", None)), NEW c \in Commands
        PROVE  Leaving(c, l)' <=> Leaving(c, l)
    <3>1. k # l => out'[l] = out[l]
      BY <1>3, <2>2 DEF Enqueue
    <3>2. k = l => out'[l] = Append(out[l], Frame("register", None))
      BY <1>3, <2>2 DEF Enqueue
    <3>3. out[l] \in Seq(UpFrames) /\ Frame("register", None) # Frame("command", c)
      BY <1>3, OtherFrames
    <3>4. Has(Append(out[l], Frame("register", None)), Frame("command", c))
          <=> Has(out[l], Frame("command", c)) \/ Frame("register", None) = Frame("command", c)
      BY <1>3, <3>3, AppendHas
    <3> QED BY <3>1, <3>2, <3>3, <3>4 DEF Leaving
  <2> QED BY <1>2, <2>1, <2>2
<1>5. ASSUME NEW c \in Commands PROVE Underway(c, l)' <=> Underway(c, l)
  <2>1. /\ Arriving(c, l)' <=> Arriving(c, l)
        /\ Executing(c, l)' <=> Executing(c, l)
        /\ Answered(c, l)' <=> Answered(c, l)
        /\ Returning(c, l)' <=> Returning(c, l)
    BY <1>1 DEF Arriving, Executing, Answered, Returning
  <2> QED BY <1>4, <2>1 DEF Underway
<1>6. Keeps(l)
  BY <1>1, <1>5 DEF Keeps, Told
<1> QED BY <1>3, <1>6, ClearKept

\* message_link::OnReadDone: the command whose result is read has its entry taken.
LEMMA ClearReadFrame ==
    ASSUME NEW l \in Links, l \notin broken', l \notin broken => Clear(l), LinkInv, TraceInv,
           NEW k \in Links, ReadFrame(k)
    PROVE  Clear(l)'
<1> DEFINE f == Head(down[k])
<1>1. /\ down[k] # << >> /\ down' = [down EXCEPT ![k] = Tail(@)]
      /\ UNCHANGED <<up, stream, replies, registered, executing>>
  BY DEF ReadFrame, mstream, rest
<1>2. \/ f.kind = "registered" /\ healthy' \subseteq healthy \cup {k} /\ UNCHANGED <<out, broken, pending>>
      \/ /\ f.kind = "result" /\ UNCHANGED <<healthy, out, broken>>
         /\ pending' = [c \in Commands |-> IF c \in Resolves(k, f.cmd) THEN None ELSE pending[c]]
      \/ f.kind = "push" /\ Enqueue(k, Frame("ack", None)) /\ UNCHANGED <<healthy, broken, pending>>
      \/ f.kind = "push" /\ StopLinks({k}) /\ UNCHANGED pending
  BY DEF ReadFrame, table
<1>3. /\ down \in [Links -> Seq(DownFrames)] /\ out \in [Links -> Seq(UpFrames)] /\ f \in DownFrames
      /\ Frame("ack", None) \in UpFrames /\ l # None
  <2>1. down \in [Links -> Seq(DownFrames)] /\ out \in [Links -> Seq(UpFrames)]
    BY DEF LinkInv, LinkTypes, TraceInv, TraceTypes
  <2>2. down[k] \in Seq(DownFrames)
    BY <2>1
  <2>3. Head(down[k]) \in DownFrames
    BY <1>1, <2>2, TailHas
  <2> QED BY <2>1, <2>3, LinkConstants DEF UpFrames
<1>4. Clear(l) /\ \A c \in Commands : pending'[c] = l => pending[c] = l
  BY <1>2, <1>3, StopsBreak
<1>5. ASSUME NEW c \in Commands PROVE Leaving(c, l)' <=> Leaving(c, l)
  <2>1. CASE out'[l] = out[l]
    BY <2>1 DEF Leaving
  <2>2. CASE Enqueue(k, Frame("ack", None)) /\ k = l
    <3>1. out'[l] = Append(out[l], Frame("ack", None))
      BY <1>3, <2>2 DEF Enqueue
    <3>2. out[l] \in Seq(UpFrames) /\ Frame("ack", None) \in UpFrames /\ Frame("ack", None) # Frame("command", c)
      BY <1>3, OtherFrames
    <3>3. Has(Append(out[l], Frame("ack", None)), Frame("command", c)) <=> Has(out[l], Frame("command", c))
      BY <3>2, AppendHas
    <3> QED BY <3>1, <3>3 DEF Leaving
  <2>3. CASE Enqueue(k, Frame("ack", None)) /\ k # l
    <3>1. out'[l] = out[l]
      BY <1>3, <2>3 DEF Enqueue
    <3> QED BY <2>1, <3>1
  <2>4. ASSUME StopLinks({k}) PROVE out'[l] = out[l]
    BY <2>4, StopsBreak
  <2> QED BY <1>2, <2>1, <2>2, <2>3, <2>4
<1>6. ASSUME NEW c \in Commands
      PROVE  /\ Arriving(c, l)' <=> Arriving(c, l)
             /\ Executing(c, l)' <=> Executing(c, l)
             /\ Answered(c, l)' <=> Answered(c, l)
  BY <1>1 DEF Arriving, Executing, Answered
<1>7. CASE k # l
  <2>1. down'[l] = down[l] /\ (l \in healthy' => l \in healthy)
    BY <1>1, <1>2, <1>3, <1>7, StopsBreak
  <2>2. ASSUME NEW c \in Commands PROVE Underway(c, l)' <=> Underway(c, l)
    BY <1>5, <1>6, <2>1 DEF Underway, Returning
  <2>3. Keeps(l)
    BY <1>1, <1>4, <2>1, <2>2 DEF Keeps, Told
  <2> QED BY <1>4, <2>3, ClearKept
<1>8. CASE k = l
  <2>1. /\ down'[l] = Tail(down[l]) /\ down[l] \in Seq(DownFrames) /\ f = Head(down[l]) /\ down[l] # << >>
    BY <1>1, <1>3, <1>8
  <2>2. \A g : Has(down'[l], g) => Has(down[l], g)
    BY <2>1, TailHas
  <2>3. \A g : f # g => (Has(down'[l], g) <=> Has(down[l], g))
    BY <2>1, FramePasses
  <2>4. f.kind = "registered" => f = Frame("registered", None)
    BY SMTT(30), <1>3 DEF DownFrames, Frame
  <2>5. Told(l)' => Told(l)
    <3>1. Has(down[l], f)
      BY <2>1, TailHas
    <3>2. l \in healthy' => l \in healthy \/ f.kind = "registered"
      BY <1>2, StopsBreak
    <3> QED BY <1>1, <2>2, <2>4, <3>1, <3>2 DEF Told
  <2>6. ASSUME NEW c \in Commands PROVE Underway(c, l)' => Underway(c, l)
    BY <1>5, <1>6, <2>2 DEF Underway, Returning
  <2>7. ASSUME NEW c \in Commands, pending'[c] = l, Underway(c, l) PROVE Underway(c, l)'
    <3>1. f # Frame("result", c)
      <4>1. ASSUME f = Frame("result", c) PROVE FALSE
        <5>1. f.kind = "result" /\ f.cmd = c
          BY SMTT(30), <4>1 DEF Frame
        <5>2. pending' = [d \in Commands |-> IF d \in Resolves(k, f.cmd) THEN None ELSE pending[d]]
          BY <1>2, <5>1
        <5>3. c \in Resolves(k, f.cmd)
          BY <1>4, <1>8, <2>7, <5>1 DEF Resolves, On
        <5> QED BY <1>3, <2>7, <5>2, <5>3
      <4> QED BY <4>1
    <3>2. Returning(c, l)' <=> Returning(c, l)
      BY <2>3, <3>1 DEF Returning
    <3> QED BY <1>5, <1>6, <2>7, <3>2 DEF Underway
  <2>8. Keeps(l)
    BY <1>1, <1>4, <2>5, <2>6, <2>7 DEF Keeps
  <2> QED BY <1>4, <2>8, ClearKept
<1> QED BY <1>7, <1>8

\* driver::execute: a command is sent by a link that Message has confirmed.
LEMMA ClearExecute ==
    ASSUME NEW l \in Links, l \notin broken', l \notin broken => Clear(l), LinkInv,
           NEW c \in Commands, Execute(c)
    PROVE  Clear(l)'
<1>1. UNCHANGED <<healthy, broken, up, down, stream, replies, registered, executing>> /\ Clear(l)
  BY DEF Execute, wire, mstream, rest
<1>2. CASE UNCHANGED <<out, pending>>
  BY <1>1, <1>2, ClearRests DEF Same, Executing
<1>3. ASSUME NEW k \in Usable, Enqueue(k, Frame("command", c)), pending' = [pending EXCEPT ![c] = k]
      PROVE  Clear(l)'
  <2>1. /\ k \in healthy /\ k \in Links /\ out \in [Links -> Seq(UpFrames)]
        /\ pending \in [Commands -> Links \cup {None}] /\ Frame("command", c) \in UpFrames
    BY <1>3 DEF Usable, LinkInv, LinkTypes, UpFrames
  <2>2. CASE k # l
    <3>1. out'[l] = out[l] /\ \A d \in Commands : pending'[d] = l => pending[d] = l
      BY <1>3, <2>1, <2>2 DEF Enqueue
    <3> QED BY <1>1, <3>1, ClearRests DEF Same, Executing
  <2>3. CASE k = l
    <3>1. /\ out'[l] = Append(out[l], Frame("command", c)) /\ out[l] \in Seq(UpFrames)
          /\ \A d \in Commands : d # c => pending'[d] = pending[d]
      BY <1>3, <2>1, <2>3 DEF Enqueue
    <3>2. Leaving(c, l)' /\ \A d \in Commands : Leaving(d, l) => Leaving(d, l)'
      <4>1. out[l] \in Seq(UpFrames) /\ Frame("command", c) \in UpFrames
        BY <2>1, <3>1
      <4>2. \A g : Has(Append(out[l], Frame("command", c)), g) <=> Has(out[l], g) \/ Frame("command", c) = g
        BY <4>1, AppendHas
      <4> QED BY <3>1, <4>2 DEF Leaving
    <3>3. ASSUME NEW d \in Commands, Underway(d, l) PROVE Underway(d, l)'
      BY <1>1, <3>2, <3>3 DEF Underway, Arriving, Executing, Answered, Returning
    <3>4. Heard(l)
      BY <2>1, <2>3 DEF Heard, Told
    <3>5. ASSUME NEW d \in Commands, pending'[d] = l PROVE Underway(d, l)'
      BY <1>1, <3>1, <3>2, <3>3, <3>5 DEF Clear, Underway
    <3> QED BY <1>1, <3>4, <3>5 DEF Clear
  <2> QED BY <2>2, <2>3
<1> QED BY <1>2, <1>3 DEF Execute

\* Message's steps that end streams, or hand a stream its first frame.
LEMMA ClearStreams ==
    ASSUME NEW l \in Links, l \notin broken', l \notin broken => Clear(l), StreamInv, TraceInv,
           \/ \E k \in Links : OnCancel(k) \/ StreamDone(k)
           \/ \E n \in Nodes : Drain(n)
    PROVE  Clear(l)'
<1>1. ASSUME NEW S, StopStreams(S), UNCHANGED <<pending, out, healthy, up, down, executing, registered>>
      PROVE  Clear(l)'
  BY <1>1, StopsBreak, ClearRests DEF Same, Executing
<1>2. ASSUME NEW k \in Links, OnCancel(k) PROVE Clear(l)'
  BY <1>1, <1>2 DEF OnCancel, glink, table, wire, rest
<1>3. ASSUME NEW n \in Nodes, Drain(n) PROVE Clear(l)'
  BY <1>1, <1>3 DEF Drain, glink, table, wire
<1>4. ASSUME NEW k \in Links, StreamDone(k) PROVE Clear(l)'
  <2>1. /\ stream[k] = "finishing" /\ stream' = [stream EXCEPT ![k] = "finished"]
        /\ registered' = [n \in Nodes |-> IF registered[n] = k THEN None ELSE registered[n]]
        /\ up' = [up EXCEPT ![k] = << >>]
        /\ UNCHANGED <<pending, broken, out, healthy, down, replies, executing>>
    BY <1>4 DEF StreamDone, glink, table, rest
  <2>2. Clear(l) /\ NodeOf[l] \in Nodes
    BY <2>1, LinkConstants
  <2>3. l # k
    BY <2>1, <2>2 DEF Clear
  <2>4. stream'[l] = stream[l] /\ up'[l] = up[l]
    BY <2>1, <2>3 DEF StreamInv, StreamTypes, TraceInv, TraceTypes
  <2>5. registered[NodeOf[l]] = l => registered'[NodeOf[l]] = l
    BY <2>1, <2>2, <2>3
  <2>6. Same(l)
    BY <2>1, <2>4, <2>5 DEF Same, Executing
  <2> QED BY <2>2, <2>6, ClearRests
<1> QED BY <1>2, <1>3, <1>4

\* server::Connect: nothing is known of a call that Message has not accepted.
LEMMA ClearAccept ==
    ASSUME NEW l \in Links, l \notin broken', l \notin broken => Clear(l), StreamInv,
           NEW k \in Links, Accept(k)
    PROVE  Clear(l)'
<1>1. /\ stream[k] = "absent" /\ UNCHANGED <<pending, out, healthy, up, down, replies, registered, executing>>
      /\ \/ stream' = [stream EXCEPT ![k] = "open"] /\ UNCHANGED broken
         \/ stream' = [stream EXCEPT ![k] = "finishing"] /\ broken' = broken \cup {k}
  BY DEF Accept, glink, table, wire, rest
<1>2. Clear(l) /\ stream \in [Links -> Alive \cup {"absent", "finishing", "finished"}]
  BY <1>1 DEF StreamInv, StreamTypes
<1>3. CASE l # k
  <2>1. Same(l)
    BY <1>1, <1>2, <1>3 DEF Same, Executing
  <2> QED BY <1>2, <2>1, ClearRests
<1>4. CASE l = k
  <2>1. stream'[l] = "open" /\ ~Heard(l)
    BY <1>1, <1>2, <1>4 DEF Clear
  <2>2. ASSUME NEW c \in Commands PROVE ~Underway(c, l)' /\ pending'[c] # l
    <3>1. Underway(c, l)' <=> Underway(c, l)
      BY <1>1 DEF Underway, Leaving, Arriving, Executing, Answered, Returning
    <3> QED BY <1>1, <1>2, <2>1, <3>1 DEF Heard, Clear
  <2>3. ~Told(l)'
    BY <1>1, <2>1 DEF Heard, Told
  <2> QED BY <2>1, <2>2, <2>3 DEF Clear, Heard
<1> QED BY <1>3, <1>4

\* server::forward: a push tells nothing of a command.
LEMMA ClearPush ==
    ASSUME NEW l \in Links, l \notin broken', l \notin broken => Clear(l), StreamInv,
           NEW n \in Nodes, Push(n)
    PROVE  Clear(l)'
<1> DEFINE t == registered[n]
<1>1. /\ UNCHANGED <<pending, broken, out, healthy, up, down, stream, registered, executing>>
      /\ replies' = [replies EXCEPT ![t] = Append(@, Frame("push", None))]
      /\ Clear(l)
  BY DEF Push, EnqueueReply, glink, table, wire
<1>2. replies \in [Links -> Seq(DownFrames)] /\ Frame("push", None) \in DownFrames
  BY DEF StreamInv, StreamTypes, DownFrames
<1>3. CASE l # t
  <2>1. replies'[l] = replies[l]
    BY <1>1, <1>2, <1>3
  <2>2. Same(l)
    BY <1>1, <2>1 DEF Same, Executing
  <2> QED BY <1>1, <2>2, ClearRests
<1>4. CASE l = t
  <2>1. replies'[l] = Append(replies[l], Frame("push", None)) /\ replies[l] \in Seq(DownFrames)
    BY <1>1, <1>2, <1>4
  <2>2. \A g : Frame("push", None) # g => (Has(replies'[l], g) <=> Has(replies[l], g))
    <3>1. replies[l] \in Seq(DownFrames) /\ Frame("push", None) \in DownFrames
      BY <1>2, <2>1
    <3>2. \A g : Has(Append(replies[l], Frame("push", None)), g) <=> Has(replies[l], g) \/ Frame("push", None) = g
      BY <3>1, AppendHas
    <3> QED BY <2>1, <3>2
  <2>3. Frame("push", None) # Frame("registered", None)
    BY SMTT(30) DEF Frame
  <2>4. ASSUME NEW c \in Commands PROVE Underway(c, l)' <=> Underway(c, l)
    <3>1. Answered(c, l)' <=> Answered(c, l)
      BY <2>2, OtherFrames DEF Answered
    <3>2. /\ Executing(c, l)' <=> Executing(c, l)
          /\ Leaving(c, l)' <=> Leaving(c, l)
          /\ Arriving(c, l)' <=> Arriving(c, l)
          /\ Returning(c, l)' <=> Returning(c, l)
      BY <1>1 DEF Executing, Leaving, Arriving, Returning
    <3> QED BY <3>1, <3>2 DEF Underway
  <2>5. Told(l)' <=> Told(l)
    BY <1>1, <2>2, <2>3 DEF Told
  <2>6. Keeps(l)
    BY <1>1, <2>4, <2>5 DEF Keeps
  <2> QED BY <1>1, <2>6, ClearKept
<1> QED BY <1>3, <1>4

\* service::reply: the stream that the command came by is the registered one, so
\* the result is queued for it, or there is no room and the stream is stopped.
LEMMA ClearReply ==
    ASSUME NEW l \in Links, l \notin broken', ClearInv, StreamInv,
           NEW b \in Commands, NEW k \in Links, Reply(b, k)
    PROVE  Clear(l)'
<1>1. /\ Executing(b, k) /\ executing' = executing \ {<<b, k>>}
      /\ UNCHANGED <<pending, out, healthy, up, down, registered>>
      /\ \/ Destination(k) = {} /\ UNCHANGED <<stream, replies, broken>>
         \/ k \in Destination(k) /\ EnqueueReply(k, Frame("result", b))
         \/ k \in Destination(k) /\ StopStreams({k})
  BY DEF Reply, Executing, Destination, glink, table, wire
<1>2. replies \in [Links -> Seq(DownFrames)] /\ Frame("result", b) \in DownFrames
  BY DEF StreamInv, StreamTypes, DownFrames
<1>3. l \notin broken /\ Clear(l)
  BY <1>1, StopsBreak DEF ClearInv, EnqueueReply
<1>4. CASE l # k
  <2>1. stream'[l] = stream[l] /\ replies'[l] = replies[l]
    BY <1>1, <1>2, <1>4, StopsBreak DEF EnqueueReply
  <2>2. ASSUME NEW c \in Commands PROVE Executing(c, l)' <=> Executing(c, l)
    <3>1. <<c, l>> # <<b, k>>
      BY SMTT(30), <1>4
    <3> QED BY <1>1, <3>1 DEF Executing
  <2>3. Same(l)
    BY <1>1, <2>1, <2>2 DEF Same
  <2> QED BY <1>3, <2>3, ClearRests
<1>5. CASE l = k
  <2>1. k \in Destination(k) /\ stream[k] = "open"
    <3>1. Heard(k)
      BY <1>1 DEF Heard, Underway
    <3> QED BY <1>3, <1>5, <3>1 DEF Clear, ClearInv, Destination
  <2>2. EnqueueReply(k, Frame("result", b))
    BY <1>1, <1>5, <2>1, StopsBreak
  <2>3. /\ replies'[l] = Append(replies[l], Frame("result", b)) /\ replies[l] \in Seq(DownFrames)
        /\ UNCHANGED stream
    BY <1>2, <1>5, <2>2 DEF EnqueueReply
  <2>4. \A g : Has(replies'[l], g) <=> Has(replies[l], g) \/ Frame("result", b) = g
    <3>1. replies[l] \in Seq(DownFrames) /\ Frame("result", b) \in DownFrames
      BY <1>2, <2>3
    <3>2. \A g : Has(Append(replies[l], Frame("result", b)), g) <=> Has(replies[l], g) \/ Frame("result", b) = g
      BY <3>1, AppendHas
    <3> QED BY <2>3, <3>2
  <2>5. Told(l)' <=> Told(l)
    BY <1>1, <2>4, OtherFrames DEF Told
  <2>6. ASSUME NEW c \in Commands PROVE Underway(c, l)' <=> Underway(c, l)
    <3>1. /\ Leaving(c, l)' <=> Leaving(c, l)
          /\ Arriving(c, l)' <=> Arriving(c, l)
          /\ Returning(c, l)' <=> Returning(c, l)
      BY <1>1 DEF Leaving, Arriving, Returning
    <3>2. CASE c = b
      BY <1>1, <1>5, <2>4, <3>2 DEF Underway, Answered, Executing
    <3>3. CASE c # b
      <4>1. <<c, l>> # <<b, k>> /\ Frame("result", b) # Frame("result", c)
        BY SMTT(30), <3>3, Frames
      <4>2. (Executing(c, l)' <=> Executing(c, l)) /\ (Answered(c, l)' <=> Answered(c, l))
        BY <1>1, <2>4, <4>1 DEF Executing, Answered
      <4> QED BY <3>1, <4>2 DEF Underway
    <3> QED BY <3>2, <3>3
  <2>7. Keeps(l)
    BY <1>1, <2>3, <2>5, <2>6 DEF Keeps
  <2> QED BY <1>3, <2>7, ClearKept
<1> QED BY <1>4, <1>5

\* server::register_stream: the stream is the registered one before the answer is
\* queued, and the one it takes the place of is stopped.
LEMMA ClearRegister ==
    ASSUME NEW l \in Links, l \notin broken', ClearInv, StreamInv, TraceInv, NEW k \in Links, StreamRead(k),
           Head(up[k]).kind = "register"
    PROVE  Clear(l)'
<1> DEFINE old == {registered[NodeOf[k]]} \ {None}
           answer == Frame("registered", None)
<1>1. /\ stream[k] = "open" /\ up[k] # << >> /\ up' = [up EXCEPT ![k] = Tail(@)]
      /\ UNCHANGED <<pending, out, healthy, down, executing>>
      /\ registered' = [registered EXCEPT ![NodeOf[k]] = k]
      /\ \/ /\ stream' = Ending(old) /\ replies' = [Shortened(old) EXCEPT ![k] = Append(@, answer)]
            /\ broken' = broken \cup {o \in old : stream[o] = "open"}
         \/ StopStreams(old \cup {k})
  <2>1. Head(up[k]).kind # "command" /\ Head(up[k]).kind # "ack"
    OBVIOUS
  <2> QED BY <2>1 DEF StreamRead, Register, glink, table
<1>2. /\ up \in [Links -> Seq(UpFrames)] /\ replies \in [Links -> Seq(DownFrames)]
      /\ registered \in [Nodes -> Links \cup {None}]
      /\ stream \in [Links -> Alive \cup {"absent", "finishing", "finished"}]
      /\ NodeOf[l] \in Nodes /\ NodeOf[k] \in Nodes /\ l # None
      /\ Shortened(old) \in [Links -> Seq(DownFrames)]
  BY Ends, LinkConstants DEF StreamInv, StreamTypes, TraceInv, TraceTypes
<1>3. l \notin broken /\ (l \in old => stream[l] # "open") /\ Clear(l)
  <2>1. CASE broken' = broken \cup {o \in old : stream[o] = "open"}
    BY <2>1 DEF ClearInv
  <2>2. CASE StopStreams(old \cup {k})
    <3>1. l \notin broken /\ (l \in old \cup {k} => stream[l] # "open")
      BY <2>2, StopsBreak
    <3> QED BY <3>1 DEF ClearInv
  <2> QED BY <1>1, <2>1, <2>2
<1>4. stream'[l] = stream[l] /\ Shortened(old)[l] = replies[l]
  <2>1. Ending(old)[l] = stream[l] /\ Shortened(old)[l] = replies[l]
    BY <1>3 DEF Ending, Shortened
  <2> QED BY <1>1, <2>1, StopsBreak
<1>5. CASE l # k
  <2>1. up'[l] = up[l] /\ replies'[l] = replies[l]
    BY <1>1, <1>2, <1>4, <1>5, StopsBreak
  <2>2. ASSUME registered[NodeOf[l]] = l PROVE NodeOf[l] # NodeOf[k]
    <3>1. stream[l] = "open"
      BY <1>2, <1>3, <2>2 DEF StreamInv, RegisteredSound, Clear, Alive
    <3> QED BY <1>2, <1>3, <2>2, <3>1
  <2>3. registered[NodeOf[l]] = l => registered'[NodeOf[l]] = l
    BY <1>1, <1>2, <2>2
  <2>4. Same(l)
    BY <1>1, <1>4, <2>1, <2>3 DEF Same, Executing
  <2> QED BY <1>3, <2>4, ClearRests
<1>6. CASE l = k
  <2>1. /\ replies'[l] = Append(replies[l], answer) /\ up'[l] = Tail(up[l]) /\ registered'[NodeOf[l]] = l
        /\ replies[l] \in Seq(DownFrames) /\ up[l] \in Seq(UpFrames) /\ up[l] # << >>
    <3>1. ASSUME StopStreams(old \cup {k}) PROVE FALSE
      <4>1. l \in old \cup {k} => stream[l] # "open"
        BY <3>1, StopsBreak
      <4> QED BY <1>1, <1>6, <4>1
    <3>2. replies' = [Shortened(old) EXCEPT ![k] = Append(@, answer)]
      BY <1>1, <3>1
    <3>3. replies'[l] = Append(replies[l], answer) /\ replies[l] \in Seq(DownFrames)
      BY <1>2, <1>4, <1>6, <3>2
    <3>4. up'[l] = Tail(up[l]) /\ up[l] \in Seq(UpFrames) /\ up[l] # << >>
      BY <1>1, <1>2, <1>6
    <3>5. registered'[NodeOf[l]] = l
      BY <1>1, <1>2, <1>6
    <3> QED BY <3>3, <3>4, <3>5
  <2>2. \A g : Has(replies[l], g) => Has(replies'[l], g)
    <3>1. replies[l] \in Seq(DownFrames) /\ answer \in DownFrames
      BY <2>1 DEF DownFrames
    <3>2. \A g : Has(replies[l], g) => Has(Append(replies[l], answer), g)
      BY <3>1, AppendHas
    <3> QED BY <2>1, <3>2
  <2>3. ASSUME NEW c \in Commands PROVE Arriving(c, l)' <=> Arriving(c, l)
    <3>1. Head(up[l]) # Frame("command", c)
      BY SMTT(30), <1>6 DEF Frame
    <3>2. Has(Tail(up[l]), Frame("command", c)) <=> Has(up[l], Frame("command", c))
      BY <2>1, <3>1, FramePasses
    <3> QED BY <2>1, <3>2 DEF Arriving
  <2>4. ASSUME NEW c \in Commands, Underway(c, l) PROVE Underway(c, l)'
    BY <1>1, <2>2, <2>3, <2>4 DEF Underway, Leaving, Executing, Answered, Returning
  <2> QED BY <1>1, <1>3, <1>4, <1>6, <2>1, <2>4 DEF Clear
<1> QED BY <1>5, <1>6

\* server::process for a command or an acknowledgement.
LEMMA ClearProcess ==
    ASSUME NEW l \in Links, l \notin broken', ClearInv, TraceInv, NEW k \in Links, StreamRead(k),
           Head(up[k]).kind # "register"
    PROVE  Clear(l)'
<1> DEFINE f == Head(up[k])
<1>1. /\ up[k] # << >> /\ up' = [up EXCEPT ![k] = Tail(@)]
      /\ UNCHANGED <<pending, out, healthy, down, stream, replies, registered, broken>>
      /\ \/ f.kind = "command" /\ executing' = executing \cup {<<f.cmd, k>>}
         \/ f.kind = "ack" /\ UNCHANGED executing
  BY DEF StreamRead, glink, table
<1>2. up \in [Links -> Seq(UpFrames)] /\ up[k] \in Seq(UpFrames) /\ Clear(l)
  BY <1>1 DEF ClearInv, TraceInv, TraceTypes
<1>3. f \in UpFrames
  BY <1>1, <1>2, TailHas
<1>4. CASE l # k
  <2>1. up'[l] = up[l]
    BY <1>1, <1>2, <1>4
  <2>2. ASSUME NEW c \in Commands PROVE Executing(c, l)' <=> Executing(c, l)
    <3>1. <<c, l>> # <<f.cmd, k>>
      BY SMTT(30), <1>4
    <3> QED BY <1>1, <3>1 DEF Executing
  <2>3. Same(l)
    BY <1>1, <2>1, <2>2 DEF Same
  <2> QED BY <1>2, <2>3, ClearRests
<1>5. CASE l = k
  <2>1. up'[l] = Tail(up[l]) /\ up[l] \in Seq(UpFrames) /\ up[l] # << >> /\ f = Head(up[l])
    BY <1>1, <1>2, <1>5
  <2>2. ASSUME NEW c \in Commands PROVE Arriving(c, l)' \/ Executing(c, l)' <=> Arriving(c, l) \/ Executing(c, l)
    <3>1. CASE f = Frame("command", c)
      <4>1. f.kind = "command" /\ f.cmd = c
        BY SMTT(30), <3>1 DEF Frame
      <4>2. Executing(c, l)'
        BY <1>1, <1>5, <4>1 DEF Executing
      <4>3. Arriving(c, l)
        <5>1. Has(up[l], Head(up[l]))
          BY <2>1, TailHas
        <5> QED BY <2>1, <3>1, <5>1 DEF Arriving
      <4> QED BY <4>2, <4>3
    <3>2. CASE f # Frame("command", c)
      <4>1. Arriving(c, l)' <=> Arriving(c, l)
        <5>1. Has(Tail(up[l]), Frame("command", c)) <=> Has(up[l], Frame("command", c))
          BY <2>1, <3>2, FramePasses
        <5> QED BY <2>1, <5>1 DEF Arriving
      <4>2. f.kind = "command" => f.cmd # c
        BY <1>3, <3>2, FrameOf
      <4>3. f.kind = "command" => <<c, l>> # <<f.cmd, k>>
        BY SMTT(30), <4>2
      <4>4. Executing(c, l)' <=> Executing(c, l)
        BY <1>1, <4>3 DEF Executing
      <4> QED BY <4>1, <4>4
    <3> QED BY <3>1, <3>2
  <2>3. ASSUME NEW c \in Commands PROVE Underway(c, l)' <=> Underway(c, l)
    <3>1. /\ Leaving(c, l)' <=> Leaving(c, l)
          /\ Answered(c, l)' <=> Answered(c, l)
          /\ Returning(c, l)' <=> Returning(c, l)
      BY <1>1 DEF Leaving, Answered, Returning
    <3> QED BY <2>2, <3>1 DEF Underway
  <2>4. Told(l)' <=> Told(l)
    BY <1>1 DEF Told
  <2>5. Keeps(l)
    BY <1>1, <2>3, <2>4 DEF Keeps
  <2> QED BY <1>2, <2>5, ClearKept
<1> QED BY <1>4, <1>5

\* A server that is stopping has no open stream.
LEMMA DrainedStep ==
    ASSUME StreamInv, [Next]_vars, \A l \in Links : stream[l] = "open" => NodeOf[l] \notin draining
    PROVE  \A l \in Links : stream'[l] = "open" => NodeOf[l] \notin draining'
<1> SUFFICES ASSUME NEW l \in Links, stream'[l] = "open" PROVE NodeOf[l] \notin draining'
  OBVIOUS
<1>1. stream \in [Links -> Alive \cup {"absent", "finishing", "finished"}]
  BY DEF StreamInv, StreamTypes
<1>2. ASSUME NEW S PROVE Ending(S)[l] = "open" => stream[l] = "open" /\ l \notin S
  BY DEF Ending
<1>3. ASSUME UNCHANGED draining, stream[l] = "open" PROVE NodeOf[l] \notin draining'
  BY <1>3
<1>4. CASE UNCHANGED <<stream, draining>>
  BY <1>3, <1>4
<1>5. ASSUME NEW k \in Links, LinkStep(k) \/ Break(k) \/ SendStart(k) PROVE UNCHANGED <<stream, draining>>
  BY <1>5 DEF LinkStep, WriteStart, WriteDone, ReadFrame, ReadFails, OnDone, Break, SendStart, mstream, rest
<1>6. ASSUME NEW n \in Nodes, Connect(n) \/ Retire(n) \/ Push(n) PROVE UNCHANGED <<stream, draining>>
  BY <1>6 DEF Connect, Retire, Push, EnqueueReply, mstream, rest
<1>7. ASSUME NEW c \in Commands, Submit(c) \/ Execute(c) \/ Resume(c) PROVE UNCHANGED <<stream, draining>>
  BY <1>7 DEF Submit, Execute, Resume, mstream, rest
<1>8. ASSUME NEW k, CloseConnection(k) PROVE UNCHANGED <<stream, draining>>
  BY <1>8 DEF CloseConnection, mstream, rest
<1>9. ASSUME ControlStep \/ Abort \/ UNCHANGED vars PROVE UNCHANGED <<stream, draining>>
  BY <1>9 DEF ControlStep, Replace, CloseLink, ControlEnds, StopReturns, Abort, vars, mstream, rest
<1>10. ASSUME NEW k \in Links, Accept(k) PROVE NodeOf[l] \notin draining'
  <2>1. /\ UNCHANGED draining
        /\ \/ NodeOf[k] \notin draining /\ stream' = [stream EXCEPT ![k] = "open"]
           \/ stream' = [stream EXCEPT ![k] = "finishing"]
    BY <1>10 DEF Accept, rest
  <2>2. l # k => stream'[l] = stream[l]
    BY <1>1, <2>1
  <2>3. l = k => NodeOf[k] \notin draining
    BY <1>1, <2>1
  <2> QED BY <1>3, <2>1, <2>2, <2>3
<1>11. ASSUME NEW k \in Links, OnCancel(k) \/ SendDone(k) \/ StreamDone(k) PROVE NodeOf[l] \notin draining'
  <2>1. /\ UNCHANGED draining
        /\ \/ stream' = Ending({k}) \/ UNCHANGED stream
           \/ \E s \in {"finishing", "finished"} : stream' = [stream EXCEPT ![k] = s]
    BY <1>11 DEF OnCancel, StopStreams, SendDone, StreamDone, rest
  <2>2. ASSUME NEW s \in {"finishing", "finished"}, stream' = [stream EXCEPT ![k] = s] PROVE stream[l] = "open"
    <3>1. l # k
      BY <1>1, <2>2
    <3> QED BY <1>1, <2>2, <3>1
  <2>3. stream[l] = "open"
    <3>1. ASSUME stream' = Ending({k}) PROVE stream[l] = "open"
      <4>1. Ending({k})[l] = "open"
        BY <3>1
      <4> QED BY <1>2, <4>1
    <3>2. UNCHANGED stream => stream[l] = "open"
      OBVIOUS
    <3> QED BY <2>1, <2>2, <3>1, <3>2
  <2> QED BY <1>3, <2>1, <2>3
<1>12. ASSUME NEW S, stream' = Ending(S), UNCHANGED draining PROVE NodeOf[l] \notin draining'
  BY <1>2, <1>3, <1>12
<1>13. ASSUME NEW k \in Links, StreamRead(k) PROVE NodeOf[l] \notin draining'
  <2>1. UNCHANGED draining /\ (UNCHANGED stream \/ Register(k))
    BY <1>13 DEF StreamRead
  <2>2. ASSUME Register(k) PROVE NodeOf[l] \notin draining'
    BY <1>12, <2>1, <2>2 DEF Register, StopStreams
  <2> QED BY <1>4, <2>1, <2>2
<1>14. ASSUME NEW c \in Commands, NEW k \in Links, Reply(c, k) PROVE NodeOf[l] \notin draining'
  <2>1. UNCHANGED draining
    BY <1>14 DEF Reply
  <2> QED BY <1>4, <1>12, <1>14, <2>1 DEF Reply, EnqueueReply, StopStreams
<1>15. ASSUME NEW n \in Nodes, Drain(n) PROVE NodeOf[l] \notin draining'
  <2>1. draining' = draining \cup {n} /\ stream' = Ending({k \in Links : NodeOf[k] = n})
    BY <1>15 DEF Drain, StopStreams
  <2>2. stream[l] = "open" /\ NodeOf[l] # n
    BY <1>2, <2>1
  <2> QED BY <2>1, <2>2
<1> QED BY <1>4, <1>5, <1>6, <1>7, <1>8, <1>9, <1>10, <1>11, <1>13, <1>14, <1>15
        DEF Next, StreamStep, CommandStep

LEMMA ClearInit == Init => ClearInv
<1> SUFFICES ASSUME Init PROVE ClearInv
  OBVIOUS
<1>1. ASSUME NEW l \in Links PROVE Clear(l) /\ stream[l] # "open"
  <2>1. /\ out[l] = << >> /\ up[l] = << >> /\ replies[l] = << >> /\ down[l] = << >> /\ executing = {}
        /\ stream[l] = "absent" /\ healthy = {} /\ l # None /\ \A c \in Commands : pending[c] = None
    BY LinkConstants DEF Init
  <2>2. ASSUME NEW c \in Commands PROVE ~Underway(c, l)
    BY <2>1, EmptyHas DEF Underway, Leaving, Arriving, Executing, Answered, Returning
  <2>3. ~Heard(l)
    BY <2>1, <2>2, EmptyHas DEF Heard, Told
  <2> QED BY <2>1, <2>3 DEF Clear
<1> QED BY <1>1 DEF ClearInv

LEMMA ClearStep == Inductive /\ ClearInv /\ [Next]_vars => ClearInv'
<1> SUFFICES ASSUME Inductive, ClearInv, [Next]_vars PROVE ClearInv'
  OBVIOUS
<1>1. LinkInv /\ StreamInv /\ TraceInv
  BY DEF Inductive
<1>2. ASSUME NEW l \in Links, l \notin broken' PROVE Clear(l)'
  <2>1. l \notin broken => Clear(l)
    BY DEF ClearInv
  <2>2. ASSUME NEW k \in Links, StreamRead(k) PROVE Clear(l)'
    BY <1>1, <1>2, <2>2, ClearRegister, ClearProcess
  <2>3. ASSUME NEW k \in Links, LinkStep(k) \/ StreamStep(k) \/ Break(k) PROVE Clear(l)'
    BY <1>1, <1>2, <2>1, <2>2, <2>3, ClearGate, ClearWriteDone, ClearReadFrame, ClearAccept, ClearStreams,
       ClearSendDone DEF LinkStep, StreamStep
  <2>4. ASSUME NEW n \in Nodes, Connect(n) \/ Retire(n) \/ Push(n) \/ Drain(n) PROVE Clear(l)'
    BY <1>1, <1>2, <2>1, <2>4, ClearOpens, ClearGate, ClearPush, ClearStreams
  <2>5. ASSUME NEW c \in Commands, Submit(c) \/ CommandStep(c) PROVE Clear(l)'
    BY <1>1, <1>2, <2>1, <2>5, ClearGate, ClearExecute, ClearReply DEF CommandStep
  <2>6. ASSUME NEW k, CloseConnection(k) PROVE Clear(l)'
    BY <1>1, <1>2, <2>1, <2>6, ClearGate
  <2>7. CASE ControlStep \/ Abort \/ UNCHANGED vars
    BY <1>1, <1>2, <2>1, <2>7, ClearGate, ClearOpens DEF ControlStep
  <2> QED BY <2>3, <2>4, <2>5, <2>6, <2>7 DEF Next
<1>3. \A l \in Links : stream'[l] = "open" => NodeOf[l] \notin draining'
  BY <1>1, DrainedStep DEF ClearInv
<1> QED BY <1>2, <1>3 DEF ClearInv

\* A link that is open reads; the links in the map were started; the one that the
\* control loop waits for is being closed.
LinkWaits ==
    /\ \A l \in Links : link[l] = "open" => l \in reading
    /\ \A n \in Nodes : current[n] # None => link[current[n]] # "absent"
    /\ control \in Nodes => current[control] # None /\ link[current[control]] # "open"

\* A command whose client waits is in the table; none is queued once driver::abort
\* has run.
CommandWaits ==
    \A c \in Commands : /\ outcome[c] \in {"sent", "waiting"} => pending[c] # None
                        /\ outcome[c] = "queued" => ~stopping

LEMMA LinkWaitsKept ==
    ASSUME LinkInv, LinkWaits, UNCHANGED current, control' \in Nodes => control' = control,
           \A l \in Links : /\ link'[l] = "open" => link[l] = "open" /\ l \in reading'
                            /\ link[l] # "absent" => link'[l] # "absent"
    PROVE  LinkWaits'
<1>1. \A n \in Nodes : current[n] # None => current[n] \in Links
  BY DEF LinkInv, LinkTypes
<1> QED BY <1>1 DEF LinkWaits

LEMMA LinkWaitsStops ==
    ASSUME LinkInv, NEW S, StopLinks(S), NEW l \in Links
    PROVE  /\ link'[l] = "open" => link[l] = "open" /\ l \notin S
           /\ link[l] # "absent" => link'[l] # "absent"
<1>1. link'[l] = IF l \in S /\ link[l] = "open" THEN "stopping" ELSE link[l]
  BY DEF StopLinks
<1> QED BY <1>1

LEMMA LinkWaitsOpens ==
    ASSUME LinkInv, LinkWaits, NEW n \in Nodes, Connect(n) \/ Replace(n)
    PROVE  LinkWaits'
<1>1. /\ control' = "idle" /\ "idle" \notin Nodes /\ link \in [Links -> Alive \cup {"absent", "finished"}]
      /\ current \in [Nodes -> Links \cup {None}]
  BY LinkConstants DEF Connect, Visits, Replace, LinkInv, LinkTypes
<1>2. CASE current' = [current EXCEPT ![n] = None] /\ UNCHANGED <<link, reading>>
  BY <1>1, <1>2 DEF LinkWaits
<1>3. ASSUME NEW l \in Links, OpenLink(n, l) PROVE LinkWaits'
  <2>1. /\ link[l] = "absent" /\ current' = [current EXCEPT ![n] = l] /\ reading' = reading \cup {l}
        /\ \/ link' = [link EXCEPT ![l] = "open"] \/ link' = [link EXCEPT ![l] = "stopping"]
    BY <1>3 DEF OpenLink
  <2>2. link'[l] # "absent" /\ \A k \in Links : k # l => link'[k] = link[k]
    BY <1>1, <2>1
  <2>3. ASSUME NEW k \in Links, link'[k] = "open" PROVE k \in reading'
    BY <2>1, <2>2, <2>3 DEF LinkWaits
  <2>4. ASSUME NEW m \in Nodes, current'[m] # None PROVE link'[current'[m]] # "absent"
    BY <1>1, <2>1, <2>2, <2>4 DEF LinkWaits
  <2> QED BY <1>1, <2>3, <2>4 DEF LinkWaits
<1> QED BY <1>2, <1>3 DEF Connect, Replace

LEMMA LinkWaitsStep ==
    ASSUME LinkInv, LinkWaits, [Next]_vars
    PROVE  LinkWaits'
<1>1. link \in [Links -> Alive \cup {"absent", "finished"}]
  BY DEF LinkInv, LinkTypes
<1>2. ASSUME UNCHANGED <<current, control, link, reading>> PROVE LinkWaits'
  BY <1>2 DEF LinkWaits
<1>3. ASSUME NEW S, StopLinks(S), UNCHANGED <<current, control, reading>> PROVE LinkWaits'
  BY <1>3, LinkWaitsStops, LinkWaitsKept DEF LinkWaits
<1>4. ASSUME NEW k \in Links, WriteDone(k) \/ OnDone(k) PROVE LinkWaits'
  <2>1. /\ UNCHANGED <<current, control, reading>>
        /\ UNCHANGED link \/ \E s \in {"stopping", "finished"} : link' = [link EXCEPT ![k] = s]
    BY <1>4 DEF WriteDone, OnDone, gate
  <2>2. ASSUME NEW s \in {"stopping", "finished"}, link' = [link EXCEPT ![k] = s] PROVE LinkWaits'
    <3>1. link'[k] \notin {"open", "absent"} /\ \A l \in Links : l # k => link'[l] = link[l]
      BY <1>1, <2>2
    <3> QED BY <2>1, <3>1, LinkWaitsKept DEF LinkWaits
  <2> QED BY <1>2, <2>1, <2>2
<1>5. ASSUME NEW k \in Links, ReadFails(k) PROVE LinkWaits'
  <2>1. StopLinks({k}) /\ UNCHANGED <<current, control>> /\ reading' = reading \ {k}
    BY <1>5 DEF ReadFails, gate
  <2> QED BY <2>1, LinkWaitsStops, LinkWaitsKept DEF LinkWaits
<1>6. ASSUME NEW k \in Links, ReadFrame(k) PROVE LinkWaits'
  <2>1. /\ UNCHANGED <<current, control>>
        /\ \/ StopLinks({k}) /\ reading' \in {reading, reading \ {k}}
           \/ UNCHANGED link /\ (reading' = IF link[k] = "open" THEN reading ELSE reading \ {k})
    BY <1>6 DEF ReadFrame, gate
  <2>2. CASE StopLinks({k}) /\ reading' \in {reading, reading \ {k}}
    BY <2>1, <2>2, LinkWaitsStops, LinkWaitsKept DEF LinkWaits
  <2>3. CASE UNCHANGED link /\ (reading' = IF link[k] = "open" THEN reading ELSE reading \ {k})
    BY <2>1, <2>3, LinkWaitsKept DEF LinkWaits
  <2> QED BY <2>1, <2>2, <2>3
<1>7. ASSUME NEW n \in Nodes, Retire(n) PROVE LinkWaits'
  <2>1. StopLinks({current[n]}) /\ UNCHANGED <<current, reading>> /\ control' = n /\ current[n] # None
    BY <1>7 DEF Retire
  <2>2. current \in [Nodes -> Links \cup {None}]
    BY DEF LinkInv, LinkTypes
  <2> QED BY <2>1, <2>2, LinkWaitsStops DEF LinkWaits
<1>8. ASSUME NEW n \in Nodes, CloseLink(n) PROVE LinkWaits'
  BY <1>3, <1>8 DEF CloseLink, gate
<1>9. CASE Abort
  BY <1>3, <1>9 DEF Abort
<1>10. CASE ControlEnds
  <2>1. control' = "ended" /\ "ended" \notin Nodes /\ UNCHANGED <<current, link, reading>>
    BY <1>10, LinkConstants DEF ControlEnds, glink
  <2> QED BY <2>1 DEF LinkWaits
<1>11. CASE StopReturns
  <2>1. control' = "ended" /\ "ended" \notin Nodes /\ UNCHANGED <<link, reading>>
        /\ \A n \in Nodes : current'[n] = None
    BY <1>11, LinkConstants DEF StopReturns, glink
  <2> QED BY <2>1 DEF LinkWaits
<1>12. ASSUME NEW k \in Links, WriteStart(k) \/ StreamStep(k) \/ Break(k) PROVE LinkWaits'
  BY <1>2, <1>12 DEF WriteStart, StreamStep, Accept, StreamRead, OnCancel, SendStart, SendDone, StreamDone,
     Break, gate, glink
<1>13. ASSUME NEW n \in Nodes, Push(n) \/ Drain(n) PROVE LinkWaits'
  BY <1>2, <1>13 DEF Push, Drain, gate, glink
<1>14. ASSUME NEW c \in Commands, Submit(c) \/ CommandStep(c) PROVE LinkWaits'
  BY <1>2, <1>14 DEF Submit, CommandStep, Execute, Resume, Reply, gate, glink
<1>15. ASSUME NEW k, CloseConnection(k) PROVE LinkWaits'
  BY <1>2, <1>15 DEF CloseConnection, glink
<1>16. CASE UNCHANGED vars
  BY <1>2, <1>16 DEF vars, gate, glink
<1> QED BY <1>4, <1>5, <1>6, <1>7, <1>8, <1>9, <1>10, <1>11, <1>12, <1>13, <1>14, <1>15, <1>16, LinkWaitsOpens
        DEF Next, LinkStep, ControlStep

LEMMA CommandWaitsStep ==
    ASSUME LinkInv, TraceTypes, CommandWaits, [Next]_vars
    PROVE  CommandWaits'
<1>1. /\ pending \in [Commands -> Links \cup {None}] /\ None \notin Links
      /\ \A c \in Commands : outcome[c] \in {"new", "queued"} => pending[c] = None
  BY LinkConstants DEF LinkInv, LinkTypes, TraceTypes
<1>2. ASSUME UNCHANGED <<pending, outcome, stopping>> PROVE CommandWaits'
  BY <1>2 DEF CommandWaits
\* An entry is taken with the answer that ends the wait.
<1>3. ASSUME NEW S, UNCHANGED stopping,
             pending' = [c \in Commands |-> IF c \in S THEN None ELSE pending[c]],
             \A c \in Commands : /\ c \in S => outcome'[c] \notin {"queued", "sent", "waiting"}
                                 /\ c \notin S => outcome'[c] = outcome[c]
      PROVE  CommandWaits'
  BY <1>3 DEF CommandWaits
<1>4. ASSUME NEW k \in Links, ReadFrame(k) PROVE CommandWaits'
  <2>1. UNCHANGED stopping
    BY <1>4 DEF ReadFrame, gate
  <2>2. CASE UNCHANGED table
    BY <1>2, <2>1, <2>2 DEF table
  <2>3. ASSUME NEW d, pending' = [c \in Commands |-> IF c \in Resolves(k, d) THEN None ELSE pending[c]],
               outcome' = [c \in Commands |-> IF c \notin Resolves(k, d) THEN outcome[c]
                                              ELSE IF c = d THEN "result" ELSE "foreign"]
        PROVE  CommandWaits'
    <3>1. \A c \in Commands : /\ c \in Resolves(k, d) => outcome'[c] \in {"result", "foreign"}
                              /\ c \notin Resolves(k, d) => outcome'[c] = outcome[c]
      BY <2>3
    <3>2. \A c \in Commands : c \in Resolves(k, d) => outcome'[c] \notin {"queued", "sent", "waiting"}
      BY <3>1
    <3> QED BY <1>3, <2>1, <2>3, <3>1, <3>2
  <2> QED BY <1>4, <2>2, <2>3 DEF ReadFrame
<1>5. ASSUME NEW k \in Links, OnDone(k) PROVE CommandWaits'
  <2>1. /\ UNCHANGED stopping /\ pending' = [c \in Commands |-> IF c \in On(k) THEN None ELSE pending[c]]
        /\ outcome' = [c \in Commands |-> IF c \in On(k) THEN "failed" ELSE outcome[c]]
    BY <1>5 DEF OnDone, gate
  <2> QED BY <1>3, <2>1
<1>6. ASSUME NEW k, Cancel(k), UNCHANGED stopping,
             outcome' = [c \in Commands |-> IF c \in CancelOf(k) THEN "cancelled" ELSE outcome[c]]
      PROVE  CommandWaits'
  BY <1>3, <1>6 DEF Cancel
<1>7. ASSUME NEW k, CloseConnection(k) PROVE CommandWaits'
  BY <1>6, <1>7 DEF CloseConnection
<1>8. ASSUME NEW c \in Commands, Resume(c) PROVE CommandWaits'
  <2>1. CASE outcome' = [outcome EXCEPT ![c] = "waiting"] /\ UNCHANGED pending
    <3>1. outcome[c] = "sent" /\ UNCHANGED stopping
      BY <1>8 DEF Resume, gate
    <3>2. pending[c] # None /\ \A d \in Commands : d # c => outcome'[d] = outcome[d]
      BY <2>1, <3>1 DEF CommandWaits, TraceTypes
    <3>3. outcome'[c] = "waiting"
      BY <2>1 DEF TraceTypes
    <3> QED BY <2>1, <3>1, <3>2, <3>3 DEF CommandWaits
  <2>2. CASE /\ Cancel(Connection[c])
             /\ outcome' = [p \in Commands |-> IF p \in CancelOf(Connection[c]) THEN "cancelled" ELSE outcome[p]]
    BY <1>6, <1>8, <2>2 DEF Resume, gate
  <2> QED BY <1>8, <2>1, <2>2 DEF Resume
<1>9. ASSUME NEW c \in Commands, Submit(c) PROVE CommandWaits'
  <2>1. outcome' = [outcome EXCEPT ![c] = "queued"] /\ ~stopping /\ UNCHANGED <<pending, stopping>>
    BY <1>9 DEF Submit, gate
  <2>2. outcome'[c] = "queued" /\ \A d \in Commands : d # c => outcome'[d] = outcome[d]
    BY <2>1 DEF TraceTypes
  <2> QED BY <2>1, <2>2 DEF CommandWaits
<1>10. ASSUME NEW c \in Commands, Execute(c) PROVE CommandWaits'
  <2>1. UNCHANGED stopping /\ ~stopping
    BY <1>10 DEF Execute, gate
  <2>2. CASE outcome' = [outcome EXCEPT ![c] = "refused"] /\ UNCHANGED pending
    <3>1. outcome'[c] = "refused" /\ \A d \in Commands : d # c => outcome'[d] = outcome[d]
      BY <2>2 DEF TraceTypes
    <3> QED BY <2>1, <2>2, <3>1 DEF CommandWaits
  <2>3. ASSUME NEW k \in Usable, pending' = [pending EXCEPT ![c] = k], outcome' = [outcome EXCEPT ![c] = "sent"]
        PROVE  CommandWaits'
    <3>1. k \in Links
      BY <2>3 DEF Usable, LinkInv, LinkTypes
    <3>2. outcome'[c] = "sent" /\ pending'[c] = k
          /\ \A d \in Commands : d # c => outcome'[d] = outcome[d] /\ pending'[d] = pending[d]
      BY <1>1, <2>3 DEF TraceTypes
    <3> QED BY <1>1, <2>1, <3>1, <3>2 DEF CommandWaits
  <2> QED BY <1>10, <2>2, <2>3 DEF Execute
<1>11. CASE Abort
  <2>1. UNCHANGED pending /\ outcome' = [c \in Commands |-> IF outcome[c] = "queued" THEN "failed" ELSE outcome[c]]
    BY <1>11 DEF Abort
  <2> QED BY <2>1 DEF CommandWaits
<1>12. ASSUME NEW k \in Links, WriteStart(k) \/ WriteDone(k) \/ ReadFails(k) \/ StreamStep(k) \/ Break(k)
       PROVE  CommandWaits'
  BY <1>2, <1>12 DEF WriteStart, WriteDone, ReadFails, StreamStep, Accept, StreamRead, OnCancel, SendStart,
     SendDone, StreamDone, Break, gate, table
<1>13. ASSUME NEW n \in Nodes, Connect(n) \/ Retire(n) \/ Push(n) \/ Drain(n) PROVE CommandWaits'
  BY <1>2, <1>13 DEF Connect, Retire, Push, Drain, gate, table
<1>14. ASSUME NEW c \in Commands, NEW k \in Links, Reply(c, k) PROVE CommandWaits'
  BY <1>2, <1>14 DEF Reply, gate, table
<1>15. CASE ControlStep \/ UNCHANGED vars
  BY <1>2, <1>15 DEF ControlStep, Replace, CloseLink, ControlEnds, StopReturns, vars, gate, table
<1> QED BY <1>4, <1>5, <1>7, <1>8, <1>9, <1>10, <1>11, <1>12, <1>13, <1>14, <1>15
        DEF Next, LinkStep, CommandStep

WaitInv == Inductive /\ ClearInv /\ LinkWaits /\ CommandWaits

LEMMA WaitAlways == SafeSpec => []WaitInv
<1>1. Init => WaitInv
  <2> SUFFICES ASSUME Init PROVE LinkWaits /\ CommandWaits
    BY InductiveInit, ClearInit DEF WaitInv
  <2>1. /\ \A l \in Links : link[l] = "absent"
        /\ \A n \in Nodes : current[n] = None
        /\ control \notin Nodes
        /\ \A c \in Commands : outcome[c] = "new"
    BY LinkConstants DEF Init
  <2> QED BY <2>1 DEF LinkWaits, CommandWaits
<1>2. WaitInv /\ [Next]_vars => WaitInv'
  <2> SUFFICES ASSUME WaitInv, [Next]_vars PROVE WaitInv'
    OBVIOUS
  <2>1. Inductive /\ LinkInv /\ TraceTypes /\ ClearInv /\ LinkWaits /\ CommandWaits
    BY DEF WaitInv, Inductive, TraceInv
  <2>2. Inductive' /\ ClearInv'
    BY <2>1, InductiveStep, ClearStep
  <2>3. LinkWaits' /\ CommandWaits'
    BY <2>1, LinkWaitsStep, CommandWaitsStep
  <2> QED BY <2>2, <2>3 DEF WaitInv
<1> QED BY <1>1, <1>2, PTL DEF SafeSpec
-----------------------------------------------------------------------------
\* Something is left to do for call l that the reactors and gRPC do by themselves: a
\* frame to write or to read, a failed read to report, OnDone to call.
Moving(l) ==
    \/ link[l] = "open" /\ out[l] # << >>
    \/ l \in writing
    \/ l \in reading /\ (down[l] # << >> \/ l \in broken)
    \/ link[l] = "stopping" /\ l \notin reading \cup writing
    \/ stream[l] = "open" /\ (up[l] # << >> \/ replies[l] # << >>)

\* No command is forgotten: while its entry is in the table the command, or its
\* result, is on its way by the very call it was sent on, unless the call is
\* cancelled or lost.
NoneForgotten == \A c \in Commands, l \in Links : pending[c] = l => l \in broken \/ Underway(c, l)

\* A client whose command was submitted never waits for what cannot come.  While
\* the command is queued the operation queue still runs; while its client waits it
\* is being executed, or there is something to do for the call it was sent on.
CommandsGoOn ==
    \A c \in Commands :
        /\ outcome[c] = "queued" => ~stopping
        /\ outcome[c] = "waiting" =>
              pending[c] \in Links /\ (Executing(c, pending[c]) \/ Moving(pending[c]))

\* driver::stop never waits for what cannot come: until it returns the control loop
\* is about to end or waits for a link that is closed or has something to do, and
\* after its end so do the links that are left.
StopGoesOn ==
    stopping /\ ~stopped =>
        \/ control = "idle"
        \/ control \in Nodes /\ (Drained(current[control]) \/ Moving(current[control]))
        \/ /\ control = "ended"
           /\ \A n \in Nodes : current[n] # None =>
                 link[current[n]] = "open" \/ Drained(current[n]) \/ Moving(current[n])

LEMMA FrameIsThere == \A q, f : Has(q, f) => q # << >>
BY EmptyHas

\* A link that is stopping moves.
LEMMA StoppingMoves ==
    ASSUME LinkInv, NEW l \in Links, link[l] = "stopping"
    PROVE  Moving(l)
<1>1. l \in broken
  BY DEF LinkInv, LinkSound
<1> QED BY <1>1 DEF Moving

\* For any number of nodes, calls, commands and lost connections, Message drops no
\* result without the stream of its command being closed: server::reply finds the
\* stream that the command came by registered, because the Gateway sends commands
\* only after register_stream has moved the index, and who moves it again stops
\* that stream.
THEOREM NoneForgottenAlways == SafeSpec => []NoneForgotten
<1>1. WaitInv => NoneForgotten
  BY DEF WaitInv, ClearInv, Clear, NoneForgotten
<1> QED BY <1>1, WaitAlways, PTL

\* A client whose command was accepted by service::forward is never left with an
\* entry that no read, write, OnDone or execution will take.
THEOREM CommandsGoOnAlways == SafeSpec => []CommandsGoOn
<1>1. WaitInv => CommandsGoOn
  <2> SUFFICES ASSUME WaitInv PROVE CommandsGoOn
    OBVIOUS
  <2>1. LinkInv /\ ClearInv /\ LinkWaits /\ CommandWaits
    BY DEF WaitInv, Inductive
  <2>2. ASSUME NEW c \in Commands, outcome[c] = "waiting"
        PROVE  pending[c] \in Links /\ (Executing(c, pending[c]) \/ Moving(pending[c]))
    <3>1. PICK l \in Links : pending[c] = l
      BY <2>1, <2>2 DEF LinkInv, LinkTypes, CommandWaits
    <3>2. link[l] \in Alive
      <4>1. c \in On(l) /\ LinkSound(l)
        BY <2>1, <3>1 DEF On, LinkInv
      <4> QED BY <4>1 DEF LinkSound
    <3>3. CASE link[l] = "stopping"
      BY <2>1, <3>1, <3>3, StoppingMoves
    <3>4. CASE link[l] = "open"
      <4>1. l \in reading
        BY <2>1, <3>4 DEF LinkWaits
      <4>2. CASE l \in broken
        BY <3>1, <4>1, <4>2 DEF Moving
      <4>3. CASE l \notin broken
        <5>1. Underway(c, l) /\ stream[l] = "open"
          BY <2>1, <3>1, <4>3 DEF ClearInv, Clear, Heard
        <5>2. /\ Leaving(c, l) => out[l] # << >>
              /\ Arriving(c, l) => up[l] # << >>
              /\ Answered(c, l) => replies[l] # << >>
              /\ Returning(c, l) => down[l] # << >>
          BY FrameIsThere DEF Leaving, Arriving, Answered, Returning
        <5>3. Executing(c, l) \/ Moving(l)
          BY <3>4, <4>1, <5>1, <5>2 DEF Underway, Moving
        <5> QED BY <3>1, <5>3
      <4> QED BY <4>2, <4>3
    <3> QED BY <3>2, <3>3, <3>4 DEF Alive
  <2> QED BY <2>1, <2>2 DEF CommandsGoOn, CommandWaits
<1> QED BY <1>1, WaitAlways, PTL

\* driver::stop is never left waiting for a link that nothing will finish, also if
\* the control loop opened it after the abort.
THEOREM StopGoesOnAlways == SafeSpec => []StopGoesOn
<1>1. WaitInv => StopGoesOn
  <2> SUFFICES ASSUME WaitInv PROVE StopGoesOn
    OBVIOUS
  <2>1. LinkInv /\ LinkWaits /\ control \in Nodes \cup {"idle", "ended"}
    BY DEF WaitInv, Inductive, LinkInv, LinkTypes
  <2>2. ASSUME NEW n \in Nodes, current[n] # None
        PROVE  link[current[n]] = "open" \/ Drained(current[n]) \/ Moving(current[n])
    <3>1. /\ current[n] \in Links /\ LinkSound(current[n]) /\ link[current[n]] # "absent"
          /\ link[current[n]] \in Alive \cup {"absent", "finished"}
      BY <2>1, <2>2 DEF LinkInv, LinkTypes, LinkWaits
    <3>2. link[current[n]] = "finished" => Drained(current[n])
      BY <3>1 DEF LinkSound, Drained, Alive
    <3>3. link[current[n]] = "stopping" => Moving(current[n])
      BY <2>1, <3>1, StoppingMoves
    <3> QED BY <3>1, <3>2, <3>3 DEF Alive
  <2> QED BY <2>1, <2>2 DEF StopGoesOn, LinkWaits
<1> QED BY <1>1, WaitAlways, PTL
=============================================================================
