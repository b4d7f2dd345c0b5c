----------------------------- MODULE EngineProofs -----------------------------
(***************************************************************************)
(* gRPC hears of every attempt, timer and listener of GrpcEngine once, but *)
(* for a connection that comes to nothing when its endpoint is built, for  *)
(* any number of them and in any order of completion, timeout,             *)
(* cancellation, destruction and stop; and the counters that the stop      *)
(* waits on leave nothing out, so that nothing is left when it returns.    *)
(* The last part has what the stop's coming to an end rests on.            *)
(***************************************************************************)
EXTENDS GrpcEngine, FiniteSetTheorems, TLAPS

\* Leaves that are not marked SMTT are for Zenon.
USE ZenonT(90)

Places == {"idle", "queued", "waiting", "ready", "over"}
Heard == Connects \cup Timers \cup {Accepting}

Types ==
    /\ pc \in [Activities -> Places] /\ outcome \in [Heard -> Nat]
    /\ connections \subseteq Connects /\ cancelled \subseteq Connects /\ unheard \subseteq Connects
    /\ timers \subseteq set /\ set \subseteq Timers

\* An attempt in _connections has its coroutine under way and was not cancelled;
\* one that was cancelled had been started, one that was lost is over.
Tabled ==
    /\ \A c \in connections : Underway(c) /\ c \notin cancelled
    /\ \A c \in cancelled : pc[c] # "idle"
    /\ \A c \in unheard : pc[c] = "over"

\* The callbacks that were made, one each.
Told ==
    /\ \A c \in Connects : outcome[c] = (IF c \in cancelled \/ (pc[c] = "over" /\ c \notin unheard) THEN 1 ELSE 0)
    /\ \A t \in Timers : outcome[t] = (IF t \in set \ timers THEN 1 ELSE 0)
    /\ outcome[Accepting] = (IF listener = "gone" /\ ~Underway(Accepting) THEN 1 ELSE 0)

Inductive == Types /\ Tabled /\ Told

-----------------------------------------------------------------------------
\* What Moves does to an activity that is neither the one that moves nor a task.
LEMMA MovesOthers ==
    ASSUME Types, NEW a, NEW s \in Places, NEW d, NEW k \in Tasks \cup {NoTask}, Moves(a, s, d, k)
    PROVE  /\ pc' \in [Activities -> Places]
           /\ \A b \in (Connects \cup {Accepting}) \ {a} : pc'[b] = pc[b]
           /\ a \in Activities => pc'[a] = s
<1>1. \A b \in Connects \cup {Accepting} : b \in Activities /\ b # k
  BY EngineConstants DEF Activities
<1>2. pc' = [b \in Activities |-> IF b = a THEN s ELSE IF b = k THEN "queued" ELSE pc[b]]
  BY DEF Moves
<1> QED BY <1>1, <1>2 DEF Types, Places

\* Steps of everything gRPC is not told of: tasks, transfers, lookups, endpoints,
\* the resolver and its watch.
LEMMA Silent ==
    ASSUME Inductive, pc' \in [Activities -> Places],
           \A b \in Connects \cup {Accepting} : Underway(b)' = Underway(b) /\ (pc'[b] = "over" <=> pc[b] = "over"),
           UNCHANGED <<connections, cancelled, unheard, timers, set, outcome>>,
           listener' = listener \/ "gone" \notin {listener, listener'}
    PROVE  Inductive'
<1>1. Types'
  BY DEF Inductive, Types
<1>2. Tabled'
  BY DEF Inductive, Types, Tabled, Underway
<1>3. Told'
  BY DEF Inductive, Told
<1> QED BY <1>1, <1>2, <1>3 DEF Inductive

\* The activities gRPC hears of are different from the silent ones.
LEMMA Apart ==
    /\ \A x \in Transfers \cup Lookups \cup Tasks : x \in Activities /\ x \notin Connects \cup {Accepting}
    /\ \A c \in Connects \cup {Accepting} : c \in Activities /\ c # NoTask /\ c \notin Timers
    /\ Accepting \notin Connects /\ Runnable \subseteq Tasks \cup {NoTask} /\ NoTask \in Runnable
    /\ Accepting \in Heard /\ Connects \subseteq Heard /\ Timers \subseteq Heard
    /\ \A t \in Timers : t \notin Activities
BY EngineConstants DEF Activities, Runnable, Heard

\* A silent activity moves.
LEMMA SilentMoves ==
    ASSUME Inductive, NEW a, a \notin Connects \cup {Accepting}, NEW s \in Places, NEW d,
           NEW k \in Tasks \cup {NoTask}, Moves(a, s, d, k),
           UNCHANGED <<connections, cancelled, unheard, timers, set, outcome>>,
           listener' = listener \/ "gone" \notin {listener, listener'}
    PROVE  Inductive'
BY MovesOthers, Silent DEF Inductive, Underway

\* An attempt or accept() goes on without an end or a beginning.
LEMMA GoesOn ==
    ASSUME Inductive, NEW a \in Connects \cup {Accepting}, NEW s \in {"waiting", "ready"}, NEW d,
           NEW k \in Tasks \cup {NoTask}, Moves(a, s, d, k), Underway(a),
           UNCHANGED <<connections, cancelled, unheard, timers, set, outcome, listener>>
    PROVE  Inductive'
<1>1. s \in Places
  BY DEF Places
<1>2. /\ pc' \in [Activities -> Places] /\ pc'[a] = s
      /\ \A b \in (Connects \cup {Accepting}) \ {a} : pc'[b] = pc[b]
  BY <1>1, MovesOthers, Apart DEF Inductive
<1> QED BY <1>2, Silent DEF Underway

\* Tasks, and lookups with the resolver they need.
LEMMA TasksKeep ==
    ASSUME Inductive, NEW j \in Runnable,
           \/ \E k \in Tasks : Run(k) \/ RunTask(k, j)
           \/ \E l \in Lookups : StartLookup(l) \/ EndLookup(l, j) \/ LookupHostname(l)
           \/ GetDNSResolver \/ DestroyResolver
    PROVE  Inductive'
<1>1. NoTask \in Tasks \cup {NoTask} /\ j \in Tasks \cup {NoTask} /\ {"queued", "over", "ready", "waiting"} \subseteq Places
  BY Apart DEF Places
<1>2. ASSUME NEW k \in Tasks, Run(k) \/ RunTask(k, j) PROVE Inductive'
  BY <1>1, <1>2, Apart, SilentMoves DEF Run, RunTask, attempts, clock, objects
<1>3. ASSUME NEW l \in Lookups, StartLookup(l) \/ EndLookup(l, j) \/ LookupHostname(l) PROVE Inductive'
  BY <1>1, <1>3, Apart, SilentMoves DEF StartLookup, EndLookup, LookupHostname, attempts, clock, objects
<1>4. CASE GetDNSResolver \/ DestroyResolver
  BY <1>1, <1>4, Apart, SilentMoves DEF GetDNSResolver, DestroyResolver, attempts, clock
<1> QED BY <1>2, <1>3, <1>4

\* Endpoints and their reads and writes.
LEMMA EndpointsKeep ==
    ASSUME Inductive, NEW j \in Runnable,
           \/ \E x \in Transfers : Transfer(x) \/ StartTransfer(x) \/ EndTransfer(x, j)
           \/ \E e \in Endpoints : DestroyEndpoint(e)
    PROVE  Inductive'
<1>1. NoTask \in Tasks \cup {NoTask} /\ j \in Tasks \cup {NoTask} /\ {"queued", "over", "idle", "waiting"} \subseteq Places
  BY Apart DEF Places
<1>2. ASSUME NEW x \in Transfers, Transfer(x) \/ StartTransfer(x) \/ EndTransfer(x, j) PROVE Inductive'
  BY <1>1, <1>2, Apart, SilentMoves DEF Transfer, StartTransfer, EndTransfer, attempts, clock, objects
<1>3. ASSUME NEW e \in Endpoints, DestroyEndpoint(e) PROVE Inductive'
  BY <1>1, <1>3, Apart, SilentMoves DEF DestroyEndpoint, attempts, clock
<1> QED BY <1>2, <1>3

\* I/O completes.
LEMMA CompleteKeeps ==
    ASSUME Inductive, NEW a \in Connects \cup Transfers \cup Lookups \cup {Accepting}, Complete(a)
    PROVE  Inductive'
<1>1. /\ Moves(a, "ready", <<>>, NoTask) /\ pc[a] = "waiting" /\ "ready" \in Places
      /\ UNCHANGED <<connections, cancelled, unheard, timers, set, outcome, listener>>
  BY DEF Complete, attempts, clock, objects, Places
<1>2. CASE a \in Connects \cup {Accepting}
  BY <1>1, <1>2, GoesOn DEF Underway
<1>3. CASE a \in Transfers \cup Lookups
  BY <1>1, <1>3, Apart, SilentMoves
<1> QED BY <1>2, <1>3

\* The stop, the watch and the timeout touch no activity that is heard of.
LEMMA StopKeeps ==
    ASSUME Inductive, Stop \/ Watch \/ Retire \/ WatchEnds \/ (\E c \in Connects : ConnectTimeout(c)) \/ UNCHANGED vars
    PROVE  Inductive'
<1>1. CASE CloseDns
  <2>1. /\ pc' = [a \in Activities |-> IF a \in Lookups /\ pc[a] = "waiting" THEN "ready" ELSE pc[a]]
        /\ UNCHANGED <<connections, cancelled, unheard, timers, set, outcome, listener>>
    BY <1>1 DEF CloseDns, attempts, clock, objects
  <2>2. pc' \in [Activities -> Places]
    BY <2>1 DEF Inductive, Types, Places
  <2>3. \A b \in Connects \cup {Accepting} : b \in Activities /\ b \notin Lookups
    BY Apart
  <2>4. \A b \in Connects \cup {Accepting} : pc'[b] = pc[b]
    BY <2>1, <2>3
  <2> QED BY <2>1, <2>2, <2>4, Silent DEF Underway
<1>2. CASE ~CloseDns
  <2>1. UNCHANGED <<pc, connections, cancelled, unheard, timers, set, outcome, listener>>
    BY <1>2 DEF Stop, ReleaseChannels, CloseEngine, Drain, Watch, Retire, WatchEnds, ConnectTimeout,
                vars, attempts, clock, objects
  <2>2. pc' \in [Activities -> Places]
    BY <2>1 DEF Inductive, Types
  <2> QED BY <2>1, <2>2, Silent DEF Underway
<1> QED BY <1>1, <1>2

-----------------------------------------------------------------------------
\* A timer is set once and leaves _timers when it fires or is cancelled.
LEMMA TimersKeep ==
    ASSUME Inductive, NEW t \in Timers, NEW j \in Runnable, RunAfter(t) \/ Fire(t, j) \/ Cancel(t)
    PROVE  Inductive'
<1>1. t \in Heard /\ t \notin Connects \cup {Accepting} /\ t \notin Activities /\ j \in Tasks \cup {NoTask}
  BY Apart
<1>2. UNCHANGED <<connections, cancelled, unheard, listener>>
  BY DEF RunAfter, Fire, Cancel, attempts, objects
<1>3. pc' \in [Activities -> Places] /\ \A b \in Connects \cup {Accepting} : pc'[b] = pc[b]
  <2>1. CASE Fire(t, j)
    <3>1. Moves(t, "over", <<>>, j) /\ "over" \in Places
      BY <2>1 DEF Fire, Places
    <3> QED BY <3>1, <1>1, MovesOthers DEF Inductive
  <2>2. CASE UNCHANGED pc
    BY <2>2 DEF Inductive, Types
  <2> QED BY <2>1, <2>2 DEF RunAfter, Cancel
<1>4. Tabled'
  BY <1>2, <1>3 DEF Inductive, Types, Tabled, Underway
<1>5. CASE RunAfter(t)
  <2>1. timers' = timers \cup {t} /\ set' = set \cup {t} /\ t \notin set /\ UNCHANGED outcome
    BY <1>5 DEF RunAfter
  <2>2. Types'
    BY <1>2, <1>3, <2>1 DEF Inductive, Types
  <2>3. Told'
    BY <1>2, <1>3, <2>1 DEF Inductive, Types, Told, Underway
  <2> QED BY <1>4, <2>2, <2>3 DEF Inductive
<1>6. CASE Fire(t, j) \/ Cancel(t)
  <2>1. /\ t \in timers /\ timers' = timers \ {t} /\ UNCHANGED set
        /\ outcome' = [outcome EXCEPT ![t] = @ + 1]
    BY <1>6 DEF Fire, Cancel, Once
  <2>2. outcome' \in [Heard -> Nat] /\ outcome'[t] = outcome[t] + 1 /\ \A x \in Heard \ {t} : outcome'[x] = outcome[x]
    BY SMTT(30), <2>1, <1>1 DEF Inductive, Types
  <2>3. Types'
    BY <1>2, <1>3, <2>1, <2>2 DEF Inductive, Types
  <2>4. outcome[t] = 0 /\ outcome'[t] = 1
    BY SMTT(30), <2>1, <2>2 DEF Inductive, Told
  <2>5. \A x \in Timers : outcome'[x] = (IF x \in set' \ timers' THEN 1 ELSE 0)
    BY SMTT(30), <2>1, <2>2, <2>4, Apart DEF Inductive, Types, Told
  <2>6. Told'
    BY <1>1, <1>2, <1>3, <2>2, <2>5, Apart DEF Inductive, Told, Underway
  <2> QED BY <1>4, <2>3, <2>6 DEF Inductive
<1> QED BY <1>5, <1>6

\* A step of the attempt c, which is over and not lost, or cancelled, exactly if
\* it was heard of.
LEMMA AttemptMoves ==
    ASSUME Inductive, NEW c \in Connects, pc' \in [Activities -> Places],
           \A b \in (Connects \cup {Accepting}) \ {c} : pc'[b] = pc[b],
           UNCHANGED <<timers, set, listener>>,
           connections' \subseteq Connects, cancelled' \subseteq Connects, unheard' \subseteq Connects,
           \A b \in Connects \ {c} : /\ b \in connections' => b \in connections
                                     /\ b \in cancelled' <=> b \in cancelled
                                     /\ b \in unheard' <=> b \in unheard,
           c \in connections' => Underway(c)' /\ c \notin cancelled', c \in cancelled' => pc'[c] # "idle",
           c \in unheard' => pc'[c] = "over",
           outcome' \in {outcome, [outcome EXCEPT ![c] = @ + 1]},
           outcome'[c] = (IF c \in cancelled' \/ (pc'[c] = "over" /\ c \notin unheard') THEN 1 ELSE 0)
    PROVE  Inductive'
<1>1. c \in Heard /\ outcome' \in [Heard -> Nat] /\ \A x \in Heard \ {c} : outcome'[x] = outcome[x]
  BY SMTT(30), Apart DEF Inductive, Types
<1>2. Types'
  BY <1>1 DEF Inductive, Types
<1>3. Tabled'
  BY DEF Inductive, Types, Tabled, Underway
<1>4. \A b \in Connects : outcome'[b] = (IF b \in cancelled' \/ (pc'[b] = "over" /\ b \notin unheard') THEN 1 ELSE 0)
  BY SMTT(30), <1>1, Apart DEF Inductive, Told
<1>5. \A t \in Timers : outcome'[t] = (IF t \in set' \ timers' THEN 1 ELSE 0)
  BY SMTT(30), <1>1, Apart DEF Inductive, Told
<1>6. outcome'[Accepting] = (IF listener' = "gone" /\ ~Underway(Accepting)' THEN 1 ELSE 0)
  BY <1>1, Apart DEF Inductive, Told, Underway
<1> QED BY <1>2, <1>3, <1>4, <1>5, <1>6 DEF Inductive, Told

\* Connect, connect() and CancelConnect: whichever of the completion and the
\* cancellation comes first takes the attempt out of _connections.
LEMMA ConnectsKeep ==
    ASSUME Inductive, NEW c \in Connects, NEW j \in Runnable,
           Connect(c) \/ StartConnect(c) \/ CancelConnect(c) \/ EndConnect(c, j) \/ LoseConnect(c, j)
    PROVE  Inductive'
<1>1. /\ c \in Activities /\ c \in Heard /\ NoTask \in Tasks \cup {NoTask} /\ j \in Tasks \cup {NoTask}
      /\ outcome[c] = (IF c \in cancelled \/ (pc[c] = "over" /\ c \notin unheard) THEN 1 ELSE 0)
      /\ c \in unheard => pc[c] = "over"
      /\ outcome \in [Heard -> Nat] /\ pc \in [Activities -> Places]
      /\ connections \subseteq Connects /\ cancelled \subseteq Connects /\ unheard \subseteq Connects
      /\ {"queued", "over"} \subseteq Places
  BY Apart DEF Inductive, Types, Tabled, Told, Places
<1>2. CASE Connect(c)
  <2>1. /\ pc[c] = "idle" /\ connections' = connections \cup {c}
        /\ Moves(c, "queued", [active_io |-> 1, active_tasks |-> 1], NoTask)
        /\ UNCHANGED <<cancelled, unheard, timers, set, listener, outcome>>
    BY <1>2 DEF Connect, clock, objects
  <2>2. c \notin cancelled
    BY <2>1 DEF Inductive, Tabled
  <2>3. /\ pc' \in [Activities -> Places] /\ pc'[c] = "queued"
        /\ \A b \in (Connects \cup {Accepting}) \ {c} : pc'[b] = pc[b]
    BY <1>1, <2>1, MovesOthers DEF Inductive
  <2> QED BY <1>1, <2>1, <2>2, <2>3, AttemptMoves DEF Underway
<1>3. CASE StartConnect(c)
  BY <1>1, <1>3, GoesOn DEF StartConnect, Underway, attempts, clock, objects
<1>4. CASE CancelConnect(c)
  <2>1. /\ c \in connections /\ connections' = connections \ {c} /\ cancelled' = cancelled \cup {c}
        /\ outcome' = [outcome EXCEPT ![c] = @ + 1]
        /\ UNCHANGED <<pc, unheard, timers, set, listener>>
    BY <1>4 DEF CancelConnect, Once, clock, objects
  <2>2. c \notin cancelled /\ pc[c] \notin {"idle", "over"}
    BY <2>1 DEF Inductive, Tabled, Underway
  <2>3. outcome'[c] = 1
    BY SMTT(30), <1>1, <2>1, <2>2
  <2> QED BY <1>1, <2>1, <2>2, <2>3, AttemptMoves
<1>5. CASE EndConnect(c, j)
  <2>1. /\ pc[c] = "ready" /\ connections' = connections \ {c}
        /\ IF c \in cancelled THEN UNCHANGED outcome ELSE outcome' = [outcome EXCEPT ![c] = @ + 1]
        /\ UNCHANGED <<cancelled, unheard, timers, set, listener>>
    BY <1>5 DEF EndConnect, Once, clock
  <2>2. PICK d : Moves(c, "over", d, j)
    BY <1>5 DEF EndConnect
  <2>3. /\ pc' \in [Activities -> Places] /\ pc'[c] = "over"
        /\ \A b \in (Connects \cup {Accepting}) \ {c} : pc'[b] = pc[b]
    BY <1>1, <2>2, MovesOthers DEF Inductive
  <2>4. outcome'[c] = 1 /\ outcome' \in {outcome, [outcome EXCEPT ![c] = @ + 1]}
    BY SMTT(30), <1>1, <2>1
  <2>5. c \notin unheard
    BY <1>1, <2>1
  <2> QED BY <1>1, <2>1, <2>3, <2>4, <2>5, AttemptMoves
<1>6. CASE LoseConnect(c, j)
  <2>1. /\ pc[c] = "ready" /\ c \notin cancelled /\ connections' = connections \ {c}
        /\ unheard' = unheard \cup {c}
        /\ UNCHANGED <<cancelled, timers, set, listener, outcome>>
    BY <1>6 DEF LoseConnect, clock, objects
  <2>2. PICK d : Moves(c, "over", d, j)
    BY <1>6 DEF LoseConnect
  <2>3. /\ pc' \in [Activities -> Places] /\ pc'[c] = "over"
        /\ \A b \in (Connects \cup {Accepting}) \ {c} : pc'[b] = pc[b]
    BY <1>1, <2>2, MovesOthers DEF Inductive
  <2>4. outcome'[c] = 0 /\ outcome' = outcome
    BY <1>1, <2>1
  <2> QED BY <1>1, <2>1, <2>3, <2>4, AttemptMoves
<1> QED BY <1>2, <1>3, <1>4, <1>5, <1>6

\* A step of the listener: its callback is made when it is gone and accept() is over.
LEMMA ListenerMoves ==
    ASSUME Inductive, pc' \in [Activities -> Places], \A c \in Connects : pc'[c] = pc[c],
           UNCHANGED <<connections, cancelled, unheard, timers, set>>,
           outcome' \in {outcome, [outcome EXCEPT ![Accepting] = @ + 1]},
           outcome'[Accepting] = (IF listener' = "gone" /\ ~Underway(Accepting)' THEN 1 ELSE 0)
    PROVE  Inductive'
<1>1. outcome' \in [Heard -> Nat] /\ \A x \in Heard \ {Accepting} : outcome'[x] = outcome[x]
  BY SMTT(30), Apart DEF Inductive, Types
<1>2. Types'
  BY <1>1 DEF Inductive, Types
<1>3. Tabled'
  BY DEF Inductive, Types, Tabled, Underway
<1>4. \A b \in Connects : outcome'[b] = (IF b \in cancelled' \/ (pc'[b] = "over" /\ b \notin unheard') THEN 1 ELSE 0)
  BY <1>1, Apart DEF Inductive, Told
<1>5. \A t \in Timers : outcome'[t] = (IF t \in set' \ timers' THEN 1 ELSE 0)
  BY <1>1, Apart DEF Inductive, Told
<1> QED BY <1>2, <1>3, <1>4, <1>5 DEF Inductive, Told

\* The listener and accept(): whichever of the two ends last calls back.
LEMMA ListenerKeeps ==
    ASSUME Inductive, NEW j \in Runnable,
           \/ CreateListener \/ Bind \/ Start \/ StartAccept \/ EndAccept(j) \/ DestroyListener(j)
           \/ \E e \in Incoming : Accept(e, j)
    PROVE  Inductive'
<1>1. /\ Accepting \in Activities /\ Accepting \in Heard /\ Accepting \notin Connects
      /\ NoTask \in Tasks \cup {NoTask} /\ j \in Tasks \cup {NoTask} /\ NoTask \notin Connects \cup {Accepting}
      /\ outcome[Accepting] = (IF listener = "gone" /\ ~Underway(Accepting) THEN 1 ELSE 0)
      /\ outcome \in [Heard -> Nat] /\ pc \in [Activities -> Places]
      /\ {"queued", "over"} \subseteq Places
  BY Apart DEF Inductive, Types, Told, Places
<1>2. CASE CreateListener
  BY <1>1, <1>2, SilentMoves DEF CreateListener, attempts, clock
<1>3. CASE Bind
  BY <1>1, <1>3, Silent DEF Bind, attempts, clock, Underway
<1>4. CASE Start
  <2>1. /\ listener = "bound" /\ listener' = "started" /\ Moves(Accepting, "queued", [active_io |-> 1], NoTask)
        /\ UNCHANGED <<connections, cancelled, unheard, timers, set, outcome>>
    BY <1>4 DEF Start, attempts, clock
  <2>2. pc' \in [Activities -> Places] /\ \A c \in Connects : pc'[c] = pc[c]
    BY <1>1, <2>1, MovesOthers DEF Inductive
  <2> QED BY <1>1, <2>1, <2>2, ListenerMoves
<1>5. CASE StartAccept
  BY <1>1, <1>5, GoesOn DEF StartAccept, Underway, attempts, clock, objects
<1>6. ASSUME NEW e \in Incoming, Accept(e, j) PROVE Inductive'
  BY <1>1, <1>6, GoesOn DEF Accept, Underway, attempts, clock
<1>7. CASE EndAccept(j)
  <2>1. /\ pc[Accepting] \in {"ready", "queued"}
        /\ IF listener = "gone" THEN outcome' = [outcome EXCEPT ![Accepting] = @ + 1] ELSE UNCHANGED outcome
        /\ UNCHANGED <<connections, cancelled, unheard, timers, set, listener>>
    BY <1>7 DEF EndAccept, Once, attempts, clock, objects
  <2>2. PICK d : Moves(Accepting, "over", d, j)
    BY <1>7 DEF EndAccept
  <2>3. pc' \in [Activities -> Places] /\ pc'[Accepting] = "over" /\ \A c \in Connects : pc'[c] = pc[c]
    BY <1>1, <2>2, MovesOthers DEF Inductive
  <2>4. outcome[Accepting] = 0
    BY <1>1, <2>1 DEF Underway
  <2>5. outcome'[Accepting] = (IF listener' = "gone" /\ ~Underway(Accepting)' THEN 1 ELSE 0)
    BY SMTT(30), <1>1, <2>1, <2>3, <2>4 DEF Underway
  <2> QED BY <2>1, <2>3, <2>5, ListenerMoves
<1>8. CASE DestroyListener(j)
  <2>1. /\ listener # "gone" /\ listener' = "gone" /\ outcome[Accepting] = 0
        /\ UNCHANGED <<connections, cancelled, unheard, timers, set>>
    BY <1>1, <1>8 DEF DestroyListener, attempts, clock
  <2>2. CASE Underway(Accepting)
    <3>1. UNCHANGED <<pc, outcome>>
      BY <1>8, <2>2 DEF DestroyListener
    <3>2. Underway(Accepting)'
      BY <2>2, <3>1 DEF Underway
    <3> QED BY <1>1, <2>1, <3>1, <3>2, ListenerMoves
  <2>3. CASE ~Underway(Accepting)
    <3>1. /\ outcome' = [outcome EXCEPT ![Accepting] = @ + 1]
          /\ Moves(NoTask, "over", [listeners |-> -1], j)
      BY <1>8, <2>3 DEF DestroyListener, Once
    <3>2. /\ pc' \in [Activities -> Places] /\ \A c \in Connects \cup {Accepting} : pc'[c] = pc[c]
      BY <1>1, <3>1, MovesOthers DEF Inductive
    <3>3. outcome'[Accepting] = 1 /\ ~Underway(Accepting)'
      BY SMTT(30), <1>1, <2>1, <2>3, <3>1, <3>2 DEF Underway
    <3> QED BY <2>1, <3>1, <3>2, <3>3, ListenerMoves
  <2> QED BY <2>2, <2>3
<1> QED BY <1>2, <1>3, <1>4, <1>5, <1>6, <1>7, <1>8

\* Nothing was started and nothing heard of.
LEMMA InitInductive == Init => Inductive
<1> SUFFICES ASSUME Init PROVE Inductive
  OBVIOUS
<1>1. Types /\ Tabled
  BY DEF Init, Types, Tabled, Places, Heard
<1>2. Told
  BY Apart DEF Init, Told, Heard
<1> QED BY <1>1, <1>2 DEF Inductive

\* Every step of the reactor, of gRPC and of the stop keeps the invariant.
LEMMA NextInductive == Inductive /\ [Next]_vars => Inductive'
<1> SUFFICES ASSUME Inductive, [Next]_vars PROVE Inductive'
  OBVIOUS
<1>1. NoTask \in Runnable
  BY Apart
<1>2. CASE Reactor
  BY <1>2, TasksKeep, EndpointsKeep, TimersKeep, ConnectsKeep, ListenerKeeps, StopKeeps DEF Reactor
<1>3. CASE Use
  BY <1>1, <1>3, TasksKeep, EndpointsKeep, TimersKeep, ConnectsKeep, ListenerKeeps DEF Use
<1>4. CASE Destroy
  BY <1>1, <1>4, TasksKeep, EndpointsKeep, ListenerKeeps DEF Destroy
<1>5. CASE Stop \/ Watch \/ Retire \/ WatchEnds \/ UNCHANGED vars
  BY <1>5, StopKeeps
<1>6. ASSUME NEW a \in Connects \cup Transfers \cup Lookups \cup {Accepting}, Complete(a) PROVE Inductive'
  BY <1>6, CompleteKeeps
<1> QED BY <1>2, <1>3, <1>4, <1>5, <1>6 DEF Next

-----------------------------------------------------------------------------
\* What the counters of the shard count: coroutines with I/O under way, tasks in
\* the reactor's queue, and endpoints that gRPC has.
IoSet == Connects \cup Transfers \cup Lookups \cup {Accepting}
DueSet == Tasks \cup Connects
Busy == {a \in IoSet : Underway(a)}
Due == {a \in DueSet : pc[a] = "queued"}
Open == {e \in Endpoints : endpoint[e] = "open"}

Counted(S, n) == IsFiniteSet(S) /\ n = Cardinality(S)

\* The listener is counted until it is gone and accept() has ended.
Listening == listener \in {"created", "bound", "started"} \/ (listener = "gone" /\ Underway(Accepting))

Counts ==
    /\ Counted(Busy, observed["active_io"]) /\ Counted(Due, observed["active_tasks"])
    /\ Counted(Open, observed["endpoints"])
    /\ observed["resolvers"] = (IF resolver = "open" THEN 1 ELSE 0)
    /\ observed["listeners"] = (IF Listening THEN 1 ELSE 0)

\* A task does not wait, an attempt has no endpoint before it is over, and
\* accept() begins with Start.
Shape ==
    /\ observed \in [Counters -> Int] /\ endpoint \in [Endpoints -> {"none", "open", "gone"}]
    /\ listener \in {"none", "created", "bound", "started", "gone"}
    /\ resolver \in {"none", "open", "gone"}
    /\ \A k \in Tasks : pc[k] \notin {"waiting", "ready"}
    /\ \A c \in Connects : endpoint[c] # "none" => pc[c] = "over"
    /\ listener \in {"none", "created", "bound"} => ~Underway(Accepting)
    /\ armed \subseteq connections

\* How far the stop is.
Stopped ==
    /\ phase \in {"closed", "draining", "drained"} => timers = {} /\ connections = {}
    /\ phase \in {"draining", "drained"} => ~dns
    /\ phase = "drained" => watch = "none" /\ \A k \in Counters : observed[k] = 0

CountInv == Counts /\ Shape /\ Stopped

\* Counting.
LEMMA CountAdd ==
    ASSUME NEW S, NEW n, Counted(S, n), NEW x, x \notin S
    PROVE  Counted(S \cup {x}, n + 1)
BY FS_AddElement DEF Counted

LEMMA CountRemove ==
    ASSUME NEW S, NEW n, Counted(S, n), NEW x, x \in S
    PROVE  Counted(S \ {x}, n - 1)
BY FS_RemoveElement DEF Counted

LEMMA CountZero ==
    ASSUME NEW S, Counted(S, 0)
    PROVE  S = {}
BY FS_EmptySet DEF Counted

\* What Moves does to every activity: a goes to s, k is queued.
LEMMA MovesPc ==
    ASSUME Types, NEW a, NEW s \in Places, NEW d, NEW k \in Runnable, Moves(a, s, d, k)
    PROVE  /\ pc' \in [Activities -> Places]
           /\ \A b \in Activities : pc'[b] = IF b = a THEN s ELSE IF b = k THEN "queued" ELSE pc[b]
           /\ k # NoTask => k \in Tasks /\ k \in Activities /\ pc[k] = "idle"
           /\ k \notin IoSet /\ k \notin Connects
<1>1. pc' = [b \in Activities |-> IF b = a THEN s ELSE IF b = k THEN "queued" ELSE pc[b]]
  BY DEF Moves
<1>2. k # NoTask => k \in Tasks /\ k \in Activities /\ pc[k] = "idle"
  BY DEF Runnable, Activities
<1>3. k \notin IoSet
  BY <1>2, EngineConstants DEF IoSet, Activities
<1> QED BY <1>1, <1>2, <1>3 DEF Types, Places, IoSet

\* How the I/O of activity a changes when it goes to s, and how its task does.
BusyCase(a, s, i) ==
    \/ a \in IoSet /\ ~Underway(a) /\ s \notin {"idle", "over"} /\ i = 1
    \/ a \in IoSet /\ Underway(a) /\ s \in {"idle", "over"} /\ i = -1
    \/ a \in IoSet /\ Underway(a) /\ s \notin {"idle", "over"} /\ i = 0
    \/ a \notin IoSet /\ i = 0

DueCase(a, s, t) ==
    \/ a \in DueSet /\ pc[a] # "queued" /\ s = "queued" /\ t = 1
    \/ a \in DueSet /\ pc[a] = "queued" /\ s # "queued" /\ t = -1
    \/ a \in DueSet /\ pc[a] # "queued" /\ s # "queued" /\ t = 0
    \/ a \notin DueSet /\ t = 0

LEMMA BusyMoves ==
    ASSUME Types, NEW a, NEW s \in Places, NEW d, NEW k \in Runnable, Moves(a, s, d, k),
           NEW n \in Int, Counted(Busy, n), NEW i, BusyCase(a, s, i)
    PROVE  Counted(Busy', n + i)
<1>moved. /\ k \notin IoSet
          /\ \A b \in Activities : pc'[b] = IF b = a THEN s ELSE IF b = k THEN "queued" ELSE pc[b]
  BY MovesPc
<1>1. \A b \in IoSet : b \in Activities
  BY DEF IoSet, Activities
<1>2. \A b \in IoSet : pc'[b] = IF b = a THEN s ELSE pc[b]
  BY <1>1, <1>moved
<1>3. CASE a \in IoSet /\ ~Underway(a) /\ s \notin {"idle", "over"} /\ i = 1
  <2>1. Busy' = Busy \cup {a} /\ a \notin Busy
    BY <1>2, <1>3 DEF Busy, Underway
  <2>2. Counted(Busy \cup {a}, n + 1)
    BY <2>1, CountAdd
  <2> QED BY <1>3, <2>1, <2>2
<1>4. CASE a \in IoSet /\ Underway(a) /\ s \in {"idle", "over"} /\ i = -1
  <2>1. Busy' = Busy \ {a} /\ a \in Busy
    BY <1>2, <1>4 DEF Busy, Underway
  <2>2. Counted(Busy \ {a}, n - 1) /\ n + i = n - 1
    <3>1. n + i = n - 1
      BY SMTT(30), <1>4
    <3> QED BY <2>1, <3>1, CountRemove
  <2> QED BY <2>1, <2>2
<1>5. CASE (a \in IoSet /\ Underway(a) /\ s \notin {"idle", "over"} /\ i = 0) \/ (a \notin IoSet /\ i = 0)
  <2>1. Busy' = Busy
    BY <1>2, <1>5 DEF Busy, Underway
  <2>2. n + i = n
    BY SMTT(30), <1>5
  <2> QED BY <2>1, <2>2
<1> QED BY <1>3, <1>4, <1>5 DEF BusyCase

LEMMA DueMoves ==
    ASSUME Types, NEW a, NEW s \in Places, NEW d, NEW k \in Runnable, Moves(a, s, d, k),
           NEW n \in Int, Counted(Due, n), NEW t \in Int, DueCase(a, s, t), a # k \/ k = NoTask
    PROVE  Counted(Due', n + t + (IF k # NoTask THEN 1 ELSE 0))
<1>1. NoTask \notin DueSet /\ \A b \in DueSet : b \in Activities
  BY EngineConstants DEF DueSet, Activities
<1>2. \A b \in DueSet : pc'[b] = IF b = a THEN s ELSE IF b = k THEN "queued" ELSE pc[b]
  BY <1>1, MovesPc
<1> DEFINE mid == {b \in DueSet : (IF b = a THEN s ELSE pc[b]) = "queued"}
<1>3. Counted(mid, n + t)
  <2>1. CASE a \in DueSet /\ pc[a] # "queued" /\ s = "queued" /\ t = 1
    <3>1. mid = Due \cup {a} /\ a \notin Due
      BY <2>1 DEF Due
    <3>2. Counted(Due \cup {a}, n + 1)
      BY <3>1, CountAdd
    <3> QED BY <2>1, <3>1, <3>2
  <2>2. CASE a \in DueSet /\ pc[a] = "queued" /\ s # "queued" /\ t = -1
    <3>1. mid = Due \ {a} /\ a \in Due
      BY <2>2 DEF Due
    <3>2. n + t = n - 1
      BY SMTT(30), <2>2
    <3>3. Counted(Due \ {a}, n - 1)
      BY <3>1, CountRemove
    <3> QED BY <3>1, <3>2, <3>3
  <2>3. CASE (a \in DueSet /\ pc[a] # "queued" /\ s # "queued" /\ t = 0) \/ (a \notin DueSet /\ t = 0)
    <3>1. mid = Due
      BY <2>3 DEF Due
    <3>2. n + t = n
      BY SMTT(30), <2>3
    <3> QED BY <3>1, <3>2
  <2> QED BY <2>1, <2>2, <2>3 DEF DueCase
<1>4. CASE k = NoTask
  <2>1. Due' = mid
    BY <1>1, <1>2, <1>4 DEF Due
  <2>2. n + t + (IF k # NoTask THEN 1 ELSE 0) = n + t
    BY SMTT(30), <1>4
  <2> QED BY <1>3, <2>1, <2>2
<1>5. CASE k # NoTask
  <2>1. k \in DueSet /\ k # a /\ pc[k] = "idle"
    BY <1>5, MovesPc DEF DueSet
  <2>2. Due' = mid \cup {k} /\ k \notin mid
    BY <1>2, <2>1 DEF Due
  <2>3. n + t + (IF k # NoTask THEN 1 ELSE 0) = (n + t) + 1
    BY <1>5
  <2>4. Counted(mid \cup {k}, (n + t) + 1)
    BY <1>3, <2>2, CountAdd
  <2> QED BY <2>2, <2>3, <2>4
<1> QED BY <1>4, <1>5

\* The counters change, and task k is one more.
Changed(k, i, t, e, l, r) ==
    /\ observed'["active_io"] = observed["active_io"] + i
    /\ observed'["active_tasks"] = observed["active_tasks"] + t + (IF k # NoTask THEN 1 ELSE 0)
    /\ observed'["endpoints"] = observed["endpoints"] + e
    /\ observed'["listeners"] = observed["listeners"] + l
    /\ observed'["resolvers"] = observed["resolvers"] + r

\* Nothing of gRPC is under way on a drained shard.
LEMMA Quiet == Types /\ CountInv => QuietWhenDrained
<1> SUFFICES ASSUME Types, CountInv, phase = "drained"
             PROVE  /\ \A a \in Activities : ~Underway(a)
                    /\ timers = {} /\ connections = {} /\ armed = {}
                    /\ \A e \in Endpoints : endpoint[e] # "open"
                    /\ resolver # "open" /\ listener \in {"none", "gone"} /\ watch = "none"
  BY DEF QuietWhenDrained
<1>1. timers = {} /\ connections = {} /\ armed = {} /\ watch = "none"
  BY DEF CountInv, Stopped, Shape
<1>2. /\ observed["active_io"] = 0 /\ observed["active_tasks"] = 0 /\ observed["endpoints"] = 0
      /\ observed["resolvers"] = 0 /\ observed["listeners"] = 0
  BY DEF CountInv, Stopped, Counters
<1>3. Busy = {} /\ Due = {} /\ Open = {}
  BY <1>2, CountZero DEF CountInv, Counts
<1>4. ASSUME NEW a \in Activities PROVE ~Underway(a)
  <2>1. CASE a \in IoSet
    BY <1>3, <2>1 DEF Busy
  <2>2. CASE a \in Tasks
    <3>1. pc[a] # "queued"
      BY <1>3, <2>2 DEF Due, DueSet
    <3>2. pc[a] \notin {"waiting", "ready"}
      BY <2>2 DEF CountInv, Shape
    <3> QED BY <3>1, <3>2 DEF Types, Places, Underway
  <2> QED BY <2>1, <2>2 DEF Activities, IoSet
<1>5. \A e \in Endpoints : endpoint[e] # "open"
  BY <1>3 DEF Open
<1>6. resolver # "open" /\ ~Listening
  BY SMTT(30), <1>2 DEF CountInv, Counts
<1>7. listener \in {"none", "gone"}
  BY <1>6 DEF CountInv, Shape, Listening
<1> QED BY <1>1, <1>4, <1>5, <1>6, <1>7

\* So it takes no further step.
LEMMA DrainedRests ==
    ASSUME Types, CountInv, Next
    PROVE  phase # "drained"
<1> SUFFICES ASSUME phase = "drained" PROVE FALSE
  OBVIOUS
<1>1. /\ \A a \in Activities : pc[a] \in {"idle", "over"}
      /\ timers = {} /\ connections = {} /\ armed = {}
      /\ \A e \in Endpoints : endpoint[e] # "open"
      /\ resolver # "open" /\ listener \in {"none", "gone"} /\ watch = "none"
  BY Quiet DEF QuietWhenDrained, Underway
<1>2. /\ Connects \subseteq Activities /\ Transfers \subseteq Activities /\ Lookups \subseteq Activities
      /\ Tasks \subseteq Activities /\ Accepting \in Activities
  BY DEF Activities
<1>3. ~Live /\ ~dns
  BY DEF Live, CountInv, Stopped
<1>4. ASSUME NEW j, NEW k \in Tasks, RunTask(k, j) PROVE FALSE
  BY <1>1, <1>2, <1>4 DEF RunTask
<1>5. ASSUME NEW j, NEW c \in Connects,
             StartConnect(c) \/ ConnectTimeout(c) \/ EndConnect(c, j) \/ LoseConnect(c, j)
      PROVE  FALSE
  BY <1>1, <1>2, <1>5 DEF StartConnect, ConnectTimeout, EndConnect, LoseConnect
<1>6. ASSUME NEW j, NEW x \in Transfers, StartTransfer(x) \/ EndTransfer(x, j) PROVE FALSE
  BY <1>1, <1>2, <1>6 DEF StartTransfer, EndTransfer
<1>7. ASSUME NEW j, StartAccept \/ EndAccept(j) \/ \E e \in Incoming : Accept(e, j) PROVE FALSE
  BY <1>1, <1>2, <1>7 DEF StartAccept, EndAccept, Accept
<1>8. ASSUME NEW j, NEW l \in Lookups, StartLookup(l) \/ EndLookup(l, j) PROVE FALSE
  BY <1>1, <1>2, <1>8 DEF StartLookup, EndLookup
<1>9. ~Reactor
  BY <1>1, <1>4, <1>5, <1>6, <1>7, <1>8 DEF Reactor, Fire
<1>10. ~Use
  BY <1>1, <1>3 DEF Use, Run, RunAfter, Cancel, Connect, CancelConnect, Transfer, CreateListener, Bind, Start,
                    GetDNSResolver, LookupHostname
<1>11. ~Destroy /\ ~Stop
  BY <1>1, <1>3 DEF Destroy, DestroyEndpoint, DestroyListener, DestroyResolver,
                    Stop, ReleaseChannels, CloseEngine, CloseDns, Drain
<1>12. ~Watch /\ ~Retire /\ ~WatchEnds
  BY <1>1, <1>3 DEF Watch, Retire, WatchEnds
<1>13. \A a \in Connects \cup Transfers \cup Lookups \cup {Accepting} : ~Complete(a)
  BY <1>1, <1>2 DEF Complete
<1> QED BY <1>9, <1>10, <1>11, <1>12, <1>13 DEF Next

\* Before that, a step that is not one of the stop keeps Stopped.
LEMMA StopWaits ==
    ASSUME Stopped, phase # "drained", UNCHANGED <<phase, dns>>,
           Live \/ (timers' \subseteq timers /\ connections' \subseteq connections)
    PROVE  Stopped'
BY DEF Stopped, Live

\* A step in which an activity moves and the counters follow.
CountedMove(a, s, d, k, i, t, e, l, r) ==
    /\ Moves(a, s, d, k) /\ s \in Places /\ k \in Runnable /\ (a # k \/ k = NoTask)
    /\ UNCHANGED <<phase, dns>>
    /\ Live \/ (timers' \subseteq timers /\ connections' \subseteq connections)
    /\ armed' \subseteq connections'
    /\ a \in Tasks => s \notin {"waiting", "ready"}
    /\ i \in Int /\ t \in Int /\ e \in Int /\ l \in Int /\ r \in Int
    /\ Changed(k, i, t, e, l, r) /\ BusyCase(a, s, i) /\ DueCase(a, s, t)
    /\ endpoint' \in [Endpoints -> {"none", "open", "gone"}]
    /\ \A c \in Connects : endpoint'[c] # "none" => pc'[c] = "over"
    /\ Counted(Open', observed["endpoints"] + e)
    /\ listener' \in {"none", "created", "bound", "started", "gone"}
    /\ listener' \in {"none", "created", "bound"} => ~Underway(Accepting)'
    /\ observed["listeners"] + l = (IF Listening' THEN 1 ELSE 0)
    /\ resolver' \in {"none", "open", "gone"}
    /\ observed["resolvers"] + r = (IF resolver' = "open" THEN 1 ELSE 0)

LEMMA MovesCount ==
    ASSUME Types, CountInv, phase # "drained",
           NEW a, NEW s, NEW d, NEW k, NEW i, NEW t, NEW e, NEW l, NEW r,
           CountedMove(a, s, d, k, i, t, e, l, r)
    PROVE  CountInv'
<1> USE DEF CountedMove
<1>1. /\ observed \in [Counters -> Int] /\ observed["active_io"] \in Int /\ observed["active_tasks"] \in Int
      /\ Counted(Busy, observed["active_io"]) /\ Counted(Due, observed["active_tasks"])
  BY DEF CountInv, Shape, Counts, Counters
<1>2. Counted(Busy', observed["active_io"] + i)
  BY <1>1, BusyMoves
<1>3. Counted(Due', observed["active_tasks"] + t + (IF k # NoTask THEN 1 ELSE 0))
  BY <1>1, DueMoves
<1>4. Counts'
  BY <1>2, <1>3 DEF Counts, Changed, Counted
<1>5. observed' \in [Counters -> Int]
  <2>1. DOMAIN observed' = Counters /\ observed' = [c \in Counters |-> observed'[c]]
    BY DEF Moves
  <2>2. \A c \in Counters : observed'[c] \in Int
    BY SMTT(30), <1>1 DEF Changed, Counters
  <2> QED BY <2>1, <2>2
<1>6. \A b \in Tasks : pc'[b] \notin {"waiting", "ready"}
  <2>1. \A b \in Activities : pc'[b] = IF b = a THEN s ELSE IF b = k THEN "queued" ELSE pc[b]
    BY DEF Moves
  <2> QED BY <2>1 DEF Activities, CountInv, Shape
<1>7. Shape'
  BY <1>5, <1>6 DEF Shape
<1>8. Stopped'
  BY StopWaits DEF CountInv
<1> QED BY <1>4, <1>7, <1>8 DEF CountInv

\* Such a step that concerns no object of gRPC.
PlainMove(a, s, d, k, i, t) ==
    /\ Moves(a, s, d, k) /\ s \in Places /\ k \in Runnable /\ (a # k \/ k = NoTask)
    /\ UNCHANGED <<phase, dns, endpoint, listener, resolver>>
    /\ Live \/ (timers' \subseteq timers /\ connections' \subseteq connections)
    /\ armed' \subseteq connections'
    /\ a \in Tasks => s \notin {"waiting", "ready"}
    /\ a \in Connects => pc[a] # "over" \/ s = "over"
    /\ a # Accepting \/ (Underway(Accepting) /\ s \notin {"idle", "over"})
    /\ i \in Int /\ t \in Int /\ Changed(k, i, t, 0, 0, 0) /\ BusyCase(a, s, i) /\ DueCase(a, s, t)

LEMMA PlainMoves ==
    ASSUME Types, CountInv, phase # "drained",
           NEW a, NEW s, NEW d, NEW k, NEW i, NEW t, PlainMove(a, s, d, k, i, t)
    PROVE  CountInv'
<1> USE DEF PlainMove
<1>1. /\ Connects \subseteq Activities /\ Accepting \in Activities
      /\ k \notin Connects /\ k # Accepting
      /\ \A b \in Activities : pc'[b] = IF b = a THEN s ELSE IF b = k THEN "queued" ELSE pc[b]
  BY MovesPc DEF Activities, IoSet
<1>2. Underway(Accepting)' = Underway(Accepting)
  BY <1>1 DEF Underway
<1>3. \A c \in Connects : endpoint'[c] # "none" => pc'[c] = "over"
  BY <1>1 DEF CountInv, Shape
<1>4. Open' = Open /\ Listening' = Listening
  BY <1>2 DEF Open, Listening
<1>5. /\ observed["endpoints"] \in Int /\ observed["listeners"] \in Int /\ observed["resolvers"] \in Int
      /\ Counted(Open, observed["endpoints"])
  BY DEF CountInv, Shape, Counters, Counts
<1>6. /\ observed["endpoints"] + 0 = observed["endpoints"] /\ observed["listeners"] + 0 = observed["listeners"]
      /\ observed["resolvers"] + 0 = observed["resolvers"] /\ 0 \in Int
  BY SMTT(30), <1>5
<1>7. /\ Counted(Open', observed["endpoints"] + 0)
      /\ observed["listeners"] + 0 = (IF Listening' THEN 1 ELSE 0)
      /\ observed["resolvers"] + 0 = (IF resolver' = "open" THEN 1 ELSE 0)
  BY <1>4, <1>5, <1>6 DEF CountInv, Counts
<1>8. /\ endpoint' \in [Endpoints -> {"none", "open", "gone"}]
      /\ listener' \in {"none", "created", "bound", "started", "gone"}
      /\ resolver' \in {"none", "open", "gone"}
      /\ listener' \in {"none", "created", "bound"} => ~Underway(Accepting)'
  BY <1>2 DEF CountInv, Shape
<1>9. CountedMove(a, s, d, k, i, t, 0, 0, 0)
  BY <1>3, <1>6, <1>7, <1>8 DEF CountedMove
<1> QED BY <1>9, MovesCount

\* A step in which no activity moves.
LEMMA CountsStay ==
    ASSUME CountInv, phase # "drained", UNCHANGED <<phase, dns, pc, observed, endpoint, resolver>>,
           listener' = listener \/ (listener = "created" /\ listener' = "bound"),
           Live \/ (timers' \subseteq timers /\ connections' \subseteq connections),
           armed' \subseteq connections'
    PROVE  CountInv'
<1>1. Busy' = Busy /\ Due' = Due /\ Open' = Open /\ Underway(Accepting)' = Underway(Accepting)
  BY DEF Busy, Due, Open, Underway
<1>2. Listening' = Listening
  BY <1>1 DEF Listening
<1>3. Counts'
  BY <1>1, <1>2 DEF CountInv, Counts
<1>4. Shape'
  BY <1>1 DEF CountInv, Shape
<1> QED BY <1>3, <1>4, StopWaits DEF CountInv

\* Tasks and timers.
LEMMA TasksCount ==
    ASSUME Types, CountInv, phase # "drained", NEW j \in Runnable,
           \/ \E k \in Tasks : Run(k) \/ RunTask(k, j)
           \/ \E t \in Timers : RunAfter(t) \/ Cancel(t) \/ Fire(t, j)
    PROVE  CountInv'
<1>1. /\ armed \subseteq connections /\ NoTask \in Runnable /\ {"queued", "over"} \subseteq Places
      /\ \A k \in Tasks : k \in DueSet /\ k \notin IoSet /\ k \notin Connects /\ k # Accepting
      /\ \A t \in Timers : t \notin DueSet /\ t \notin IoSet /\ t \notin Tasks /\ t \notin Connects /\ t # Accepting
      /\ 0 \in Int /\ 1 \in Int /\ -1 \in Int /\ (j # NoTask => pc[j] = "idle")
      /\ observed \in [Counters -> Int]
  <2>1. armed \subseteq connections /\ observed \in [Counters -> Int]
    BY DEF CountInv, Shape
  <2>2. 0 \in Int /\ 1 \in Int /\ -1 \in Int
    BY SMTT(30)
  <2>3. /\ \A k \in Tasks : k \in DueSet /\ k \notin IoSet /\ k \notin Connects /\ k # Accepting
        /\ \A t \in Timers : t \notin DueSet /\ t \notin IoSet /\ t \notin Tasks /\ t \notin Connects /\ t # Accepting
    BY EngineConstants DEF DueSet, IoSet, Activities
  <2> QED BY <2>1, <2>2, <2>3 DEF Runnable, Places
<1>2. ASSUME NEW k \in Tasks, Run(k) PROVE CountInv'
  <2>1. /\ Moves(k, "queued", [active_tasks |-> 1], NoTask) /\ Live /\ pc[k] = "idle"
        /\ UNCHANGED <<phase, dns, endpoint, listener, resolver, armed, connections>>
    BY <1>2 DEF Run, Runnable, attempts, objects, names
  <2>2. Changed(NoTask, 0, 1, 0, 0, 0)
    BY SMTT(30), <1>1, <2>1 DEF Changed, Moves, Counters
  <2>3. BusyCase(k, "queued", 0) /\ DueCase(k, "queued", 1)
    BY <1>1, <2>1 DEF BusyCase, DueCase
  <2>4. PlainMove(k, "queued", [active_tasks |-> 1], NoTask, 0, 1)
    BY <1>1, <2>1, <2>2, <2>3 DEF PlainMove
  <2> QED BY <2>4, PlainMoves
<1>3. ASSUME NEW k \in Tasks, RunTask(k, j) PROVE CountInv'
  <2>1. /\ Moves(k, "over", [active_tasks |-> -1], j) /\ pc[k] = "queued"
        /\ UNCHANGED <<phase, dns, endpoint, listener, resolver, armed, connections, timers>>
    BY <1>3 DEF RunTask, attempts, objects, names, clock
  <2>2. Changed(j, 0, -1, 0, 0, 0)
    BY SMTT(30), <1>1, <2>1 DEF Changed, Moves, Counters
  <2>3. BusyCase(k, "over", 0) /\ DueCase(k, "over", -1)
    BY <1>1, <2>1 DEF BusyCase, DueCase
  <2>4. j # k \/ j = NoTask
    BY <1>1, <2>1
  <2>5. PlainMove(k, "over", [active_tasks |-> -1], j, 0, -1)
    BY <1>1, <2>1, <2>2, <2>3, <2>4 DEF PlainMove
  <2> QED BY <2>5, PlainMoves
<1>4. ASSUME NEW t \in Timers, Fire(t, j) PROVE CountInv'
  <2>1. /\ Moves(t, "over", <<>>, j) /\ timers' \subseteq timers
        /\ UNCHANGED <<phase, dns, endpoint, listener, resolver, armed, connections>>
    BY <1>4 DEF Fire, attempts, objects, names
  <2>2. Changed(j, 0, 0, 0, 0, 0)
    BY SMTT(30), <1>1, <2>1 DEF Changed, Moves, Counters
  <2>3. BusyCase(t, "over", 0) /\ DueCase(t, "over", 0)
    BY <1>1 DEF BusyCase, DueCase
  <2>4. j # t \/ j = NoTask
    BY <1>1 DEF Runnable
  <2>5. PlainMove(t, "over", <<>>, j, 0, 0)
    BY <1>1, <2>1, <2>2, <2>3, <2>4 DEF PlainMove
  <2> QED BY <2>5, PlainMoves
<1>5. ASSUME NEW t \in Timers, RunAfter(t) \/ Cancel(t) PROVE CountInv'
  BY <1>1, <1>5, CountsStay DEF RunAfter, Cancel, attempts, objects, names
<1> QED BY <1>2, <1>3, <1>4, <1>5

\* Which activities the counters count.
LEMMA Kinds ==
    /\ 0 \in Int /\ 1 \in Int /\ -1 \in Int
    /\ {"idle", "queued", "waiting", "ready", "over"} \subseteq Places
    /\ NoTask \in Runnable /\ NoTask \notin IoSet /\ NoTask \notin DueSet /\ NoTask \notin Tasks /\ NoTask \notin Connects /\ NoTask # Accepting
    /\ \A c \in Connects : c \in IoSet /\ c \in DueSet /\ c \notin Tasks /\ c # Accepting /\ c \in Activities
    /\ \A x \in Transfers \cup Lookups :
          x \in IoSet /\ x \notin DueSet /\ x \notin Tasks /\ x \notin Connects /\ x # Accepting /\ x \in Activities
    /\ Accepting \in IoSet /\ Accepting \notin DueSet /\ Accepting \notin Tasks /\ Accepting \notin Connects
    /\ Accepting \in Activities
    /\ \A j \in Runnable : j = NoTask \/ (j \in Tasks /\ pc[j] = "idle")
<1>1. 0 \in Int /\ 1 \in Int /\ -1 \in Int
  BY SMTT(30)
<1>2. {"idle", "queued", "waiting", "ready", "over"} \subseteq Places /\ NoTask \in Runnable
  BY DEF Places, Runnable
<1>3. NoTask \notin IoSet /\ NoTask \notin DueSet /\ NoTask \notin Tasks /\ NoTask \notin Connects /\ NoTask # Accepting
  BY EngineConstants DEF IoSet, DueSet, Activities
<1>4. \A c \in Connects : c \in IoSet /\ c \in DueSet /\ c \notin Tasks /\ c # Accepting /\ c \in Activities
  BY EngineConstants DEF IoSet, DueSet, Activities
<1>5. \A x \in Transfers \cup Lookups :
          x \in IoSet /\ x \notin DueSet /\ x \notin Tasks /\ x \notin Connects /\ x # Accepting /\ x \in Activities
  BY EngineConstants DEF IoSet, DueSet, Activities
<1>6. /\ Accepting \in IoSet /\ Accepting \notin DueSet /\ Accepting \notin Tasks /\ Accepting \notin Connects
      /\ Accepting \in Activities
  BY EngineConstants DEF IoSet, DueSet, Activities
<1>7. \A j \in Runnable : j = NoTask \/ (j \in Tasks /\ pc[j] = "idle")
  BY DEF Runnable
<1> QED BY <1>1, <1>2, <1>3, <1>4, <1>5, <1>6, <1>7

\* Reads, writes and lookups.
LEMMA TransfersCount ==
    ASSUME Types, CountInv, phase # "drained", NEW j \in Runnable, NEW x \in Transfers \cup Lookups,
           \/ Transfer(x) \/ StartTransfer(x) \/ EndTransfer(x, j)
           \/ LookupHostname(x) \/ StartLookup(x) \/ EndLookup(x, j)
    PROVE  CountInv'
<1>1. armed \subseteq connections /\ observed \in [Counters -> Int]
  BY DEF CountInv, Shape
<1>2. /\ x \in IoSet /\ x \notin DueSet /\ x \notin Tasks /\ x \notin Connects /\ x # Accepting
      /\ 0 \in Int /\ 1 \in Int /\ -1 \in Int /\ NoTask \in Runnable
      /\ "queued" \in Places /\ "waiting" \in Places /\ "ready" \in Places /\ "over" \in Places /\ "idle" \in Places
      /\ x # j
  BY Kinds
<1>3. /\ UNCHANGED <<phase, dns, endpoint, listener, resolver, armed, connections, timers>>
  BY DEF Transfer, StartTransfer, EndTransfer, LookupHostname, StartLookup, EndLookup,
         attempts, objects, names, clock
<1>4. CASE Transfer(x) \/ LookupHostname(x)
  <2>1. Moves(x, "queued", [active_io |-> 1], NoTask) /\ pc[x] = "idle"
    BY <1>4 DEF Transfer, LookupHostname
  <2>2. Changed(NoTask, 1, 0, 0, 0, 0)
    BY SMTT(30), <1>1, <2>1 DEF Changed, Moves, Counters
  <2>3. BusyCase(x, "queued", 1) /\ DueCase(x, "queued", 0)
    BY <1>2, <2>1 DEF BusyCase, DueCase, Underway
  <2>4. PlainMove(x, "queued", [active_io |-> 1], NoTask, 1, 0)
    BY <1>1, <1>2, <1>3, <2>1, <2>2, <2>3 DEF PlainMove
  <2> QED BY <2>4, PlainMoves
<1>5. ASSUME NEW s \in {"waiting", "ready"}, pc[x] = "queued", Moves(x, s, <<>>, NoTask) PROVE CountInv'
  <2>1. Changed(NoTask, 0, 0, 0, 0, 0)
    BY SMTT(30), <1>1, <1>5 DEF Changed, Moves, Counters
  <2>2. BusyCase(x, s, 0) /\ DueCase(x, s, 0)
    BY <1>2, <1>5 DEF BusyCase, DueCase, Underway
  <2>3. PlainMove(x, s, <<>>, NoTask, 0, 0)
    BY <1>1, <1>2, <1>3, <1>5, <2>1, <2>2 DEF PlainMove
  <2> QED BY <2>3, PlainMoves
<1>6. ASSUME NEW s \in {"idle", "over"}, pc[x] = "ready", Moves(x, s, [active_io |-> -1], j) PROVE CountInv'
  <2>1. Changed(j, -1, 0, 0, 0, 0)
    BY SMTT(30), <1>1, <1>6 DEF Changed, Moves, Counters
  <2>2. BusyCase(x, s, -1) /\ DueCase(x, s, 0)
    BY <1>2, <1>6 DEF BusyCase, DueCase, Underway
  <2>3. PlainMove(x, s, [active_io |-> -1], j, -1, 0)
    BY <1>1, <1>2, <1>3, <1>6, <2>1, <2>2 DEF PlainMove
  <2> QED BY <2>3, PlainMoves
<1>7. CASE StartTransfer(x) \/ StartLookup(x)
  BY <1>5, <1>7 DEF StartTransfer, StartLookup
<1>8. CASE EndTransfer(x, j) \/ EndLookup(x, j)
  BY <1>6, <1>8 DEF EndTransfer, EndLookup
<1> QED BY <1>4, <1>7, <1>8

\* What an activity waits for has happened.
LEMMA CompleteCounts ==
    ASSUME Types, CountInv, phase # "drained",
           NEW a \in Connects \cup Transfers \cup Lookups \cup {Accepting}, Complete(a)
    PROVE  CountInv'
<1>1. armed \subseteq connections /\ observed \in [Counters -> Int]
  BY DEF CountInv, Shape
<1>2. /\ a \in IoSet /\ a \notin Tasks /\ 0 \in Int /\ NoTask \in Runnable /\ "ready" \in Places
  BY Kinds
<1>3. /\ UNCHANGED <<phase, dns, endpoint, listener, resolver, armed, connections, timers>>
      /\ pc[a] = "waiting" /\ Moves(a, "ready", <<>>, NoTask)
  BY DEF Complete, attempts, objects, names, clock
<1>4. Changed(NoTask, 0, 0, 0, 0, 0)
  BY SMTT(30), <1>1, <1>3 DEF Changed, Moves, Counters
<1>5. BusyCase(a, "ready", 0) /\ DueCase(a, "ready", 0)
  BY <1>2, <1>3 DEF BusyCase, DueCase, Underway
<1>6. PlainMove(a, "ready", <<>>, NoTask, 0, 0)
  BY <1>1, <1>2, <1>3, <1>4, <1>5 DEF PlainMove, Underway
<1> QED BY <1>6, PlainMoves

\* Connection attempts.
LEMMA ConnectsCount ==
    ASSUME Types, CountInv, phase # "drained", NEW c \in Connects,
           Connect(c) \/ StartConnect(c) \/ ConnectTimeout(c) \/ CancelConnect(c)
    PROVE  CountInv'
<1>1. armed \subseteq connections /\ observed \in [Counters -> Int]
  BY DEF CountInv, Shape
<1>2. /\ c \in IoSet /\ c \in DueSet /\ c \notin Tasks /\ c # Accepting
      /\ 0 \in Int /\ 1 \in Int /\ -1 \in Int /\ NoTask \in Runnable
      /\ "queued" \in Places /\ "waiting" \in Places
  BY Kinds
<1>3. CASE Connect(c)
  <2>1. /\ Moves(c, "queued", [active_io |-> 1, active_tasks |-> 1], NoTask) /\ Live /\ pc[c] = "idle"
        /\ UNCHANGED <<phase, dns, endpoint, listener, resolver>>
        /\ armed' = armed \cup {c} /\ connections' = connections \cup {c}
    BY <1>3 DEF Connect, objects, names
  <2>2. Changed(NoTask, 1, 1, 0, 0, 0)
    BY SMTT(30), <1>1, <2>1 DEF Changed, Moves, Counters
  <2>3. BusyCase(c, "queued", 1) /\ DueCase(c, "queued", 1)
    BY <1>2, <2>1 DEF BusyCase, DueCase, Underway
  <2>4. PlainMove(c, "queued", [active_io |-> 1, active_tasks |-> 1], NoTask, 1, 1)
    BY <1>1, <1>2, <2>1, <2>2, <2>3 DEF PlainMove
  <2> QED BY <2>4, PlainMoves
<1>4. CASE StartConnect(c)
  <2>1. /\ Moves(c, "waiting", [active_tasks |-> -1], NoTask) /\ pc[c] = "queued"
        /\ UNCHANGED <<phase, dns, endpoint, listener, resolver, armed, connections, timers>>
    BY <1>4 DEF StartConnect, attempts, objects, names, clock
  <2>2. Changed(NoTask, 0, -1, 0, 0, 0)
    BY SMTT(30), <1>1, <2>1 DEF Changed, Moves, Counters
  <2>3. BusyCase(c, "waiting", 0) /\ DueCase(c, "waiting", -1)
    BY <1>2, <2>1 DEF BusyCase, DueCase, Underway
  <2>4. PlainMove(c, "waiting", [active_tasks |-> -1], NoTask, 0, -1)
    BY <1>1, <1>2, <2>1, <2>2, <2>3 DEF PlainMove
  <2> QED BY <2>4, PlainMoves
<1>5. CASE ConnectTimeout(c) \/ CancelConnect(c)
  <2>1. /\ UNCHANGED <<phase, dns, pc, observed, endpoint, resolver, listener, timers>>
        /\ armed' = armed \ {c} /\ connections' \in {connections, connections \ {c}}
    BY <1>5 DEF ConnectTimeout, CancelConnect, clock, objects, names
  <2> QED BY <1>1, <2>1, CountsStay
<1> QED BY <1>3, <1>4, <1>5

\* The objects that a step leaves alone count as before.
LEMMA ObjectsStay ==
    ASSUME CountInv
    PROVE  /\ UNCHANGED endpoint => Counted(Open', observed["endpoints"] + 0)
           /\ UNCHANGED listener /\ Underway(Accepting)' = Underway(Accepting) =>
                 observed["listeners"] + 0 = (IF Listening' THEN 1 ELSE 0)
           /\ UNCHANGED resolver => observed["resolvers"] + 0 = (IF resolver' = "open" THEN 1 ELSE 0)
<1>1. /\ observed["endpoints"] \in Int /\ observed["listeners"] \in Int /\ observed["resolvers"] \in Int
      /\ Counted(Open, observed["endpoints"])
      /\ observed["resolvers"] = (IF resolver = "open" THEN 1 ELSE 0)
      /\ observed["listeners"] = (IF Listening THEN 1 ELSE 0)
  BY DEF CountInv, Shape, Counters, Counts
<1>2. /\ observed["endpoints"] + 0 = observed["endpoints"] /\ observed["listeners"] + 0 = observed["listeners"]
      /\ observed["resolvers"] + 0 = observed["resolvers"]
  BY SMTT(30), <1>1
<1>3. UNCHANGED endpoint => Open' = Open
  BY DEF Open
<1>4. UNCHANGED listener /\ Underway(Accepting)' = Underway(Accepting) => (Listening' <=> Listening)
  BY DEF Listening, Underway
<1>5. UNCHANGED endpoint => Counted(Open', observed["endpoints"] + 0)
  BY <1>1, <1>2, <1>3
<1>6. ASSUME UNCHANGED listener, Underway(Accepting)' = Underway(Accepting)
      PROVE  observed["listeners"] + 0 = (IF Listening' THEN 1 ELSE 0)
  BY <1>1, <1>2, <1>4, <1>6
<1>7. UNCHANGED resolver => observed["resolvers"] + 0 = (IF resolver' = "open" THEN 1 ELSE 0)
  BY <1>1, <1>2
<1> QED BY <1>5, <1>6, <1>7

\* Endpoints come and go.
LEMMA EndpointCount ==
    ASSUME CountInv, NEW e \in Endpoints, NEW s \in {"open", "gone"},
           endpoint' = [endpoint EXCEPT ![e] = s],
           IF s = "open" THEN endpoint[e] = "none" ELSE endpoint[e] = "open"
    PROVE  /\ endpoint' \in [Endpoints -> {"none", "open", "gone"}]
           /\ s = "open" => Counted(Open', observed["endpoints"] + 1)
           /\ s = "gone" => Counted(Open', observed["endpoints"] + (-1))
<1>1. /\ endpoint \in [Endpoints -> {"none", "open", "gone"}] /\ Counted(Open, observed["endpoints"])
      /\ observed["endpoints"] \in Int
  BY DEF CountInv, Shape, Counts, Counters
<1>2. CASE s = "open"
  <2>1. Open' = Open \cup {e} /\ e \notin Open
    BY <1>1, <1>2 DEF Open
  <2> QED BY <1>1, <1>2, <2>1, CountAdd
<1>3. CASE s = "gone"
  <2>1. Open' = Open \ {e} /\ e \in Open
    BY <1>1, <1>3 DEF Open
  <2>2. observed["endpoints"] + (-1) = observed["endpoints"] - 1
    BY SMTT(30), <1>1
  <2>3. Counted(Open \ {e}, observed["endpoints"] - 1)
    BY <1>1, <2>1, CountRemove
  <2> QED BY <1>1, <1>3, <2>1, <2>2, <2>3
<1> QED BY <1>2, <1>3

\* An attempt ends, with n endpoints.
LEMMA AttemptCounts ==
    ASSUME Types, CountInv, phase # "drained", NEW c \in Connects, NEW j \in Runnable, NEW n \in {0, 1}, NEW d,
           Changed(j, -1, 0, n, 0, 0), pc[c] = "ready",
           Moves(c, "over", d, j), UNCHANGED <<phase, dns, listener, resolver, timers>>,
           connections' = connections \ {c}, armed' = armed \ {c},
           endpoint' = IF n = 1 THEN [endpoint EXCEPT ![c] = "open"] ELSE endpoint
    PROVE  CountInv'
<1>1. /\ armed \subseteq connections /\ observed \in [Counters -> Int]
      /\ endpoint \in [Endpoints -> {"none", "open", "gone"}]
      /\ listener \in {"none", "created", "bound", "started", "gone"} /\ resolver \in {"none", "open", "gone"}
      /\ listener \in {"none", "created", "bound"} => ~Underway(Accepting)
      /\ \A b \in Connects : endpoint[b] # "none" => pc[b] = "over"
  BY DEF CountInv, Shape
<1>2. /\ c \in IoSet /\ c \in DueSet /\ c \notin Tasks /\ c # Accepting /\ Accepting \in Activities
      /\ \A b \in Connects : b \in Activities
      /\ 0 \in Int /\ 1 \in Int /\ -1 \in Int /\ "over" \in Places /\ c # j /\ n \in Int /\ j # Accepting
      /\ \A b \in Connects : b # j
  BY Kinds
<1>3. /\ pc[c] = "ready" /\ Moves(c, "over", d, j) /\ UNCHANGED <<phase, dns, listener, resolver, timers>>
      /\ connections' = connections \ {c} /\ armed' = armed \ {c}
      /\ endpoint' = IF n = 1 THEN [endpoint EXCEPT ![c] = "open"] ELSE endpoint
  OBVIOUS
<1>4. Changed(j, -1, 0, n, 0, 0) /\ 0 # 1
  BY SMTT(30)
<1>5. BusyCase(c, "over", -1) /\ DueCase(c, "over", 0)
  BY <1>2, <1>3 DEF BusyCase, DueCase, Underway
<1>6. /\ \A b \in Activities : pc'[b] = IF b = c THEN "over" ELSE IF b = j THEN "queued" ELSE pc[b]
  BY <1>3 DEF Moves
<1>7. Underway(Accepting)' = Underway(Accepting)
  BY <1>2, <1>6 DEF Underway
<1>8. c \in Endpoints /\ endpoint[c] = "none"
  BY <1>1, <1>3 DEF Endpoints
<1>9. endpoint' \in [Endpoints -> {"none", "open", "gone"}] /\ Counted(Open', observed["endpoints"] + n)
  <2>1. CASE n = 1
    BY <1>3, <1>8, <2>1, EndpointCount
  <2>2. CASE n = 0
    BY <1>1, <1>3, <1>4, <2>2, ObjectsStay
  <2> QED BY <2>1, <2>2
<1>10. \A b \in Connects : endpoint'[b] # "none" => pc'[b] = "over"
  <2>1. \A b \in Connects \ {c} : endpoint'[b] = endpoint[b] /\ pc'[b] = pc[b]
    BY <1>1, <1>2, <1>3, <1>6 DEF Endpoints
  <2>2. pc'[c] = "over"
    BY <1>2, <1>6
  <2> QED BY <1>1, <2>1, <2>2
<1>11. CountedMove(c, "over", d, j, -1, 0, n, 0, 0)
  <2>1. /\ observed["listeners"] + 0 = (IF Listening' THEN 1 ELSE 0)
        /\ observed["resolvers"] + 0 = (IF resolver' = "open" THEN 1 ELSE 0)
    BY <1>3, <1>7, ObjectsStay
  <2>2. connections' \subseteq connections /\ armed' \subseteq connections' /\ timers' \subseteq timers
    BY <1>1, <1>3
  <2> QED BY <1>1, <1>2, <1>3, <1>4, <1>5, <1>7, <1>9, <1>10, <2>1, <2>2 DEF CountedMove
<1> QED BY <1>11, MovesCount

\* connect() goes on, with an endpoint or without, or is lost.
LEMMA EndConnectCounts ==
    ASSUME Types, CountInv, phase # "drained", NEW c \in Connects, NEW j \in Runnable,
           EndConnect(c, j) \/ LoseConnect(c, j)
    PROVE  CountInv'
<1>1. observed \in [Counters -> Int]
  BY DEF CountInv, Shape
<1>2. CASE EndConnect(c, j)
  <2> DEFINE made == c \in good \ (cancelled \cup expired)
             n == IF made THEN 1 ELSE 0
             d == [active_io |-> -1, endpoints |-> n]
  <2>1. /\ pc[c] = "ready" /\ Moves(c, "over", d, j) /\ UNCHANGED <<phase, dns, listener, resolver, timers>>
        /\ connections' = connections \ {c} /\ armed' = armed \ {c}
        /\ endpoint' = IF made THEN [endpoint EXCEPT ![c] = "open"] ELSE endpoint
    BY <1>2 DEF EndConnect, clock, names
  <2>2. Changed(j, -1, 0, n, 0, 0)
    BY SMTT(30), <1>1, <2>1 DEF Changed, Moves, Counters
  <2>3. n \in {0, 1} /\ (n = 1 <=> made)
    BY SMTT(30)
  <2>4. endpoint' = IF n = 1 THEN [endpoint EXCEPT ![c] = "open"] ELSE endpoint
    BY <2>1, <2>3
  <2> HIDE DEF n, d, made
  <2> QED BY <2>1, <2>2, <2>3, <2>4, AttemptCounts
<1>3. CASE LoseConnect(c, j)
  <2>1. /\ pc[c] = "ready" /\ Moves(c, "over", [active_io |-> -1], j)
        /\ UNCHANGED <<phase, dns, listener, resolver, timers>>
        /\ connections' = connections \ {c} /\ armed' = armed \ {c} /\ endpoint' = endpoint
    BY <1>3 DEF LoseConnect, clock, names, objects
  <2>2. Changed(j, -1, 0, 0, 0, 0)
    BY SMTT(30), <1>1, <2>1 DEF Changed, Moves, Counters
  <2>3. endpoint' = IF 0 = 1 THEN [endpoint EXCEPT ![c] = "open"] ELSE endpoint
    BY SMTT(30), <2>1
  <2> QED BY <2>1, <2>2, <2>3, AttemptCounts
<1> QED BY <1>2, <1>3

\* An object of gRPC comes or goes without an activity.
LEMMA NobodyMoves ==
    ASSUME Types, CountInv, NEW d, NEW k \in Runnable, Moves(NoTask, "over", d, k)
    PROVE  /\ BusyCase(NoTask, "over", 0) /\ DueCase(NoTask, "over", 0)
           /\ Underway(Accepting)' = Underway(Accepting)
           /\ \A c \in Connects : pc'[c] = pc[c]
<1>1. BusyCase(NoTask, "over", 0) /\ DueCase(NoTask, "over", 0)
  BY Kinds DEF BusyCase, DueCase
<1>2. \A b \in Activities : pc'[b] = IF b = NoTask THEN "over" ELSE IF b = k THEN "queued" ELSE pc[b]
  BY DEF Moves
<1>3. /\ \A c \in Connects : c \in Activities /\ c # NoTask /\ c # k
      /\ Accepting \in Activities /\ Accepting # NoTask /\ Accepting # k
  BY Kinds
<1>4. \A c \in Connects \cup {Accepting} : pc'[c] = pc[c]
  BY <1>2, <1>3
<1> QED BY <1>1, <1>4 DEF Underway

\* ~reactor_endpoint, GetDNSResolver and ~reactor_dns.
LEMMA EndpointsCount ==
    ASSUME Types, CountInv, phase # "drained",
           (\E e \in Endpoints : DestroyEndpoint(e)) \/ GetDNSResolver \/ DestroyResolver
    PROVE  CountInv'
<1>1. /\ armed \subseteq connections /\ observed \in [Counters -> Int]
      /\ endpoint \in [Endpoints -> {"none", "open", "gone"}]
      /\ listener \in {"none", "created", "bound", "started", "gone"} /\ resolver \in {"none", "open", "gone"}
      /\ listener \in {"none", "created", "bound"} => ~Underway(Accepting)
      /\ \A b \in Connects : endpoint[b] # "none" => pc[b] = "over"
      /\ observed["resolvers"] = (IF resolver = "open" THEN 1 ELSE 0)
  BY DEF CountInv, Shape, Counts
<1>2. /\ 0 \in Int /\ 1 \in Int /\ -1 \in Int /\ "over" \in Places /\ NoTask \in Runnable /\ NoTask \notin Tasks
  BY Kinds
<1>3. /\ UNCHANGED <<phase, dns, listener, timers, connections, armed>>
  BY DEF DestroyEndpoint, GetDNSResolver, DestroyResolver, attempts, clock, names
<1>4. ASSUME NEW e \in Endpoints, DestroyEndpoint(e) PROVE CountInv'
  <2>1. /\ endpoint[e] = "open" /\ endpoint' = [endpoint EXCEPT ![e] = "gone"] /\ UNCHANGED resolver
        /\ Moves(NoTask, "over", [endpoints |-> -1], NoTask)
    BY <1>4 DEF DestroyEndpoint
  <2>2. Changed(NoTask, 0, 0, -1, 0, 0)
    BY SMTT(30), <1>1, <2>1 DEF Changed, Moves, Counters
  <2>3. /\ BusyCase(NoTask, "over", 0) /\ DueCase(NoTask, "over", 0)
        /\ Underway(Accepting)' = Underway(Accepting) /\ \A c \in Connects : pc'[c] = pc[c]
    BY <1>2, <2>1, NobodyMoves
  <2>4. endpoint' \in [Endpoints -> {"none", "open", "gone"}] /\ Counted(Open', observed["endpoints"] + (-1))
    BY <2>1, EndpointCount
  <2>5. \A c \in Connects : endpoint'[c] # "none" => pc'[c] = "over"
    BY <1>1, <2>1, <2>3 DEF Endpoints
  <2>6. /\ observed["listeners"] + 0 = (IF Listening' THEN 1 ELSE 0)
        /\ observed["resolvers"] + 0 = (IF resolver' = "open" THEN 1 ELSE 0)
    BY <1>3, <2>1, <2>3, ObjectsStay
  <2>7. CountedMove(NoTask, "over", [endpoints |-> -1], NoTask, 0, 0, -1, 0, 0)
    BY <1>1, <1>2, <1>3, <2>1, <2>2, <2>3, <2>4, <2>5, <2>6 DEF CountedMove
  <2> QED BY <2>7, MovesCount
<1>5. ASSUME NEW r \in {1, -1}, Moves(NoTask, "over", [resolvers |-> r], NoTask), UNCHANGED endpoint,
             \/ r = 1 /\ resolver = "none" /\ resolver' = "open"
             \/ r = -1 /\ resolver = "open" /\ resolver' = "gone"
      PROVE  CountInv'
  <2>1. Changed(NoTask, 0, 0, 0, 0, r)
    BY SMTT(30), <1>1, <1>5 DEF Changed, Moves, Counters
  <2>2. /\ BusyCase(NoTask, "over", 0) /\ DueCase(NoTask, "over", 0)
        /\ Underway(Accepting)' = Underway(Accepting) /\ \A c \in Connects : pc'[c] = pc[c]
    BY <1>2, <1>5, NobodyMoves
  <2>3. /\ observed["listeners"] + 0 = (IF Listening' THEN 1 ELSE 0)
        /\ Counted(Open', observed["endpoints"] + 0)
    BY <1>3, <1>5, <2>2, ObjectsStay
  <2>4. observed["resolvers"] + r = (IF resolver' = "open" THEN 1 ELSE 0) /\ r \in Int
    BY SMTT(30), <1>1, <1>5
  <2>5. resolver' \in {"none", "open", "gone"} /\ endpoint' = endpoint
    BY <1>5
  <2>6. CountedMove(NoTask, "over", [resolvers |-> r], NoTask, 0, 0, 0, 0, r)
    BY <1>1, <1>2, <1>3, <1>5, <2>1, <2>2, <2>3, <2>4, <2>5 DEF CountedMove
  <2> QED BY <2>6, MovesCount
<1>6. CASE GetDNSResolver
  BY <1>5, <1>6 DEF GetDNSResolver
<1>7. CASE DestroyResolver
  BY <1>5, <1>7 DEF DestroyResolver
<1> QED BY <1>4, <1>6, <1>7

\* A step of the listener or of accept() that makes no endpoint.
ListenerMove(a, s, d, k, i, l) ==
    /\ Moves(a, s, d, k) /\ a \in {Accepting, NoTask} /\ s \in Places /\ k \in Runnable
    /\ UNCHANGED <<phase, dns, endpoint, resolver, timers, connections, armed>>
    /\ i \in Int /\ l \in Int /\ Changed(k, i, 0, 0, l, 0) /\ BusyCase(a, s, i)
    /\ listener' \in {"none", "created", "bound", "started", "gone"}
    /\ listener' \in {"none", "created", "bound"} => ~Underway(Accepting)'
    /\ observed["listeners"] + l = (IF Listening' THEN 1 ELSE 0)

LEMMA ListenerMovesCount ==
    ASSUME Types, CountInv, phase # "drained",
           NEW a, NEW s, NEW d, NEW k, NEW i, NEW l, ListenerMove(a, s, d, k, i, l)
    PROVE  CountInv'
<1> USE DEF ListenerMove
<1>1. /\ armed \subseteq connections /\ endpoint \in [Endpoints -> {"none", "open", "gone"}]
      /\ resolver \in {"none", "open", "gone"}
      /\ \A b \in Connects : endpoint[b] # "none" => pc[b] = "over"
  BY DEF CountInv, Shape
<1>2. /\ 0 \in Int /\ a \notin Tasks /\ a \notin DueSet /\ a \notin Connects /\ (a # k \/ k = NoTask)
      /\ \A c \in Connects : c \in Activities /\ c # k
  BY Kinds
<1>3. \A b \in Activities : pc'[b] = IF b = a THEN s ELSE IF b = k THEN "queued" ELSE pc[b]
  BY DEF Moves
<1>4. \A c \in Connects : endpoint'[c] # "none" => pc'[c] = "over"
  BY <1>1, <1>2, <1>3
<1>5. /\ Counted(Open', observed["endpoints"] + 0)
      /\ observed["resolvers"] + 0 = (IF resolver' = "open" THEN 1 ELSE 0)
  BY ObjectsStay
<1>6. DueCase(a, s, 0)
  BY <1>2 DEF DueCase
<1>7. CountedMove(a, s, d, k, i, 0, 0, l, 0)
  BY <1>1, <1>2, <1>4, <1>5, <1>6 DEF CountedMove
<1> QED BY <1>7, MovesCount

\* The listener is created, bound and started, and accept() begins.
LEMMA ListenerComes ==
    ASSUME Types, CountInv, phase # "drained",
           CreateListener \/ Bind \/ Start \/ StartAccept
    PROVE  CountInv'
<1>1. /\ armed \subseteq connections /\ observed \in [Counters -> Int]
      /\ listener \in {"none", "created", "bound", "started", "gone"}
      /\ listener \in {"none", "created", "bound"} => ~Underway(Accepting)
      /\ observed["listeners"] = (IF Listening THEN 1 ELSE 0)
      /\ observed["listeners"] \in Int
  BY DEF CountInv, Shape, Counts, Counters
<1>2. /\ 0 \in Int /\ 1 \in Int /\ {"over", "queued", "waiting"} \subseteq Places /\ NoTask \in Runnable
      /\ Accepting \in IoSet /\ Accepting \in Activities
  BY Kinds
<1>3. /\ UNCHANGED <<phase, dns, endpoint, resolver, timers, connections, armed>>
  BY DEF CreateListener, Bind, Start, StartAccept, objects, attempts, clock, names
<1>4. CASE CreateListener
  <2>1. listener = "none" /\ listener' = "created" /\ Moves(NoTask, "over", [listeners |-> 1], NoTask)
    BY <1>4 DEF CreateListener
  <2>2. Changed(NoTask, 0, 0, 0, 1, 0)
    BY SMTT(30), <1>1, <2>1 DEF Changed, Moves, Counters
  <2>3. BusyCase(NoTask, "over", 0) /\ Underway(Accepting)' = Underway(Accepting)
    BY <1>2, <2>1, NobodyMoves
  <2>4. ~Listening /\ Listening'
    BY <2>1 DEF Listening
  <2>5. observed["listeners"] + 1 = (IF Listening' THEN 1 ELSE 0)
    BY SMTT(30), <1>1, <2>4
  <2>6. ListenerMove(NoTask, "over", [listeners |-> 1], NoTask, 0, 1)
    BY <1>1, <1>2, <1>3, <2>1, <2>2, <2>3, <2>5 DEF ListenerMove
  <2> QED BY <2>6, ListenerMovesCount
<1>5. CASE Bind
  BY <1>1, <1>3, <1>5, CountsStay DEF Bind
<1>6. CASE Start
  <2>1. /\ listener = "bound" /\ listener' = "started" /\ Moves(Accepting, "queued", [active_io |-> 1], NoTask)
        /\ ~Underway(Accepting)
    BY <1>1, <1>6 DEF Start
  <2>2. Changed(NoTask, 1, 0, 0, 0, 0)
    BY SMTT(30), <1>1, <2>1 DEF Changed, Moves, Counters
  <2>3. BusyCase(Accepting, "queued", 1)
    BY <1>2, <2>1 DEF BusyCase
  <2>4. Listening /\ Listening'
    BY <2>1 DEF Listening
  <2>5. observed["listeners"] + 0 = (IF Listening' THEN 1 ELSE 0)
    BY SMTT(30), <1>1, <2>4
  <2>6. ListenerMove(Accepting, "queued", [active_io |-> 1], NoTask, 1, 0)
    BY <1>2, <1>3, <2>1, <2>2, <2>3, <2>5 DEF ListenerMove
  <2> QED BY <2>6, ListenerMovesCount
<1>7. CASE StartAccept
  <2>1. /\ pc[Accepting] = "queued" /\ UNCHANGED listener /\ Moves(Accepting, "waiting", <<>>, NoTask)
        /\ Underway(Accepting)
    BY <1>7 DEF StartAccept, objects, Underway
  <2>2. Changed(NoTask, 0, 0, 0, 0, 0)
    BY SMTT(30), <1>1, <2>1 DEF Changed, Moves, Counters
  <2>3. BusyCase(Accepting, "waiting", 0)
    BY <1>2, <2>1 DEF BusyCase
  <2>4. Underway(Accepting)'
    BY <1>2, <2>1 DEF Moves, Underway
  <2>5. observed["listeners"] + 0 = (IF Listening' THEN 1 ELSE 0)
    BY <2>1, <2>4, ObjectsStay
  <2>6. ListenerMove(Accepting, "waiting", <<>>, NoTask, 0, 0)
    BY <1>1, <1>2, <1>3, <2>1, <2>2, <2>3, <2>5 DEF ListenerMove
  <2> QED BY <2>6, ListenerMovesCount
<1> QED BY <1>4, <1>5, <1>6, <1>7

\* accept() goes on with a connection.
LEMMA AcceptCounts ==
    ASSUME Types, CountInv, phase # "drained", NEW j \in Runnable, NEW e \in Incoming, Accept(e, j)
    PROVE  CountInv'
<1>1. /\ armed \subseteq connections /\ observed \in [Counters -> Int]
      /\ endpoint \in [Endpoints -> {"none", "open", "gone"}]
      /\ listener \in {"none", "created", "bound", "started", "gone"}
      /\ listener \in {"none", "created", "bound"} => ~Underway(Accepting)
      /\ resolver \in {"none", "open", "gone"}
      /\ \A b \in Connects : endpoint[b] # "none" => pc[b] = "over"
  BY DEF CountInv, Shape
<1>2. /\ 0 \in Int /\ 1 \in Int /\ "waiting" \in Places /\ Accepting \in IoSet /\ Accepting \in Activities
      /\ Accepting \notin DueSet /\ Accepting \notin Tasks /\ Accepting # j
      /\ \A c \in Connects : c \in Activities /\ c # j /\ c # Accepting
      /\ e \in Endpoints /\ \A c \in Connects : c # e /\ c \in Endpoints
  BY Kinds, EngineConstants DEF Endpoints
<1>3. /\ pc[Accepting] = "ready" /\ Underway(Accepting)
      /\ endpoint[e] = "none" /\ endpoint' = [endpoint EXCEPT ![e] = "open"]
      /\ Moves(Accepting, "waiting", [endpoints |-> 1], j)
      /\ UNCHANGED <<phase, dns, listener, resolver, timers, connections, armed>>
  BY DEF Accept, attempts, clock, names, Underway
<1>4. Changed(j, 0, 0, 1, 0, 0)
  BY SMTT(30), <1>1, <1>3 DEF Changed, Moves, Counters
<1>5. BusyCase(Accepting, "waiting", 0) /\ DueCase(Accepting, "waiting", 0)
  BY <1>2, <1>3 DEF BusyCase, DueCase
<1>6. \A b \in Activities : pc'[b] = IF b = Accepting THEN "waiting" ELSE IF b = j THEN "queued" ELSE pc[b]
  BY <1>3 DEF Moves
<1>7. Underway(Accepting)' /\ \A c \in Connects : pc'[c] = pc[c] /\ endpoint'[c] = endpoint[c]
  BY <1>1, <1>2, <1>3, <1>6 DEF Underway
<1>8. endpoint' \in [Endpoints -> {"none", "open", "gone"}] /\ Counted(Open', observed["endpoints"] + 1)
  BY <1>2, <1>3, EndpointCount
<1>9. /\ observed["listeners"] + 0 = (IF Listening' THEN 1 ELSE 0)
      /\ observed["resolvers"] + 0 = (IF resolver' = "open" THEN 1 ELSE 0)
  BY <1>3, <1>7, ObjectsStay
<1>10. CountedMove(Accepting, "waiting", [endpoints |-> 1], j, 0, 0, 1, 0, 0)
  BY <1>1, <1>2, <1>3, <1>4, <1>5, <1>7, <1>8, <1>9 DEF CountedMove
<1> QED BY <1>10, MovesCount

\* accept() ends, and the listener goes: its count goes with the later of the two.
LEMMA ListenerGoes ==
    ASSUME Types, CountInv, phase # "drained", NEW j \in Runnable,
           EndAccept(j) \/ DestroyListener(j)
    PROVE  CountInv'
<1>1. /\ armed \subseteq connections /\ observed \in [Counters -> Int]
      /\ listener \in {"none", "created", "bound", "started", "gone"}
      /\ listener \in {"none", "created", "bound"} => ~Underway(Accepting)
      /\ observed["listeners"] = (IF Listening THEN 1 ELSE 0)
      /\ observed["listeners"] \in Int
  BY DEF CountInv, Shape, Counts, Counters
<1>2. /\ 0 \in Int /\ -1 \in Int /\ "over" \in Places /\ NoTask \in Runnable
      /\ Accepting \in IoSet /\ Accepting \in Activities
  BY Kinds
<1>3. /\ UNCHANGED <<phase, dns, endpoint, resolver, timers, connections, armed>>
  BY DEF EndAccept, DestroyListener, objects, attempts, clock, names
<1>4. CASE EndAccept(j)
  <2>1. Underway(Accepting) /\ UNCHANGED listener /\ listener \in {"started", "gone"}
    BY <1>1, <1>4 DEF EndAccept, objects, Underway
  <2>2. BusyCase(Accepting, "over", -1)
    BY <1>2, <2>1 DEF BusyCase
  <2>3. CASE listener = "gone"
    <3>1. Moves(Accepting, "over", [active_io |-> -1, listeners |-> -1], j)
      BY <1>4, <2>3 DEF EndAccept
    <3>2. Changed(j, -1, 0, 0, -1, 0)
      BY SMTT(30), <1>1, <3>1 DEF Changed, Moves, Counters
    <3>3. ~Underway(Accepting)'
      BY <1>2, <3>1 DEF Moves, Underway
    <3>4. Listening /\ ~Listening'
      BY <2>1, <2>3, <3>3 DEF Listening
    <3>5. observed["listeners"] + (-1) = (IF Listening' THEN 1 ELSE 0)
      BY SMTT(30), <1>1, <3>4
    <3>6. ListenerMove(Accepting, "over", [active_io |-> -1, listeners |-> -1], j, -1, -1)
      BY <1>1, <1>2, <1>3, <2>1, <2>2, <3>1, <3>2, <3>3, <3>5 DEF ListenerMove
    <3> QED BY <3>6, ListenerMovesCount
  <2>4. CASE listener = "started"
    <3>1. Moves(Accepting, "over", [active_io |-> -1], j)
      BY <1>4, <2>4 DEF EndAccept
    <3>2. Changed(j, -1, 0, 0, 0, 0)
      BY SMTT(30), <1>1, <3>1 DEF Changed, Moves, Counters
    <3>3. Listening /\ Listening'
      BY <2>1, <2>4 DEF Listening
    <3>4. observed["listeners"] + 0 = (IF Listening' THEN 1 ELSE 0)
      BY SMTT(30), <1>1, <3>3
    <3>5. ListenerMove(Accepting, "over", [active_io |-> -1], j, -1, 0)
      BY <1>1, <1>2, <1>3, <2>1, <2>2, <2>4, <3>1, <3>2, <3>4 DEF ListenerMove
    <3> QED BY <3>5, ListenerMovesCount
  <2> QED BY <2>1, <2>3, <2>4
<1>5. CASE DestroyListener(j)
  <2>1. listener \in {"created", "bound", "started"} /\ listener' = "gone"
    BY <1>1, <1>5 DEF DestroyListener
  <2>2. CASE Underway(Accepting)
    <3>1. UNCHANGED <<pc, observed>>
      BY <1>5, <2>2 DEF DestroyListener
    <3>2. Busy' = Busy /\ Due' = Due /\ Open' = Open /\ Underway(Accepting)'
      BY <1>3, <2>2, <3>1 DEF Busy, Due, Open, Underway
    <3>3. Listening /\ Listening'
      BY <2>1, <3>2 DEF Listening
    <3>4. Counts'
      BY <1>3, <3>1, <3>2, <3>3 DEF CountInv, Counts
    <3>5. Shape'
      BY <1>3, <2>1, <3>1 DEF CountInv, Shape
    <3> QED BY <1>3, <3>4, <3>5, StopWaits DEF CountInv
  <2>3. CASE ~Underway(Accepting)
    <3>1. Moves(NoTask, "over", [listeners |-> -1], j)
      BY <1>5, <2>3 DEF DestroyListener
    <3>2. Changed(j, 0, 0, 0, -1, 0)
      BY SMTT(30), <1>1, <3>1 DEF Changed, Moves, Counters
    <3>3. BusyCase(NoTask, "over", 0) /\ ~Underway(Accepting)'
      BY <2>3, <3>1, NobodyMoves
    <3>4. Listening /\ ~Listening'
      BY <2>1, <3>3 DEF Listening
    <3>5. observed["listeners"] + (-1) = (IF Listening' THEN 1 ELSE 0)
      BY SMTT(30), <1>1, <3>4
    <3>6. ListenerMove(NoTask, "over", [listeners |-> -1], j, 0, -1)
      BY <1>2, <1>3, <2>1, <3>1, <3>2, <3>3, <3>5 DEF ListenerMove
    <3> QED BY <3>6, ListenerMovesCount
  <2> QED BY <2>2, <2>3
<1> QED BY <1>4, <1>5

\* The watch of the resolver and the steps of the stop.
LEMMA StopCounts ==
    ASSUME Types, CountInv, phase # "drained",
           Stop \/ Watch \/ Retire \/ WatchEnds
    PROVE  CountInv'
<1>1. armed \subseteq connections
  BY DEF CountInv, Shape
<1>2. CASE Watch \/ Retire \/ WatchEnds
  BY <1>1, <1>2, CountsStay DEF Watch, Retire, WatchEnds, attempts, clock, objects
<1>3. ASSUME UNCHANGED <<pc, endpoint, listener, resolver, observed, armed, connections>>
      PROVE  Counts' /\ Shape'
  <2>1. Busy' = Busy /\ Due' = Due /\ Open' = Open /\ Underway(Accepting)' = Underway(Accepting)
    BY <1>3 DEF Busy, Due, Open, Underway
  <2>2. Listening' <=> Listening
    BY <1>3, <2>1 DEF Listening
  <2> QED BY <1>3, <2>1, <2>2 DEF CountInv, Counts, Shape
<1>4. CASE ReleaseChannels \/ CloseEngine \/ Drain
  <2>1. /\ UNCHANGED <<pc, endpoint, listener, resolver, observed, armed, connections, timers, dns, watch>>
    BY <1>4 DEF ReleaseChannels, CloseEngine, Drain, attempts, clock, objects, names
  <2>2. Stopped'
    BY <1>4, <2>1 DEF CountInv, Stopped, ReleaseChannels, CloseEngine, Drain, Live
  <2> QED BY <1>3, <2>1, <2>2 DEF CountInv
<1>5. CASE CloseDns
  <2>1. /\ UNCHANGED <<endpoint, listener, resolver, observed, armed, connections, timers>>
        /\ pc' = [a \in Activities |-> IF a \in Lookups /\ pc[a] = "waiting" THEN "ready" ELSE pc[a]]
        /\ phase = "closed" /\ phase' = "draining" /\ dns' = FALSE
    BY <1>5 DEF CloseDns, attempts, clock, objects
  <2>2. /\ \A a \in IoSet : a \in Activities
        /\ \A a \in DueSet : a \in Activities /\ a \notin Lookups
        /\ \A a \in Connects \cup Tasks : a \in DueSet
        /\ Accepting \in Activities /\ Accepting \notin Lookups
    BY EngineConstants DEF IoSet, DueSet, Activities
  <2>3. \A a \in IoSet : Underway(a)' <=> Underway(a)
    BY <2>1, <2>2 DEF Underway
  <2>4. \A a \in DueSet \cup {Accepting} : pc'[a] = pc[a]
    BY <2>1, <2>2
  <2>5. Busy' = Busy /\ Due' = Due /\ Open' = Open
    <3>1. Busy' = Busy
      BY <2>3 DEF Busy
    <3>2. Due' = Due
      BY <2>4 DEF Due
    <3> QED BY <2>1, <3>1, <3>2 DEF Open
  <2>6. Underway(Accepting)' <=> Underway(Accepting)
    BY <2>4 DEF Underway
  <2>7. Listening' <=> Listening
    BY <2>1, <2>6 DEF Listening
  <2>8. Counts'
    BY <2>1, <2>5, <2>7 DEF CountInv, Counts
  <2>9. Shape'
    BY <2>1, <2>2, <2>4, <2>6 DEF CountInv, Shape
  <2>10. Stopped'
    BY <2>1 DEF CountInv, Stopped
  <2> QED BY <2>8, <2>9, <2>10 DEF CountInv
<1> QED BY <1>2, <1>4, <1>5 DEF Stop

LEMMA InitCounts == Init => CountInv
<1> SUFFICES ASSUME Init PROVE CountInv
  OBVIOUS
<1>1. /\ \A a \in IoSet \cup DueSet : a \in Activities
      /\ Accepting \in Activities
  BY DEF IoSet, DueSet, Activities
<1>2. Busy = {} /\ Due = {} /\ Open = {} /\ ~Listening
  BY <1>1 DEF Init, Busy, Due, Open, Listening, Underway
<1>3. Counted({}, 0)
  BY FS_EmptySet DEF Counted
<1>4. Counts
  BY <1>2, <1>3 DEF Init, Counts, Counters
<1>5. observed \in [Counters -> Int]
  BY SMTT(30) DEF Init
<1>6. Shape
  <2>1. endpoint \in [Endpoints -> {"none", "open", "gone"}]
    BY DEF Init
  <2>2. (\A c \in Connects : endpoint[c] = "none") /\ \A k \in Tasks : pc[k] = "idle"
    BY <1>1 DEF Init, Endpoints, DueSet
  <2>3. ~Underway(Accepting)
    BY <1>1 DEF Init, Underway
  <2> QED BY <1>5, <2>1, <2>2, <2>3 DEF Init, Shape
<1>7. Stopped
  BY DEF Init, Stopped
<1> QED BY <1>4, <1>6, <1>7 DEF CountInv

LEMMA NextCounts == Types /\ CountInv /\ [Next]_vars => CountInv'
<1> SUFFICES ASSUME Types, CountInv, [Next]_vars PROVE CountInv'
  OBVIOUS
<1>1. CASE UNCHANGED vars
  <2>1. /\ UNCHANGED <<pc, endpoint, listener, resolver, observed, armed, connections, timers, dns, watch, phase>>
    BY <1>1 DEF vars, attempts, clock, objects, names
  <2>2. Busy' = Busy /\ Due' = Due /\ Open' = Open /\ Underway(Accepting)' = Underway(Accepting)
    BY <2>1 DEF Busy, Due, Open, Underway
  <2>3. Listening' <=> Listening
    BY <2>1, <2>2 DEF Listening
  <2> QED BY <2>1, <2>2, <2>3 DEF CountInv, Counts, Shape, Stopped
<1>2. CASE Next
  <2>1. phase # "drained" /\ NoTask \in Runnable
    BY <1>2, DrainedRests, Kinds
  <2>2. ASSUME Reactor PROVE CountInv'
    <3>1. PICK j \in Runnable :
             \/ \E k \in Tasks : RunTask(k, j)
             \/ \E t \in Timers : Fire(t, j)
             \/ \E c \in Connects : StartConnect(c) \/ ConnectTimeout(c) \/ EndConnect(c, j) \/ LoseConnect(c, j)
             \/ \E x \in Transfers : StartTransfer(x) \/ EndTransfer(x, j)
             \/ StartAccept \/ EndAccept(j) \/ (\E e \in Incoming : Accept(e, j))
             \/ \E l \in Lookups : StartLookup(l) \/ EndLookup(l, j)
      BY <2>2 DEF Reactor
    <3>2. CASE (\E k \in Tasks : RunTask(k, j)) \/ \E t \in Timers : Fire(t, j)
      BY <2>1, <3>2, TasksCount
    <3>3. ASSUME NEW c \in Connects,
                 StartConnect(c) \/ ConnectTimeout(c) \/ EndConnect(c, j) \/ LoseConnect(c, j)
          PROVE  CountInv'
      BY <2>1, <3>3, ConnectsCount, EndConnectCounts
    <3>4. ASSUME NEW x \in Transfers \cup Lookups,
                 StartTransfer(x) \/ EndTransfer(x, j) \/ StartLookup(x) \/ EndLookup(x, j)
          PROVE  CountInv'
      BY <2>1, <3>4, TransfersCount
    <3>5. CASE StartAccept \/ EndAccept(j) \/ (\E e \in Incoming : Accept(e, j))
      BY <2>1, <3>5, ListenerComes, ListenerGoes, AcceptCounts
    <3> QED BY <3>1, <3>2, <3>3, <3>4, <3>5
  <2>3. ASSUME Use PROVE CountInv'
    <3>1. ASSUME NEW c \in Connects, Connect(c) \/ CancelConnect(c) PROVE CountInv'
      BY <2>1, <3>1, ConnectsCount
    <3>2. ASSUME NEW x \in Transfers \cup Lookups, Transfer(x) \/ LookupHostname(x) PROVE CountInv'
      BY <2>1, <3>2, TransfersCount
    <3>3. CASE (\E k \in Tasks : Run(k)) \/ \E t \in Timers : RunAfter(t) \/ Cancel(t)
      BY <2>1, <3>3, TasksCount
    <3>4. CASE CreateListener \/ Bind \/ Start
      BY <2>1, <3>4, ListenerComes
    <3>5. CASE GetDNSResolver
      BY <2>1, <3>5, EndpointsCount
    <3> QED BY <2>3, <3>1, <3>2, <3>3, <3>4, <3>5 DEF Use
  <2>4. ASSUME Destroy PROVE CountInv'
    BY <2>1, <2>4, EndpointsCount, ListenerGoes DEF Destroy
  <2>5. ASSUME Stop \/ Watch \/ Retire \/ WatchEnds PROVE CountInv'
    BY <2>1, <2>5, StopCounts
  <2>6. ASSUME NEW a \in Connects \cup Transfers \cup Lookups \cup {Accepting}, Complete(a) PROVE CountInv'
    BY <2>1, <2>6, CompleteCounts
  <2> QED BY <1>2, <2>2, <2>3, <2>4, <2>5, <2>6 DEF Next
<1> QED BY <1>1, <1>2

\* When drain_local_grpc returns and the reactor may exit, no task, coroutine,
\* timer, endpoint, resolver, listener or watch of gRPC is left on the shard,
\* for any number of attempts, lookups, timers and tasks: the counters that the
\* drain reads (observations) are at every moment the number of what is under
\* way and of the objects that exist, and close_grpc_engine emptied the tables
\* that they do not count.
THEOREM QuietWhenDrainedAlways == Spec => []QuietWhenDrained
<1>1. Inductive => Types
  BY DEF Inductive
<1> QED BY <1>1, InitInductive, NextInductive, InitCounts, NextCounts, Quiet, PTL DEF Spec

-----------------------------------------------------------------------------
\* An attempt that gRPC does not hear of had a connection, was neither cancelled
\* nor timed out, and is over: nothing cancels it or lets it time out later.
Lost ==
    \A c \in unheard : /\ c \in Connects /\ c \in good /\ pc[c] = "over"
                       /\ c \notin cancelled /\ c \notin expired
                       /\ c \notin connections /\ c \notin armed

\* A step that loses no attempt and starts none that is over.
LEMMA LostStays ==
    ASSUME Lost, unheard' = unheard,
           \A c \in unheard : /\ pc'[c] = pc[c] /\ (c \in good => c \in good')
                              /\ c \in cancelled' => c \in cancelled \cup connections
                              /\ c \in expired' => c \in expired \cup armed
                              /\ c \in connections' => c \in connections
                              /\ c \in armed' => c \in armed
    PROVE  Lost'
BY DEF Lost

\* What is not an attempt moves.
LEMMA OthersLose ==
    ASSUME Types, Lost, NEW a, a \notin Connects, NEW s \in Places, NEW d, NEW k \in Tasks \cup {NoTask},
           Moves(a, s, d, k), UNCHANGED attempts, \A c \in Connects : c \in good => c \in good'
    PROVE  Lost'
<1>1. /\ connections' = connections /\ cancelled' = cancelled /\ expired' = expired /\ armed' = armed
      /\ unheard' = unheard
  BY SMTT(30) DEF attempts
<1>2. \A c \in unheard : c \in Connects /\ pc'[c] = pc[c]
  BY MovesOthers DEF Lost
<1> QED BY <1>1, <1>2, LostStays

\* Nothing moves.
LEMMA RestLoses ==
    ASSUME Lost, UNCHANGED <<pc, good, attempts>>
    PROVE  Lost'
<1>1. /\ connections' = connections /\ cancelled' = cancelled /\ expired' = expired /\ armed' = armed
      /\ unheard' = unheard /\ pc' = pc /\ good' = good
  BY SMTT(30) DEF attempts
<1> QED BY <1>1, LostStays

\* Steps of the attempt c.
LEMMA AttemptLoses ==
    ASSUME Types, Shape, Lost, NEW c \in Connects, NEW j \in Runnable,
           \/ Connect(c) \/ StartConnect(c) \/ ConnectTimeout(c) \/ CancelConnect(c)
           \/ EndConnect(c, j) \/ LoseConnect(c, j)
    PROVE  Lost'
<1>1. /\ c \in Activities /\ NoTask \in Tasks \cup {NoTask} /\ j \in Tasks \cup {NoTask}
      /\ {"queued", "waiting", "over"} \subseteq Places /\ armed \subseteq connections
  BY Apart DEF Places, Shape
<1>2. CASE Connect(c)
  <2>1. /\ pc[c] = "idle" /\ connections' = connections \cup {c} /\ armed' = armed \cup {c}
        /\ good' = good /\ cancelled' = cancelled /\ expired' = expired /\ unheard' = unheard
        /\ Moves(c, "queued", [active_io |-> 1, active_tasks |-> 1], NoTask)
    BY <1>2 DEF Connect
  <2>2. c \notin unheard
    BY <2>1 DEF Lost
  <2>3. \A b \in Connects \ {c} : pc'[b] = pc[b]
    BY <1>1, <2>1, MovesOthers
  <2> QED BY <2>1, <2>2, <2>3, LostStays DEF Lost
<1>3. CASE StartConnect(c)
  <2>1. /\ pc[c] = "queued" /\ good' = good /\ Moves(c, "waiting", [active_tasks |-> -1], NoTask)
    BY <1>3 DEF StartConnect
  <2>2. /\ connections' = connections /\ cancelled' = cancelled /\ expired' = expired /\ armed' = armed
        /\ unheard' = unheard
    BY SMTT(30), <1>3 DEF StartConnect, attempts
  <2>3. c \notin unheard /\ \A b \in Connects \ {c} : pc'[b] = pc[b]
    BY <1>1, <2>1, MovesOthers DEF Lost
  <2> QED BY <2>1, <2>2, <2>3, LostStays DEF Lost
<1>4. CASE ConnectTimeout(c) \/ CancelConnect(c)
  <2>1. /\ unheard' = unheard /\ pc' = pc /\ good' = good
        /\ connections' \subseteq connections /\ armed' \subseteq armed
        /\ cancelled' \subseteq cancelled \cup connections /\ expired' \subseteq expired \cup armed
    BY <1>4 DEF ConnectTimeout, CancelConnect
  <2> QED BY <2>1, LostStays
<1>5. CASE EndConnect(c, j) \/ LoseConnect(c, j)
  <2>1. /\ pc[c] = "ready" /\ good' = good /\ connections' = connections \ {c} /\ armed' = armed \ {c}
        /\ cancelled' = cancelled /\ expired' = expired
        /\ \/ unheard' = unheard
           \/ unheard' = unheard \cup {c} /\ c \in good /\ c \notin cancelled /\ c \notin expired
    BY <1>5 DEF EndConnect, LoseConnect
  <2>2. PICK d : Moves(c, "over", d, j)
    BY <1>5 DEF EndConnect, LoseConnect
  <2>3. pc'[c] = "over" /\ \A b \in Connects \ {c} : pc'[b] = pc[b]
    BY <1>1, <2>2, MovesOthers
  <2> QED BY <2>1, <2>3 DEF Lost
<1> QED BY <1>2, <1>3, <1>4, <1>5

\* Steps of everything else.
LEMMA WorkLoses ==
    ASSUME Types, Lost, NEW j \in Runnable,
           \/ \E k \in Tasks : Run(k) \/ RunTask(k, j)
           \/ \E t \in Timers : RunAfter(t) \/ Fire(t, j) \/ Cancel(t)
           \/ \E x \in Transfers : Transfer(x) \/ StartTransfer(x) \/ EndTransfer(x, j)
           \/ \E l \in Lookups : LookupHostname(l) \/ StartLookup(l) \/ EndLookup(l, j)
           \/ GetDNSResolver \/ DestroyResolver \/ \E e \in Endpoints : DestroyEndpoint(e)
    PROVE  Lost'
<1>1. /\ NoTask \in Tasks \cup {NoTask} /\ j \in Tasks \cup {NoTask} /\ NoTask \notin Connects
      /\ {"idle", "queued", "waiting", "ready", "over"} \subseteq Places
      /\ \A a \in Tasks \cup Timers \cup Transfers \cup Lookups : a \notin Connects
  BY Apart DEF Places
<1>2. ASSUME NEW k \in Tasks, Run(k) \/ RunTask(k, j) PROVE Lost'
  <2>1. /\ (\E d : Moves(k, "queued", d, NoTask)) \/ \E d : Moves(k, "over", d, j)
        /\ UNCHANGED attempts /\ good' = good
    BY <1>2 DEF Run, RunTask
  <2> QED BY <1>1, <2>1, OthersLose
<1>3. ASSUME NEW t \in Timers, RunAfter(t) \/ Cancel(t) PROVE Lost'
  BY <1>3, RestLoses DEF RunAfter, Cancel
<1>4. ASSUME NEW t \in Timers, Fire(t, j) PROVE Lost'
  <2>1. Moves(t, "over", <<>>, j) /\ UNCHANGED attempts /\ good' = good
    BY <1>4 DEF Fire
  <2> QED BY <1>1, <2>1, OthersLose
<1>5. ASSUME NEW x \in Transfers, Transfer(x) \/ StartTransfer(x) \/ EndTransfer(x, j) PROVE Lost'
  <2>1. /\ \/ \E d : Moves(x, "queued", d, NoTask)
           \/ \E d : Moves(x, "waiting", d, NoTask)
           \/ \E d : Moves(x, "idle", d, j)
        /\ UNCHANGED attempts /\ good' \in {good, good \ {x}}
    BY <1>5 DEF Transfer, StartTransfer, EndTransfer
  <2>2. \A c \in Connects : c \in good => c \in good'
    BY <1>1, <2>1
  <2> QED BY <1>1, <2>1, <2>2, OthersLose
<1>6. ASSUME NEW l \in Lookups, LookupHostname(l) \/ StartLookup(l) \/ EndLookup(l, j) PROVE Lost'
  <2>1. /\ \/ \E d : Moves(l, "queued", d, NoTask)
           \/ \E d : Moves(l, "waiting", d, NoTask)
           \/ \E d : Moves(l, "ready", d, NoTask)
           \/ \E d : Moves(l, "over", d, j)
        /\ UNCHANGED attempts /\ good' = good
    BY <1>6 DEF LookupHostname, StartLookup, EndLookup
  <2> QED BY <1>1, <2>1, OthersLose
<1>7. ASSUME GetDNSResolver \/ DestroyResolver \/ \E e \in Endpoints : DestroyEndpoint(e) PROVE Lost'
  <2>1. (\E d : Moves(NoTask, "over", d, NoTask)) /\ UNCHANGED attempts /\ good' = good
    BY <1>7 DEF GetDNSResolver, DestroyResolver, DestroyEndpoint
  <2> QED BY <1>1, <2>1, OthersLose
<1> QED BY <1>2, <1>3, <1>4, <1>5, <1>6, <1>7

\* Steps of the listener.
LEMMA ListenerLoses ==
    ASSUME Types, Lost, NEW j \in Runnable,
           \/ CreateListener \/ Bind \/ Start \/ StartAccept \/ EndAccept(j) \/ DestroyListener(j)
           \/ \E e \in Incoming : Accept(e, j)
    PROVE  Lost'
<1>1. /\ NoTask \in Tasks \cup {NoTask} /\ j \in Tasks \cup {NoTask} /\ NoTask \notin Connects
      /\ {"queued", "waiting", "over"} \subseteq Places /\ Accepting \notin Connects
  BY Apart DEF Places
<1>2. CASE CreateListener \/ Start \/ StartAccept
  <2>1. /\ \/ \E d : Moves(NoTask, "over", d, NoTask)
           \/ \E d : Moves(Accepting, "queued", d, NoTask)
           \/ \E d : Moves(Accepting, "waiting", d, NoTask)
        /\ UNCHANGED attempts /\ good' = good
    BY <1>2 DEF CreateListener, Start, StartAccept
  <2> QED BY <1>1, <2>1, OthersLose
<1>3. CASE EndAccept(j) \/ \E e \in Incoming : Accept(e, j)
  <2>1. /\ (\E d : Moves(Accepting, "over", d, j)) \/ \E d : Moves(Accepting, "waiting", d, j)
        /\ UNCHANGED attempts /\ good' = good \ {Accepting}
    BY <1>3 DEF EndAccept, Accept
  <2>2. \A c \in Connects : c \in good => c \in good'
    BY <1>1, <2>1
  <2> QED BY <1>1, <2>1, <2>2, OthersLose
<1>4. CASE DestroyListener(j)
  <2>1. /\ pc' = pc \/ \E d : Moves(NoTask, "over", d, j)
        /\ UNCHANGED attempts /\ good' = good
    BY <1>4 DEF DestroyListener
  <2> QED BY <1>1, <2>1, OthersLose, RestLoses
<1>5. CASE Bind
  BY <1>5, RestLoses DEF Bind
<1> QED BY <1>2, <1>3, <1>4, <1>5

\* Completions, the watch and the stop.
LEMMA StopLoses ==
    ASSUME Types, Lost,
           \/ Stop \/ Watch \/ Retire \/ WatchEnds \/ UNCHANGED vars
           \/ \E a \in Connects \cup Transfers \cup Lookups \cup {Accepting} : Complete(a)
    PROVE  Lost'
<1>1. CASE CloseDns
  <2>1. /\ \A b \in Activities : pc'[b] = IF b \in Lookups /\ pc[b] = "waiting" THEN "ready" ELSE pc[b]
        /\ UNCHANGED attempts /\ good' = good
    BY <1>1 DEF CloseDns
  <2>2. /\ connections' = connections /\ cancelled' = cancelled /\ expired' = expired /\ armed' = armed
        /\ unheard' = unheard
    BY SMTT(30), <2>1 DEF attempts
  <2>3. \A c \in unheard : pc'[c] = pc[c]
    BY <2>1, Apart DEF Lost
  <2> QED BY <2>1, <2>2, <2>3, LostStays
<1>2. CASE Watch \/ Retire \/ WatchEnds \/ ReleaseChannels \/ CloseEngine \/ Drain \/ UNCHANGED vars
  <2>1. UNCHANGED <<pc, good, attempts>>
    BY <1>2 DEF Watch, Retire, WatchEnds, ReleaseChannels, CloseEngine, Drain, vars
  <2> QED BY <2>1, RestLoses
<1>3. ASSUME NEW a \in Connects \cup Transfers \cup Lookups \cup {Accepting}, Complete(a) PROVE Lost'
  <2>1. /\ pc[a] = "waiting" /\ Moves(a, "ready", <<>>, NoTask) /\ UNCHANGED attempts
        /\ good' \in {good, good \cup {a}} /\ "ready" \in Places /\ NoTask \in Tasks \cup {NoTask}
    BY <1>3 DEF Complete, Places
  <2>2. /\ connections' = connections /\ cancelled' = cancelled /\ expired' = expired /\ armed' = armed
        /\ unheard' = unheard
    BY SMTT(30), <2>1 DEF attempts
  <2>3. \A b \in (Connects \cup {Accepting}) \ {a} : pc'[b] = pc[b]
    BY <2>1, MovesOthers
  <2>4. \A c \in unheard : pc'[c] = pc[c]
    BY <2>1, <2>3 DEF Lost
  <2> QED BY <2>1, <2>2, <2>4, LostStays
<1> QED BY <1>1, <1>2, <1>3 DEF Stop

LEMMA NextLoses ==
    ASSUME Types, Shape, Lost, [Next]_vars
    PROVE  Lost'
<1>1. NoTask \in Runnable
  BY Apart
<1>2. CASE Reactor
  BY <1>2, WorkLoses, AttemptLoses, ListenerLoses DEF Reactor
<1>3. CASE Use
  BY <1>1, <1>3, WorkLoses, AttemptLoses, ListenerLoses DEF Use
<1>4. CASE Destroy
  BY <1>1, <1>4, WorkLoses, ListenerLoses DEF Destroy
<1>5. CASE \/ Stop \/ Watch \/ Retire \/ WatchEnds \/ UNCHANGED vars
           \/ \E a \in Connects \cup Transfers \cup Lookups \cup {Accepting} : Complete(a)
  BY <1>5, StopLoses
<1> QED BY <1>2, <1>3, <1>4, <1>5 DEF Next

\* connect, CancelConnect, RunAfter, Cancel and the listener's state::complete
\* never tell gRPC twice of what it started, and tell it once of whatever is
\* over, however many attempts, timers and tasks there are and whenever the
\* shard stops.  The one exception is an attempt that had a connection and was
\* neither cancelled nor timed out: if its endpoint cannot be built, connect()
\* drops the callback.
THEOREM HeardOnceAlways == Spec => []HeardOnce
<1>1. Inductive => Types
  BY DEF Inductive
<1>2. CountInv => Shape
  BY DEF CountInv
<1>3. Init => Lost
  BY DEF Init, Lost
<1>4. Types /\ Shape /\ Lost /\ [Next]_vars => Lost'
  BY NextLoses
<1>5. Inductive /\ Lost => HeardOnce
  <2> SUFFICES ASSUME Inductive, Lost PROVE HeardOnce
    OBVIOUS
  <2>1. unheard \subseteq good \ (cancelled \cup expired)
    BY DEF Lost
  <2> QED BY <2>1 DEF HeardOnce, Inductive, Told
<1> QED BY <1>1, <1>2, <1>3, <1>4, <1>5, InitInductive, NextInductive, InitCounts, NextCounts, PTL DEF Spec

-----------------------------------------------------------------------------
(* Why the drain ends *)

\* What the stop waits for is woken: an attempt under way has its timeout armed
\* or its descriptor shut; the descriptor of an object that is gone is shut; a
\* transfer has an endpoint, or had one; a lookup waits for an open channel.
WakeInv ==
    /\ \A c \in Connects : Underway(c) => c \in armed \/ c \in shut
    /\ \A e \in Endpoints : endpoint[e] = "gone" => e \in shut
    /\ listener = "gone" => Accepting \in shut
    /\ \A x \in Transfers : Underway(x) => endpoint[x[1]] # "none"
    /\ \A l \in Lookups : pc[l] = "waiting" => dns
    /\ watch \in {"none", "running", "retired"} /\ (watch = "running" => dns)
    /\ phase \in {"running", "released", "closed", "draining", "drained"}

\* One of the steps that Fairness names has its guard: the reactor has a task,
\* a coroutine, a timer or a timeout to run, gRPC an object to destroy, the
\* kernel I/O to complete on a descriptor that is shut, or the stop goes on.
CanGoOn ==
    \/ \E a \in Activities : pc[a] \in {"queued", "ready"}
    \/ timers # {} \/ armed # {}
    \/ (\E e \in Endpoints : endpoint[e] = "open") \/ resolver = "open"
    \/ listener \notin {"none", "gone"}
    \/ \E a \in Connects \cup Transfers \cup {Accepting} : pc[a] = "waiting" /\ Shut(a)
    \/ watch = "retired"
    \/ phase = "released" /\ timers = {} /\ connections = {}
    \/ phase = "closed"
    \/ phase = "draining" /\ watch = "none" /\ \A k \in Counters : observed[k] = 0

StopGoesOn == phase \notin {"running", "drained"} => CanGoOn

IoPc(a, s) == \A b \in IoSet : pc'[b] = IF b = a THEN s ELSE pc[b]

LEMMA IoMoves ==
    ASSUME Types, NEW a, NEW s \in Places, NEW d, NEW k \in Runnable, Moves(a, s, d, k)
    PROVE  IoPc(a, s)
<1>1. /\ k \notin IoSet
      /\ \A b \in Activities : pc'[b] = IF b = a THEN s ELSE IF b = k THEN "queued" ELSE pc[b]
  BY MovesPc
<1>2. \A b \in IoSet : b \in Activities
  BY DEF IoSet, Activities
<1> QED BY <1>1, <1>2 DEF IoPc

LEMMA Ends == \A x \in Transfers : x[1] \in Endpoints
BY SMTT(30) DEF Transfers

\* Activity a may go to s without losing what wakes it.
MayMove(a, s) ==
    /\ a \in Connects => s \in {"idle", "over"} \/ Underway(a)
    /\ a \in Transfers => s \in {"idle", "over"} \/ Underway(a) \/ endpoint[a[1]] # "none"
    /\ a \in Lookups /\ s = "waiting" => dns

LEMMA WakeMove ==
    ASSUME WakeInv, NEW a, NEW s, IoPc(a, s), MayMove(a, s),
           UNCHANGED <<shut, armed, endpoint, names, phase>>, listener' = listener \/ listener' # "gone"
    PROVE  WakeInv'
<1>1. /\ shut' = shut /\ armed' = armed /\ endpoint' = endpoint /\ dns' = dns /\ watch' = watch
      /\ phase' = phase
  BY SMTT(30) DEF names
<1>2. \A b \in Connects \cup Transfers \cup Lookups : pc'[b] = IF b = a THEN s ELSE pc[b]
  BY DEF IoPc, IoSet
<1> QED BY <1>1, <1>2 DEF WakeInv, MayMove, Underway

\* What a plain step leaves alone.
Still == UNCHANGED <<shut, armed, endpoint, names, phase>> /\ (listener' = listener \/ listener' # "gone")

LEMMA WakeGoes ==
    ASSUME Types, WakeInv, NEW a, NEW s \in Places, NEW d, NEW j \in Runnable, Moves(a, s, d, j), MayMove(a, s), Still
    PROVE  WakeInv'
BY IoMoves, WakeMove DEF Still

\* A step that moves no I/O.
LEMMA WakeRests ==
    ASSUME WakeInv, \A a \in IoSet : pc'[a] = pc[a], UNCHANGED <<endpoint, dns>>,
           shut \subseteq shut', listener' = "gone" => Accepting \in shut',
           \A c \in Connects : c \in armed => c \in armed' \/ c \in shut',
           watch' \in {"none", "running", "retired"}, watch' = "running" => dns,
           phase' \in {"running", "released", "closed", "draining", "drained"}
    PROVE  WakeInv'
<1>1. endpoint' = endpoint /\ (dns' <=> dns)
  BY SMTT(30)
<1>2. \A a \in Connects \cup Transfers \cup Lookups : pc'[a] = pc[a] /\ (Underway(a)' <=> Underway(a))
  BY DEF Underway, IoSet
<1>3. \A c \in Connects : Underway(c)' => c \in armed' \/ c \in shut'
  BY <1>2 DEF WakeInv
<1>4. \A e \in Endpoints : endpoint'[e] = "gone" => e \in shut'
  BY <1>1 DEF WakeInv
<1>5. \A x \in Transfers : Underway(x)' => endpoint'[x[1]] # "none"
  BY <1>1, <1>2 DEF WakeInv
<1>6. \A l \in Lookups : pc'[l] = "waiting" => dns'
  BY <1>1, <1>2 DEF WakeInv
<1>7. /\ watch' \in {"none", "running", "retired"} /\ (watch' = "running" => dns')
      /\ phase' \in {"running", "released", "closed", "draining", "drained"}
      /\ listener' = "gone" => Accepting \in shut'
  BY <1>1
<1> QED BY <1>3, <1>4, <1>5, <1>6, <1>7 DEF WakeInv

\* A step that opens or destroys endpoint e, in which an attempt that moves ends.
LEMMA WakeEndpoint ==
    ASSUME Shape, WakeInv, NEW a, NEW s, IoPc(a, s), a \notin Transfers \cup Lookups, a \in Connects => s = "over",
           NEW e \in Endpoints, NEW v \in {"open", "gone"}, endpoint' = [endpoint EXCEPT ![e] = v],
           v = "gone" => e \in shut', shut \subseteq shut',
           \A c \in armed : c = a \/ c \in armed', UNCHANGED <<listener, names, phase>>
    PROVE  WakeInv'
<1>1. listener' = listener /\ dns' = dns /\ (dns' <=> dns) /\ watch' = watch /\ phase' = phase
  BY SMTT(30) DEF names
<1>2. \A f \in Endpoints : endpoint'[f] = IF f = e THEN v ELSE endpoint[f]
  BY SMTT(30) DEF Shape
<1>3. /\ \A b \in Connects : pc'[b] = IF b = a THEN "over" ELSE pc[b]
      /\ \A b \in Transfers \cup Lookups : pc'[b] = pc[b]
  BY DEF IoPc, IoSet
<1>4. \A c \in Connects : Underway(c)' => c \in armed' \/ c \in shut'
  BY <1>3 DEF WakeInv, Underway
<1>5. \A f \in Endpoints : endpoint'[f] = "gone" => f \in shut'
  BY <1>2 DEF WakeInv
<1>6. ASSUME NEW x \in Transfers, Underway(x)' PROVE endpoint'[x[1]] # "none"
  <2>1. Underway(x) /\ x[1] \in Endpoints
    BY <1>3, <1>6, Ends DEF Underway
  <2>2. endpoint[x[1]] # "none"
    BY <2>1 DEF WakeInv
  <2> QED BY <1>2, <2>1, <2>2
<1>7. \A l \in Lookups : pc'[l] = "waiting" => dns'
  BY <1>1, <1>3 DEF WakeInv
<1>8. /\ watch' \in {"none", "running", "retired"} /\ (watch' = "running" => dns')
      /\ phase' \in {"running", "released", "closed", "draining", "drained"}
      /\ listener' = "gone" => Accepting \in shut'
  BY <1>1 DEF WakeInv
<1> QED BY <1>4, <1>5, <1>6, <1>7, <1>8 DEF WakeInv

\* Tasks, timers, transfers and lookups.
LEMMA WorkWakes ==
    ASSUME Types, WakeInv, NEW j \in Runnable,
           \/ \E k \in Tasks : Run(k) \/ RunTask(k, j)
           \/ \E t \in Timers : Fire(t, j)
           \/ \E c \in Connects : StartConnect(c)
           \/ \E x \in Transfers : Transfer(x) \/ StartTransfer(x) \/ EndTransfer(x, j)
           \/ \E l \in Lookups : LookupHostname(l) \/ StartLookup(l) \/ EndLookup(l, j)
           \/ GetDNSResolver \/ DestroyResolver
           \/ \E a \in Connects \cup Transfers \cup Lookups \cup {Accepting} : Complete(a)
    PROVE  WakeInv'
<1>0. /\ NoTask \in Runnable /\ {"idle", "queued", "waiting", "ready", "over"} \subseteq Places
      /\ \A a \in Connects \cup Tasks : a \notin Lookups
      /\ \A a \in Transfers \cup Tasks : a \notin Connects
      /\ \A k \in Tasks : k \notin Transfers
      /\ NoTask \notin IoSet
  BY Kinds, EngineConstants
<1>1. ASSUME NEW k \in Tasks, Run(k) \/ RunTask(k, j) PROVE WakeInv'
  <2>1. Still
    BY SMTT(30), <1>1 DEF Still, Run, RunTask, attempts, objects, names
  <2>2. (\E d : Moves(k, "queued", d, NoTask)) \/ \E d : Moves(k, "over", d, j)
    BY <1>1 DEF Run, RunTask
  <2>3. MayMove(k, "queued") /\ MayMove(k, "over")
    BY <1>0 DEF MayMove
  <2> QED BY <1>0, <2>1, <2>2, <2>3, WakeGoes
<1>2. ASSUME NEW t \in Timers, Fire(t, j) PROVE WakeInv'
  <2>1. Still
    BY SMTT(30), <1>2 DEF Still, Fire, attempts, objects, names
  <2>2. Moves(t, "over", <<>>, j) /\ MayMove(t, "over")
    BY <1>2 DEF Fire, MayMove
  <2> QED BY <1>0, <2>1, <2>2, WakeGoes
<1>3. ASSUME NEW c \in Connects, StartConnect(c) PROVE WakeInv'
  <2>1. Still
    BY SMTT(30), <1>3 DEF Still, StartConnect, attempts, objects, names
  <2>2. (\E d : Moves(c, "waiting", d, NoTask)) /\ MayMove(c, "waiting")
    BY <1>0, <1>3 DEF StartConnect, MayMove, Underway
  <2> QED BY <1>0, <2>1, <2>2, WakeGoes
<1>4. ASSUME NEW x \in Transfers, Transfer(x) \/ StartTransfer(x) \/ EndTransfer(x, j) PROVE WakeInv'
  <2>1. Still
    BY SMTT(30), <1>4 DEF Still, Transfer, StartTransfer, EndTransfer, attempts, objects, names
  <2>2. x \notin Connects /\ x \notin Lookups
    BY EngineConstants
  <2>3. \/ (\E d : Moves(x, "queued", d, NoTask)) /\ MayMove(x, "queued")
        \/ (\E d : Moves(x, "waiting", d, NoTask)) /\ MayMove(x, "waiting")
        \/ (\E d : Moves(x, "idle", d, j)) /\ MayMove(x, "idle")
    BY <1>4, <2>2 DEF Transfer, StartTransfer, EndTransfer, MayMove, Underway
  <2> QED BY <1>0, <2>1, <2>3, WakeGoes
<1>5. ASSUME NEW l \in Lookups, LookupHostname(l) \/ StartLookup(l) \/ EndLookup(l, j) PROVE WakeInv'
  <2>1. Still
    BY SMTT(30), <1>5 DEF Still, LookupHostname, StartLookup, EndLookup, attempts, objects, names
  <2>2. l \notin Connects /\ l \notin Transfers
    BY EngineConstants
  <2>3. \/ (\E d : Moves(l, "queued", d, NoTask)) /\ MayMove(l, "queued")
        \/ (\E d : Moves(l, "waiting", d, NoTask)) /\ MayMove(l, "waiting")
        \/ (\E d : Moves(l, "ready", d, NoTask)) /\ MayMove(l, "ready")
        \/ (\E d : Moves(l, "over", d, j)) /\ MayMove(l, "over")
    BY <1>5, <2>2 DEF LookupHostname, StartLookup, EndLookup, MayMove, Underway
  <2> QED BY <1>0, <2>1, <2>3, WakeGoes
<1>6. ASSUME GetDNSResolver \/ DestroyResolver PROVE WakeInv'
  <2>1. Still
    BY SMTT(30), <1>6 DEF Still, GetDNSResolver, DestroyResolver, attempts, names
  <2>2. (\E d : Moves(NoTask, "over", d, NoTask)) /\ MayMove(NoTask, "over")
    BY <1>0, <1>6 DEF GetDNSResolver, DestroyResolver, MayMove, IoSet
  <2> QED BY <1>0, <2>1, <2>2, WakeGoes
<1>7. ASSUME NEW a \in Connects \cup Transfers \cup Lookups \cup {Accepting}, Complete(a) PROVE WakeInv'
  <2>1. Still
    BY SMTT(30), <1>7 DEF Still, Complete, attempts, objects, names
  <2>2. Moves(a, "ready", <<>>, NoTask) /\ MayMove(a, "ready")
    BY <1>7 DEF Complete, MayMove, Underway
  <2> QED BY <1>0, <2>1, <2>2, WakeGoes
<1> QED BY <1>1, <1>2, <1>3, <1>4, <1>5, <1>6, <1>7

\* Connection attempts and endpoints.
LEMMA AttemptsWake ==
    ASSUME Types, Shape, WakeInv, NEW j \in Runnable,
           \/ \E c \in Connects : \/ Connect(c) \/ ConnectTimeout(c) \/ CancelConnect(c)
                                  \/ EndConnect(c, j) \/ LoseConnect(c, j)
           \/ \E e \in Incoming : Accept(e, j)
           \/ \E e \in Endpoints : DestroyEndpoint(e)
    PROVE  WakeInv'
<1>0. /\ NoTask \in Runnable /\ {"idle", "queued", "waiting", "ready", "over"} \subseteq Places
      /\ \A c \in Connects : c \notin Transfers \cup Lookups /\ c \in Endpoints
      /\ \A e \in Incoming : e \in Endpoints
      /\ NoTask \notin Transfers \cup Lookups /\ NoTask \notin Connects
      /\ Accepting \notin Transfers \cup Lookups /\ Accepting \notin Connects
  BY Kinds, EngineConstants DEF IoSet, Endpoints
<1>1. ASSUME NEW c \in Connects, Connect(c) PROVE WakeInv'
  <2>1. armed' = armed \cup {c} /\ Moves(c, "queued", [active_io |-> 1, active_tasks |-> 1], NoTask)
    BY <1>1 DEF Connect
  <2>2. /\ shut' = shut /\ endpoint' = endpoint /\ listener' = listener
        /\ dns' = dns /\ (dns' <=> dns) /\ watch' = watch /\ phase' = phase
    BY SMTT(30), <1>1 DEF Connect, objects, names
  <2>3. IoPc(c, "queued")
    BY <1>0, <2>1, IoMoves
  <2>4. /\ \A b \in Connects : b = c \/ pc'[b] = pc[b]
        /\ \A b \in Transfers \cup Lookups : pc'[b] = pc[b]
    BY <1>0, <2>3 DEF IoPc, IoSet
  <2> QED BY <2>1, <2>2, <2>4 DEF WakeInv, Underway
<1>2. ASSUME NEW c \in Connects, ConnectTimeout(c) \/ CancelConnect(c) PROVE WakeInv'
  <2>1. /\ shut' = shut \cup {c} /\ armed' = armed \ {c}
    BY <1>2 DEF ConnectTimeout, CancelConnect
  <2>2. /\ UNCHANGED <<endpoint, dns>> /\ pc' = pc /\ listener' = listener /\ watch' = watch /\ phase' = phase
    BY SMTT(30), <1>2 DEF ConnectTimeout, CancelConnect, objects, names
  <2>3. /\ listener' = "gone" => Accepting \in shut'
        /\ watch' \in {"none", "running", "retired"} /\ (watch' = "running" => dns)
        /\ phase' \in {"running", "released", "closed", "draining", "drained"}
    BY <2>1, <2>2 DEF WakeInv
  <2> QED BY <2>1, <2>2, <2>3, WakeRests
<1>3. ASSUME NEW c \in Connects, EndConnect(c, j) \/ LoseConnect(c, j) PROVE WakeInv'
  <2>1. /\ shut' = shut /\ armed' = armed \ {c} /\ UNCHANGED <<listener, names, phase>>
    BY SMTT(30), <1>3 DEF EndConnect, LoseConnect, objects
  <2>2. \E d : Moves(c, "over", d, j)
    BY <1>3 DEF EndConnect, LoseConnect
  <2>3. IoPc(c, "over")
    BY <1>0, <2>2, IoMoves
  <2>4. CASE endpoint' = [endpoint EXCEPT ![c] = "open"]
    BY <1>0, <2>1, <2>3, <2>4, WakeEndpoint
  <2>5. CASE endpoint' = endpoint
    <3>1. listener' = listener /\ dns' = dns /\ (dns' <=> dns) /\ watch' = watch /\ phase' = phase
      BY SMTT(30), <2>1 DEF names
    <3>2. /\ \A b \in Connects : pc'[b] = IF b = c THEN "over" ELSE pc[b]
          /\ \A b \in Transfers \cup Lookups : pc'[b] = pc[b]
      BY <1>0, <2>3 DEF IoPc, IoSet
    <3> QED BY <2>1, <2>5, <3>1, <3>2 DEF WakeInv, Underway
  <2> QED BY <1>3, <2>4, <2>5 DEF EndConnect, LoseConnect, objects
<1>4. ASSUME NEW e \in Incoming, Accept(e, j) PROVE WakeInv'
  <2>1. /\ shut' = shut /\ armed' = armed /\ UNCHANGED <<listener, names, phase>>
    BY SMTT(30), <1>4 DEF Accept, attempts
  <2>2. (\E d : Moves(Accepting, "waiting", d, j)) /\ endpoint' = [endpoint EXCEPT ![e] = "open"]
    BY <1>4 DEF Accept
  <2>3. IoPc(Accepting, "waiting")
    BY <1>0, <2>2, IoMoves
  <2> QED BY <1>0, <2>1, <2>2, <2>3, WakeEndpoint
<1>5. ASSUME NEW e \in Endpoints, DestroyEndpoint(e) PROVE WakeInv'
  <2>1. /\ armed' = armed /\ UNCHANGED <<listener, names, phase>>
    BY SMTT(30), <1>5 DEF DestroyEndpoint, attempts
  <2>2. /\ \E d : Moves(NoTask, "over", d, NoTask)
        /\ endpoint' = [endpoint EXCEPT ![e] = "gone"] /\ shut' = shut \cup {e}
    BY <1>5 DEF DestroyEndpoint
  <2>3. IoPc(NoTask, "over")
    BY <1>0, <2>2, IoMoves
  <2> QED BY <1>0, <2>1, <2>2, <2>3, WakeEndpoint
<1> QED BY <1>1, <1>2, <1>3, <1>4, <1>5

\* The listener.
LEMMA ListenerWakes ==
    ASSUME Types, WakeInv, NEW j \in Runnable,
           CreateListener \/ Bind \/ Start \/ StartAccept \/ EndAccept(j) \/ DestroyListener(j)
    PROVE  WakeInv'
<1>0. /\ NoTask \in Runnable /\ {"idle", "queued", "waiting", "ready", "over"} \subseteq Places
      /\ Accepting \notin Transfers \cup Lookups /\ Accepting \notin Connects
      /\ NoTask \notin IoSet
  BY Kinds, EngineConstants
<1>1. ASSUME CreateListener \/ Start \/ StartAccept \/ EndAccept(j) PROVE WakeInv'
  <2>1. UNCHANGED <<shut, armed, endpoint, names, phase>>
    BY SMTT(30), <1>1 DEF CreateListener, Start, StartAccept, EndAccept, attempts, objects
  <2>2. listener' = listener \/ listener' # "gone"
    BY SMTT(30), <1>1 DEF CreateListener, Start, StartAccept, EndAccept, objects
  <2>3. Still
    BY <2>1, <2>2 DEF Still
  <2>4. /\ MayMove(NoTask, "over") /\ MayMove(Accepting, "queued") /\ MayMove(Accepting, "waiting")
        /\ MayMove(Accepting, "over")
    BY <1>0 DEF MayMove, IoSet
  <2>5. CASE CreateListener \/ Start \/ StartAccept
    <3>1. \/ \E d : Moves(NoTask, "over", d, NoTask)
          \/ \E d : Moves(Accepting, "queued", d, NoTask)
          \/ \E d : Moves(Accepting, "waiting", d, NoTask)
      BY <2>5 DEF CreateListener, Start, StartAccept
    <3> QED BY <1>0, <2>3, <2>4, <3>1, WakeGoes
  <2>6. CASE EndAccept(j)
    <3>1. \E d : Moves(Accepting, "over", d, j)
      BY <2>6 DEF EndAccept
    <3> QED BY <1>0, <2>3, <2>4, <3>1, WakeGoes
  <2> QED BY <1>1, <2>5, <2>6
<1>2. ASSUME Bind PROVE WakeInv'
  <2>1. /\ UNCHANGED <<endpoint, dns>> /\ pc' = pc /\ shut' = shut /\ armed' = armed /\ watch' = watch
        /\ phase' = phase /\ listener' = "bound"
    BY SMTT(30), <1>2 DEF Bind, attempts, names
  <2>2. /\ watch' \in {"none", "running", "retired"} /\ (watch' = "running" => dns)
        /\ phase' \in {"running", "released", "closed", "draining", "drained"}
    BY <2>1 DEF WakeInv
  <2> QED BY <2>1, <2>2, WakeRests
<1>3. ASSUME DestroyListener(j) PROVE WakeInv'
  <2>1. /\ UNCHANGED <<endpoint, dns>> /\ armed' = armed /\ watch' = watch /\ phase' = phase
    BY SMTT(30), <1>3 DEF DestroyListener, attempts, names
  <2>2. shut' = shut \cup {Accepting} /\ (pc' = pc \/ \E d : Moves(NoTask, "over", d, j))
    BY SMTT(30), <1>3 DEF DestroyListener
  <2>3. pc' = pc \/ IoPc(NoTask, "over")
    BY <1>0, <2>2, IoMoves
  <2>4. \A a \in IoSet : pc'[a] = pc[a]
    BY <1>0, <2>3 DEF IoPc
  <2>5. /\ watch' \in {"none", "running", "retired"} /\ (watch' = "running" => dns)
        /\ phase' \in {"running", "released", "closed", "draining", "drained"}
    BY <2>1 DEF WakeInv
  <2> QED BY <2>1, <2>2, <2>4, <2>5, WakeRests
<1> QED BY <1>1, <1>2, <1>3

\* The watch and the stop, and what changes only the tables.
LEMMA StopWakes ==
    ASSUME Types, WakeInv,
           \/ \E t \in Timers : RunAfter(t) \/ Cancel(t)
           \/ Watch \/ Retire \/ WatchEnds \/ Stop
    PROVE  WakeInv'
<1>1. ASSUME \/ \E t \in Timers : RunAfter(t) \/ Cancel(t)
             \/ Watch \/ Retire \/ WatchEnds \/ ReleaseChannels \/ CloseEngine \/ Drain
      PROVE  WakeInv'
  <2>1. UNCHANGED <<endpoint, dns>> /\ pc' = pc /\ shut' = shut /\ armed' = armed /\ listener' = listener
    BY SMTT(30), <1>1 DEF RunAfter, Cancel, Watch, Retire, WatchEnds, ReleaseChannels, CloseEngine, Drain,
                          attempts, objects, names
  <2>2. watch' = watch \/ watch' \in {"retired", "none"} \/ (watch' = "running" /\ dns)
    BY SMTT(30), <1>1 DEF RunAfter, Cancel, Watch, Retire, WatchEnds, ReleaseChannels, CloseEngine, Drain, names
  <2>3. phase' = phase \/ phase' \in {"released", "closed", "drained"}
    BY SMTT(30), <1>1 DEF RunAfter, Cancel, Watch, Retire, WatchEnds, ReleaseChannels, CloseEngine, Drain
  <2>4. /\ watch' \in {"none", "running", "retired"} /\ (watch' = "running" => dns)
        /\ phase' \in {"running", "released", "closed", "draining", "drained"}
        /\ listener' = "gone" => Accepting \in shut'
    BY <2>1, <2>2, <2>3 DEF WakeInv
  <2> QED BY <2>1, <2>4, WakeRests
<1>2. ASSUME CloseDns PROVE WakeInv'
  <2>1. /\ endpoint' = endpoint /\ shut' = shut /\ armed' = armed /\ listener' = listener
        /\ phase' = "draining"
        /\ watch' = IF watch = "running" THEN "retired" ELSE watch
    BY SMTT(30), <1>2 DEF CloseDns, attempts, objects
  <2>2. \A a \in Connects \cup Transfers \cup Lookups :
            pc'[a] = IF a \in Lookups /\ pc[a] = "waiting" THEN "ready" ELSE pc[a]
    BY <1>2 DEF CloseDns, Activities
  <2>3. \A a \in Connects \cup Transfers : pc'[a] = pc[a]
    BY <2>2, EngineConstants
  <2>4. \A l \in Lookups : pc'[l] # "waiting"
    BY <2>2
  <2>5. watch' \in {"none", "retired"}
    BY <2>1 DEF WakeInv
  <2> QED BY <2>1, <2>3, <2>4, <2>5 DEF WakeInv, Underway
<1> QED BY <1>1, <1>2 DEF Stop

LEMMA InitWakes == Init => WakeInv
<1> SUFFICES ASSUME Init PROVE WakeInv
  OBVIOUS
<1>1. \A a \in Connects \cup Transfers \cup Lookups : pc[a] = "idle"
  BY DEF Init, Activities
<1>2. \A e \in Endpoints : endpoint[e] = "none"
  BY DEF Init
<1>3. dns /\ watch = "none" /\ phase = "running" /\ listener = "none"
  BY DEF Init
<1> QED BY <1>1, <1>2, <1>3 DEF WakeInv, Underway

LEMMA NextWakes == Types /\ Shape /\ WakeInv /\ [Next]_vars => WakeInv'
<1> SUFFICES ASSUME Types, Shape, WakeInv, [Next]_vars PROVE WakeInv'
  OBVIOUS
<1>1. CASE UNCHANGED vars
  <2>1. /\ UNCHANGED <<endpoint, dns>> /\ pc' = pc /\ shut' = shut /\ armed' = armed /\ listener' = listener
        /\ watch' = watch /\ phase' = phase
    BY SMTT(30), <1>1 DEF vars, attempts, objects, names
  <2>2. /\ watch' \in {"none", "running", "retired"} /\ (watch' = "running" => dns)
        /\ phase' \in {"running", "released", "closed", "draining", "drained"}
        /\ listener' = "gone" => Accepting \in shut'
    BY <2>1 DEF WakeInv
  <2> QED BY <2>1, <2>2, WakeRests
<1>2. CASE Next
  <2>1. NoTask \in Runnable
    BY DEF Runnable
  <2>2. CASE Reactor
    BY <2>1, <2>2, WorkWakes, AttemptsWake, ListenerWakes DEF Reactor
  <2>3. CASE Use
    BY <2>1, <2>3, WorkWakes, AttemptsWake, ListenerWakes, StopWakes DEF Use
  <2>4. CASE Destroy
    BY <2>1, <2>4, WorkWakes, AttemptsWake, ListenerWakes DEF Destroy
  <2>5. CASE Stop \/ Watch \/ Retire \/ WatchEnds
    BY <2>5, StopWakes
  <2>6. CASE \E a \in Connects \cup Transfers \cup Lookups \cup {Accepting} : Complete(a)
    BY <2>1, <2>6, WorkWakes
  <2> QED BY <1>2, <2>2, <2>3, <2>4, <2>5, <2>6 DEF Next
<1> QED BY <1>1, <1>2

\* While nothing is queued, ready or armed and no object is left, nothing that
\* waits was overlooked: what the counters count is nothing.
LEMMA GoesOnHolds == Inductive /\ CountInv /\ WakeInv => StopGoesOn
<1> SUFFICES ASSUME Inductive, CountInv, WakeInv, phase \notin {"running", "drained"}, ~CanGoOn PROVE FALSE
  BY DEF StopGoesOn
<1>1. /\ \A a \in Activities : pc[a] \notin {"queued", "ready"}
      /\ timers = {} /\ armed = {}
      /\ \A e \in Endpoints : endpoint[e] # "open"
      /\ resolver # "open" /\ listener \in {"none", "gone"}
      /\ \A a \in Connects \cup Transfers \cup {Accepting} : pc[a] = "waiting" => ~Shut(a)
      /\ watch # "retired" /\ phase # "closed"
  BY DEF CanGoOn
<1>2. \A a \in Activities : Underway(a) => pc[a] = "waiting"
  BY <1>1 DEF Inductive, Types, Places, Underway
<1>3. /\ Connects \subseteq Activities /\ Transfers \subseteq Activities /\ Lookups \subseteq Activities
      /\ Tasks \subseteq Activities /\ Accepting \in Activities
  BY DEF Activities
<1>4. \A c \in Connects : ~Underway(c)
  <2>1. \A c \in Connects : c \notin Transfers
    BY EngineConstants
  <2> QED BY <1>1, <1>2, <1>3, <2>1 DEF WakeInv, Shut
<1>5. \A x \in Transfers : ~Underway(x)
  <2>1. \A x \in Transfers : endpoint[x[1]] \in {"none", "gone"}
    BY <1>1, Ends DEF CountInv, Shape
  <2> QED BY <1>1, <1>2, <1>3, <2>1, Ends DEF WakeInv, Shut
<1>6. ~Underway(Accepting)
  <2>1. Accepting \notin Transfers
    BY EngineConstants
  <2> QED BY <1>1, <1>2, <1>3, <2>1 DEF WakeInv, Shut, CountInv, Shape
<1>7. connections = {}
  BY <1>4 DEF Inductive, Types, Tabled
<1>8. phase = "draining"
  BY <1>1, <1>7 DEF WakeInv, CanGoOn
<1>9. ~dns
  BY <1>8 DEF CountInv, Stopped
<1>10. watch = "none" /\ \A l \in Lookups : ~Underway(l)
  BY <1>1, <1>2, <1>3, <1>9 DEF WakeInv
<1>11. Busy = {} /\ Due = {} /\ Open = {}
  <2>1. Busy = {}
    BY <1>4, <1>5, <1>6, <1>10 DEF Busy, IoSet
  <2>2. Due = {}
    BY <1>1, <1>3 DEF Due, DueSet
  <2> QED BY <1>1, <2>1, <2>2 DEF Open
<1>12. /\ observed["active_io"] = 0 /\ observed["active_tasks"] = 0 /\ observed["endpoints"] = 0
  BY <1>11, FS_EmptySet DEF CountInv, Counts, Counted
<1>13. observed["resolvers"] = 0 /\ observed["listeners"] = 0
  <2>1. ~Listening
    BY <1>1, <1>6 DEF Listening
  <2> QED BY <1>1, <2>1 DEF CountInv, Counts
<1>14. \A k \in Counters : observed[k] = 0
  BY <1>12, <1>13 DEF Counters
<1> QED BY <1>8, <1>10, <1>14 DEF CanGoOn

\* The stop of a shard is never stuck: between the release of the channels and
\* the return of drain_local_grpc there is always a task, coroutine, timer or
\* timeout that the reactor can run, an object that gRPC can destroy, I/O on a
\* shut descriptor that completes, or a loop of the stop whose condition holds,
\* for any number of attempts, lookups, timers and tasks.  A counter that does
\* not reach 0, or a coroutine that waits on a descriptor nobody shuts, would
\* leave close_grpc_engine or drain_local_grpc in its loop for good.
THEOREM StopGoesOnAlways == Spec => []StopGoesOn
<1>1. Inductive => Types
  BY DEF Inductive
<1>2. CountInv => Shape
  BY DEF CountInv
<1> QED BY <1>1, <1>2, InitInductive, NextInductive, InitCounts, NextCounts, InitWakes, NextWakes, GoesOnHolds,
           PTL DEF Spec

\* Activity a, which goes to s, goes on towards its end: a task begins and runs
\* once, I/O is started, completes and calls back, and accept() waits again
\* only when it took one of the incoming connections.
Onward(a, s) ==
    \/ pc[a] = "idle" /\ s = "queued" /\ a \in Tasks
    \/ pc[a] = "queued" /\ s \in {"waiting", "ready", "over"}
    \/ pc[a] = "waiting" /\ s = "ready"
    \/ pc[a] = "ready" /\ s \in {"idle", "over"}
    \/ /\ a = Accepting /\ pc[a] = "ready" /\ s = "waiting"
       /\ \E e \in Incoming : endpoint[e] = "none" /\ endpoint'[e] = "open"

\* No timer, attempt or object comes, but for the endpoint of an attempt or a
\* connection that was under way, and none that is gone comes back.
NothingNew ==
    /\ timers' \subseteq timers /\ armed' \subseteq armed /\ connections' \subseteq connections
    /\ \A e \in Endpoints : \/ endpoint'[e] = endpoint[e]
                            \/ endpoint[e] = "none" /\ endpoint'[e] = "open"
                            \/ endpoint[e] = "open" /\ endpoint'[e] = "gone"
    /\ resolver' \in {resolver, "gone"} /\ listener' \in {listener, "gone"}
    /\ phase' # "running"

StopOnlyEnds ==
    [][~Live => NothingNew /\ \A a \in Activities : pc'[a] = pc[a] \/ Onward(a, pc'[a])]_vars

LEMMA MovesOnward ==
    ASSUME Types, NEW a, NEW s \in Places, NEW d, NEW k \in Runnable, Moves(a, s, d, k),
           a \in Activities => Onward(a, s)
    PROVE  \A b \in Activities : pc'[b] = pc[b] \/ Onward(b, pc'[b])
<1>1. /\ \A b \in Activities : pc'[b] = IF b = a THEN s ELSE IF b = k THEN "queued" ELSE pc[b]
      /\ k # NoTask => k \in Tasks /\ pc[k] = "idle"
  BY MovesPc
<1>2. NoTask \notin Activities
  BY EngineConstants
<1>3. k \in Activities => Onward(k, "queued")
  BY <1>1, <1>2 DEF Onward
<1> QED BY <1>1, <1>3

\* The activities.
LEMMA ActivitiesWind ==
    ASSUME Types, Shape, ~Live, Next
    PROVE  \A b \in Activities : pc'[b] = pc[b] \/ Onward(b, pc'[b])
<1> DEFINE Goal == \A b \in Activities : pc'[b] = pc[b] \/ Onward(b, pc'[b])
<1>0. /\ NoTask \in Runnable /\ {"idle", "queued", "waiting", "ready", "over"} \subseteq Places
      /\ NoTask \notin Activities /\ \A t \in Timers : t \notin Activities
  BY Kinds, EngineConstants
<1>1. ASSUME NEW j \in Runnable, NEW k \in Tasks, RunTask(k, j) PROVE Goal
  <2>1. (\E d : Moves(k, "over", d, j)) /\ Onward(k, "over")
    BY <1>1 DEF RunTask, Onward
  <2> QED BY <1>0, <2>1, MovesOnward
<1>2. ASSUME NEW j \in Runnable, NEW t \in Timers, Fire(t, j) PROVE Goal
  BY <1>0, <1>2, MovesOnward DEF Fire
<1>3. ASSUME NEW j \in Runnable, NEW c \in Connects,
             StartConnect(c) \/ ConnectTimeout(c) \/ EndConnect(c, j) \/ LoseConnect(c, j)
      PROVE  Goal
  <2>1. CASE StartConnect(c)
    <3>1. (\E d : Moves(c, "waiting", d, NoTask)) /\ Onward(c, "waiting")
      BY <2>1 DEF StartConnect, Onward
    <3> QED BY <1>0, <3>1, MovesOnward
  <2>2. CASE ConnectTimeout(c)
    <3>1. pc' = pc
      BY SMTT(30), <2>2 DEF ConnectTimeout
    <3> QED BY <3>1
  <2>3. CASE EndConnect(c, j) \/ LoseConnect(c, j)
    <3>1. (\E d : Moves(c, "over", d, j)) /\ Onward(c, "over")
      BY <2>3 DEF EndConnect, LoseConnect, Onward
    <3> QED BY <1>0, <3>1, MovesOnward
  <2> QED BY <1>3, <2>1, <2>2, <2>3
<1>4. ASSUME NEW j \in Runnable, NEW x \in Transfers, StartTransfer(x) \/ EndTransfer(x, j) PROVE Goal
  <2>1. \/ (\E d : Moves(x, "waiting", d, NoTask)) /\ Onward(x, "waiting")
        \/ (\E d : Moves(x, "idle", d, j)) /\ Onward(x, "idle")
    BY <1>4 DEF StartTransfer, EndTransfer, Onward
  <2> QED BY <1>0, <2>1, MovesOnward
<1>5. ASSUME NEW j \in Runnable, StartAccept \/ EndAccept(j) PROVE Goal
  <2>1. \/ (\E d : Moves(Accepting, "waiting", d, NoTask)) /\ Onward(Accepting, "waiting")
        \/ (\E d : Moves(Accepting, "over", d, j)) /\ Onward(Accepting, "over")
    BY <1>5 DEF StartAccept, EndAccept, Onward
  <2> QED BY <1>0, <2>1, MovesOnward
<1>6. ASSUME NEW j \in Runnable, NEW e \in Incoming, Accept(e, j) PROVE Goal
  <2>1. endpoint[e] = "none" /\ endpoint'[e] = "open"
    BY SMTT(30), <1>6 DEF Accept, Shape, Endpoints
  <2>2. (\E d : Moves(Accepting, "waiting", d, j)) /\ Onward(Accepting, "waiting")
    BY <1>6, <2>1 DEF Accept, Onward
  <2> QED BY <1>0, <1>6, <2>2, MovesOnward
<1>7. ASSUME NEW j \in Runnable, NEW l \in Lookups, StartLookup(l) \/ EndLookup(l, j) PROVE Goal
  <2>1. \/ (\E d : Moves(l, "waiting", d, NoTask)) /\ Onward(l, "waiting")
        \/ (\E d : Moves(l, "ready", d, NoTask)) /\ Onward(l, "ready")
        \/ (\E d : Moves(l, "over", d, j)) /\ Onward(l, "over")
    BY <1>7 DEF StartLookup, EndLookup, Onward
  <2> QED BY <1>0, <2>1, MovesOnward
<1>8. ASSUME NEW a \in Connects \cup Transfers \cup Lookups \cup {Accepting}, Complete(a) PROVE Goal
  <2>1. Moves(a, "ready", <<>>, NoTask) /\ Onward(a, "ready")
    BY <1>8 DEF Complete, Onward
  <2> QED BY <1>0, <2>1, MovesOnward
<1>9. ASSUME Destroy PROVE Goal
  <2>1. pc' = pc \/ \E j \in Runnable : \E d : Moves(NoTask, "over", d, j)
    <3>1. CASE \E j \in Runnable : DestroyListener(j)
      BY SMTT(30), <3>1 DEF DestroyListener
    <3>2. CASE DestroyResolver \/ \E e \in Endpoints : DestroyEndpoint(e)
      BY <1>0, <3>2 DEF DestroyResolver, DestroyEndpoint
    <3> QED BY <1>9, <3>1, <3>2 DEF Destroy
  <2> QED BY <1>0, <2>1, MovesOnward
<1>10. ASSUME Use PROVE Goal
  <2>1. (\E t \in Timers : Cancel(t)) \/ \E c \in Connects : CancelConnect(c)
    BY <1>10 DEF Use, Run, RunAfter, Connect, Transfer, CreateListener, Bind, Start, GetDNSResolver, LookupHostname
  <2>2. pc' = pc
    BY SMTT(30), <2>1 DEF Cancel, CancelConnect
  <2> QED BY <2>2
<1>11. ASSUME Stop \/ Watch \/ Retire \/ WatchEnds PROVE Goal
  <2>1. CASE CloseDns
    <3>1. \A b \in Activities : pc'[b] = IF b \in Lookups /\ pc[b] = "waiting" THEN "ready" ELSE pc[b]
      BY <2>1 DEF CloseDns
    <3> QED BY <3>1 DEF Onward
  <2>2. CASE Watch \/ Retire \/ WatchEnds \/ ReleaseChannels \/ CloseEngine \/ Drain
    <3>1. pc' = pc
      BY SMTT(30), <2>2 DEF Watch, Retire, WatchEnds, ReleaseChannels, CloseEngine, Drain
    <3> QED BY <3>1
  <2> QED BY <1>11, <2>1, <2>2 DEF Stop
<1>12. CASE Reactor
  BY <1>12, <1>1, <1>2, <1>3, <1>4, <1>5, <1>6, <1>7 DEF Reactor
<1> QED BY <1>8, <1>9, <1>10, <1>11, <1>12 DEF Next

\* The tables and the objects.
LEMMA ObjectsWind ==
    ASSUME Types, Shape, ~Live, Next
    PROVE  NothingNew
<1>0. phase # "running"
  BY DEF Live
<1>1. CASE Stop \/ Watch \/ Retire \/ WatchEnds
  <2>1. /\ timers' = timers /\ armed' = armed /\ connections' = connections /\ endpoint' = endpoint
        /\ resolver' = resolver /\ listener' = listener
    <3>1. CASE Stop
      BY SMTT(30), <3>1 DEF Stop, ReleaseChannels, CloseEngine, CloseDns, Drain, attempts, clock, objects
    <3>2. CASE Watch \/ Retire \/ WatchEnds
      BY SMTT(30), <3>2 DEF Watch, Retire, WatchEnds, attempts, clock, objects
    <3> QED BY <1>1, <3>1, <3>2
  <2>2. phase' # "running"
    <3>1. CASE Stop
      BY SMTT(30), <1>0, <3>1 DEF Stop, ReleaseChannels, CloseEngine, CloseDns, Drain
    <3>2. CASE Watch \/ Retire \/ WatchEnds
      BY SMTT(30), <1>0, <3>2 DEF Watch, Retire, WatchEnds
    <3> QED BY <1>1, <3>1, <3>2
  <2> QED BY <2>1, <2>2 DEF NothingNew
<1>2. CASE Destroy
  <2>1. timers' = timers /\ armed' = armed /\ connections' = connections /\ phase' = phase
    <3>1. ASSUME NEW e \in Endpoints, DestroyEndpoint(e)
          PROVE  timers' = timers /\ armed' = armed /\ connections' = connections /\ phase' = phase
      BY <3>1 DEF DestroyEndpoint, attempts, clock
    <3>2. ASSUME NEW j \in Runnable, DestroyListener(j)
          PROVE  timers' = timers /\ armed' = armed /\ connections' = connections /\ phase' = phase
      BY <3>2 DEF DestroyListener, attempts, clock
    <3>3. ASSUME DestroyResolver
          PROVE  timers' = timers /\ armed' = armed /\ connections' = connections /\ phase' = phase
      BY <3>3 DEF DestroyResolver, attempts, clock
    <3> QED BY <1>2, <3>1, <3>2, <3>3 DEF Destroy
  <2>2. resolver' \in {resolver, "gone"} /\ listener' \in {listener, "gone"}
    <3>1. ASSUME NEW e \in Endpoints, DestroyEndpoint(e) PROVE resolver' = resolver /\ listener' = listener
      BY <3>1 DEF DestroyEndpoint
    <3>2. ASSUME NEW j \in Runnable, DestroyListener(j) PROVE resolver' = resolver /\ listener' = "gone"
      BY <3>2 DEF DestroyListener
    <3>3. ASSUME DestroyResolver PROVE resolver' = "gone" /\ listener' = listener
      BY <3>3 DEF DestroyResolver
    <3> QED BY <1>2, <3>1, <3>2, <3>3 DEF Destroy
  <2>3. \A e \in Endpoints : endpoint'[e] = endpoint[e] \/ (endpoint[e] = "open" /\ endpoint'[e] = "gone")
    BY SMTT(30), <1>2 DEF Destroy, DestroyEndpoint, DestroyListener, DestroyResolver, Shape
  <2> QED BY <1>0, <2>1, <2>2, <2>3 DEF NothingNew
<1>3. CASE Use
  <2>1. (\E t \in Timers : Cancel(t)) \/ \E c \in Connects : CancelConnect(c)
    BY <1>3 DEF Use, Run, RunAfter, Connect, Transfer, CreateListener, Bind, Start, GetDNSResolver, LookupHostname
  <2>2. /\ timers' \subseteq timers /\ armed' \subseteq armed /\ connections' \subseteq connections
        /\ endpoint' = endpoint /\ resolver' = resolver /\ listener' = listener /\ phase' = phase
    BY SMTT(30), <2>1 DEF Cancel, CancelConnect, attempts, clock, objects
  <2> QED BY <1>0, <2>2 DEF NothingNew
<1>4. CASE \E a \in Connects \cup Transfers \cup Lookups \cup {Accepting} : Complete(a)
  <2>1. /\ timers' = timers /\ armed' = armed /\ connections' = connections /\ endpoint' = endpoint
        /\ resolver' = resolver /\ listener' = listener /\ phase' = phase
    BY <1>4 DEF Complete, attempts, clock, objects
  <2> QED BY <1>0, <2>1 DEF NothingNew
<1>5. CASE Reactor
  <2>1. PICK j \in Runnable :
            \/ \E k \in Tasks : RunTask(k, j)
            \/ \E t \in Timers : Fire(t, j)
            \/ \E c \in Connects : StartConnect(c) \/ ConnectTimeout(c) \/ EndConnect(c, j) \/ LoseConnect(c, j)
            \/ \E x \in Transfers : StartTransfer(x) \/ EndTransfer(x, j)
            \/ StartAccept \/ EndAccept(j) \/ (\E e \in Incoming : Accept(e, j))
            \/ \E l \in Lookups : StartLookup(l) \/ EndLookup(l, j)
    BY <1>5 DEF Reactor
  <2>2. CASE \/ \E k \in Tasks : RunTask(k, j)
             \/ \E t \in Timers : Fire(t, j)
             \/ \E c \in Connects : StartConnect(c) \/ ConnectTimeout(c)
    <3> DEFINE Fewer == /\ timers' \subseteq timers /\ armed' \subseteq armed /\ connections' = connections
                        /\ endpoint' = endpoint /\ resolver' = resolver /\ listener' = listener /\ phase' = phase
    <3>1. ASSUME NEW k \in Tasks, RunTask(k, j) PROVE Fewer
      BY <3>1 DEF RunTask, attempts, clock, objects
    <3>2. ASSUME NEW t \in Timers, Fire(t, j) PROVE Fewer
      BY <3>2 DEF Fire, attempts, objects
    <3>3. ASSUME NEW c \in Connects, StartConnect(c) PROVE Fewer
      BY <3>3 DEF StartConnect, attempts, clock, objects
    <3>4. ASSUME NEW c \in Connects, ConnectTimeout(c) PROVE Fewer
      BY <3>4 DEF ConnectTimeout, clock, objects
    <3>5. Fewer
      BY <2>2, <3>1, <3>2, <3>3, <3>4
    <3> QED BY <1>0, <3>5 DEF NothingNew
  <2>3. CASE \/ \E x \in Transfers : StartTransfer(x) \/ EndTransfer(x, j)
             \/ StartAccept \/ EndAccept(j)
             \/ \E l \in Lookups : StartLookup(l) \/ EndLookup(l, j)
    <3> DEFINE Same == /\ timers' = timers /\ armed' = armed /\ connections' = connections
                       /\ endpoint' = endpoint /\ resolver' = resolver /\ listener' = listener /\ phase' = phase
    <3>1. ASSUME NEW x \in Transfers, StartTransfer(x) \/ EndTransfer(x, j) PROVE Same
      BY <3>1 DEF StartTransfer, EndTransfer, attempts, clock, objects
    <3>2. ASSUME StartAccept \/ EndAccept(j) PROVE Same
      BY <3>2 DEF StartAccept, EndAccept, attempts, clock, objects
    <3>3. ASSUME NEW l \in Lookups, StartLookup(l) \/ EndLookup(l, j) PROVE Same
      BY <3>3 DEF StartLookup, EndLookup, attempts, clock, objects
    <3>4. Same
      BY <2>3, <3>1, <3>2, <3>3
    <3> QED BY <1>0, <3>4 DEF NothingNew
  <2>4. CASE (\E c \in Connects : EndConnect(c, j) \/ LoseConnect(c, j)) \/ \E e \in Incoming : Accept(e, j)
    <3>1. /\ timers' = timers /\ armed' \subseteq armed /\ connections' \subseteq connections
          /\ resolver' = resolver /\ listener' = listener /\ phase' = phase
      <4>1. ASSUME NEW c \in Connects, EndConnect(c, j) \/ LoseConnect(c, j)
            PROVE  /\ timers' = timers /\ armed' = armed \ {c} /\ connections' = connections \ {c}
                   /\ resolver' = resolver /\ listener' = listener /\ phase' = phase
        BY <4>1 DEF EndConnect, LoseConnect, clock, objects
      <4>2. ASSUME NEW e \in Incoming, Accept(e, j)
            PROVE  /\ timers' = timers /\ armed' = armed /\ connections' = connections
                   /\ resolver' = resolver /\ listener' = listener /\ phase' = phase
        BY <4>2 DEF Accept, attempts, clock
      <4> QED BY <2>4, <4>1, <4>2
    <3>2. \/ endpoint' = endpoint
          \/ \E e \in Endpoints : endpoint[e] = "none" /\ endpoint' = [endpoint EXCEPT ![e] = "open"]
      <4>1. ASSUME NEW c \in Connects, EndConnect(c, j) \/ LoseConnect(c, j)
            PROVE  endpoint' = endpoint \/ (endpoint[c] = "none" /\ endpoint' = [endpoint EXCEPT ![c] = "open"])
        BY <4>1 DEF EndConnect, LoseConnect, Shape, objects
      <4> QED BY <2>4, <4>1 DEF Accept, Endpoints
    <3>3. \A e \in Endpoints : endpoint'[e] = endpoint[e] \/ (endpoint[e] = "none" /\ endpoint'[e] = "open")
      <4>1. ASSUME NEW f \in Endpoints, endpoint[f] = "none", endpoint' = [endpoint EXCEPT ![f] = "open"]
            PROVE  \A e \in Endpoints : endpoint'[e] = endpoint[e] \/ (endpoint[e] = "none" /\ endpoint'[e] = "open")
        BY SMTT(30), <4>1 DEF Shape
      <4> QED BY <3>2, <4>1
    <3> QED BY <1>0, <3>1, <3>3 DEF NothingNew
  <2> QED BY <2>1, <2>2, <2>3, <2>4
<1> QED BY <1>1, <1>2, <1>3, <1>4, <1>5 DEF Next

\* Once the channels are released every step is one towards the end: no timer,
\* attempt or object comes that was not under way, no object comes back, and an
\* activity only goes on to its callback; tasks run once and accept() goes round
\* only as often as connections come in (close_grpc_engine, drain_local_grpc
\* and the coroutines they wait for).
THEOREM StopOnlyEndsAlways == Spec => StopOnlyEnds
<1>1. Inductive => Types
  BY DEF Inductive
<1>2. CountInv => Shape
  BY DEF CountInv
<1>3. Types /\ Shape /\ [Next]_vars =>
          [~Live => NothingNew /\ \A a \in Activities : pc'[a] = pc[a] \/ Onward(a, pc'[a])]_vars
  BY ActivitiesWind, ObjectsWind
<1> QED BY <1>1, <1>2, <1>3, InitInductive, NextInductive, InitCounts, NextCounts, PTL DEF Spec, StopOnlyEnds
=============================================================================
