------------------------------ MODULE IoQueue ------------------------------
(***************************************************************************)
(* common/include/IoQueue.h: the bounded operation queue that stands       *)
(* between the transaction layer and the I/O driver of one shard (Gate,    *)
(* Gateway and Message each own one).  A fixed set of consumer coroutines  *)
(* waits on a condition variable; a notification wakes a consumer but does *)
(* not reserve a job for it.  All steps run on one reactor, so a step is   *)
(* what a coroutine does between two suspension points.                    *)
(***************************************************************************)
EXTENDS Integers, Sequences, FiniteSets, FiniteSetsExt

CONSTANTS
    Jobs,         \* the operations that callers ever submit, each one once
    Consumers,    \* the consumer coroutines, queue_limits::concurrency many
    Pending,      \* queue_limits::pending
    ByteLimit,    \* queue_limits::bytes
    Size,         \* Size[j]: sizeof(entry) + byte_size() of job j
    NoJob

\* The constructor refuses limits that are not positive.
ASSUME LimitsPositive ==
    /\ IsFiniteSet(Consumers) /\ Consumers # {}
    /\ Pending \in Nat \ {0}
    /\ ByteLimit \in Nat \ {0}
    /\ Size \in [Jobs -> Nat \ {0}]
    /\ NoJob \notin Jobs

VARIABLES
    owner,        \* where the owning service is in its start / stop sequence
    accepting,    \* _accepting
    pending,      \* _pending, oldest first
    charged,      \* the jobs whose semaphore_units of _bytes are outstanding
    consumer,     \* where each consume() coroutine is
    holding,      \* the job a consumer has taken out of _pending
    outcome       \* the state of each job's promise, as its submitter sees it

vars == <<owner, accepting, pending, charged, consumer, holding, outcome>>

OwnerStates == {"new", "running", "closed", "aborted", "joining", "stopped"}
ConsumerStates == {"absent", "ready", "waiting", "busy", "exited"}
Outcomes == {"new", "waiting", "running", "value", "failed", "stopped", "overloaded"}
Resolved == {"value", "failed", "stopped", "overloaded"}

InState(s) == {c \in Consumers : consumer[c] = s}
Queued == {pending[i] : i \in DOMAIN pending}
Bytes(S) == MapThenSumSet(LAMBDA j : Size[j], S)

TypeOK ==
    /\ owner \in OwnerStates
    /\ accepting \in BOOLEAN
    /\ pending \in Seq(Jobs)
    /\ charged \subseteq Jobs
    /\ consumer \in [Consumers -> ConsumerStates]
    /\ holding \in [Consumers -> Jobs \cup {NoJob}]
    /\ outcome \in [Jobs -> Outcomes]
-----------------------------------------------------------------------------
Init ==
    /\ owner = "new"
    /\ accepting = FALSE
    /\ pending = << >>
    /\ charged = {}
    /\ consumer = [c \in Consumers |-> "absent"]
    /\ holding = [c \in Consumers |-> NoJob]
    /\ outcome = [j \in Jobs |-> "new"]

\* start(): every consumer is spawned into the I/O scheduling group.
Start ==
    /\ owner = "new"
    /\ ~accepting /\ InState("absent") = Consumers
    /\ owner' = "running"
    /\ accepting' = TRUE
    /\ consumer' = [c \in Consumers |-> "ready"]
    /\ UNCHANGED <<pending, charged, holding, outcome>>

\* submit(): a free slot in _pending and units of _bytes for the entry.
HasRoom(j) ==
    /\ Len(pending) < Pending
    /\ Bytes(charged) + Size[j] <= ByteLimit

\* submit() when the queue is closed, when _pending is full, or when _bytes
\* cannot give the units: an exceptional future at once.
Reject(j) ==
    /\ outcome[j] = "new"
    /\ \/ /\ ~accepting
          /\ outcome' = [outcome EXCEPT ![j] = "stopped"]
       \/ /\ accepting
          /\ ~HasRoom(j)
          /\ outcome' = [outcome EXCEPT ![j] = "overloaded"]
    /\ UNCHANGED <<owner, accepting, pending, charged, consumer, holding>>

\* Mutant of Signal: notify only when the queue was empty before the push.
SignalWhenEmpty ==
    IF pending # << >> \/ InState("waiting") = {}
    THEN UNCHANGED consumer
    ELSE \E c \in InState("waiting") : consumer' = [consumer EXCEPT ![c] = "ready"]

\* _ready.signal(): one waiting coroutine, if there is one, becomes ready.
Signal ==
    IF InState("waiting") = {}
    THEN UNCHANGED consumer
    ELSE \E c \in InState("waiting") : consumer' = [consumer EXCEPT ![c] = "ready"]

\* submit() with room: the units, the push and the notification.
Submit(j) ==
    /\ outcome[j] = "new"
    /\ accepting
    /\ HasRoom(j)
    /\ charged' = charged \cup {j}
    /\ pending' = Append(pending, j)
    /\ outcome' = [outcome EXCEPT ![j] = "waiting"]
    /\ Signal
    /\ UNCHANGED <<owner, accepting, holding>>

\* Mutant of Take: the newest job first.
TakeNewest(c) ==
    LET j == pending[Len(pending)] IN
    /\ pending' = SubSeq(pending, 1, Len(pending) - 1)
    /\ charged' = charged \ {j}
    /\ holding' = [holding EXCEPT ![c] = j]
    /\ outcome' = [outcome EXCEPT ![j] = "running"]

\* The oldest job leaves _pending, its units go back, its promise goes along.
Take(c) ==
    /\ pending' = Tail(pending)
    /\ charged' = charged \ {Head(pending)}
    /\ holding' = [holding EXCEPT ![c] = Head(pending)]
    /\ outcome' = [outcome EXCEPT ![Head(pending)] = "running"]

\* consume() resumes: it suspends again when there is nothing to do, returns
\* when admission has closed, and otherwise takes the oldest job, gives its
\* units back and suspends in the backend.
Resume(c) ==
    /\ consumer[c] = "ready"
    /\ \/ /\ accepting /\ pending = << >>
          /\ consumer' = [consumer EXCEPT ![c] = "waiting"]
          /\ UNCHANGED <<pending, charged, holding, outcome>>
       \/ /\ ~accepting
          /\ consumer' = [consumer EXCEPT ![c] = "exited"]
          /\ UNCHANGED <<pending, charged, holding, outcome>>
       \/ /\ accepting /\ pending # << >>
          /\ consumer' = [consumer EXCEPT ![c] = "busy"]
          /\ Take(c)
    /\ UNCHANGED <<owner, accepting>>

\* execute(): the backend's future resolves, with a value or an exception,
\* the promise is set and consume() is scheduled again.
Complete(c) ==
    /\ consumer[c] = "busy"
    /\ \E result \in {"value", "failed"} :
          outcome' = [outcome EXCEPT ![holding[c]] = result]
    /\ consumer' = [consumer EXCEPT ![c] = "ready"]
    /\ holding' = [holding EXCEPT ![c] = NoJob]
    /\ UNCHANGED <<owner, accepting, pending, charged>>

\* Mutant of CloseAndFlush: the waiting consumers are not woken.
FlushWithoutBroadcast ==
    /\ accepting' = FALSE
    /\ pending' = << >>
    /\ charged' = charged \ Queued
    /\ outcome' = [j \in Jobs |-> IF j \in Queued THEN "stopped" ELSE outcome[j]]
    /\ UNCHANGED <<consumer, holding>>

\* begin_stop(): closes admission, fails what has not started, releases its
\* units, wakes every waiting consumer.
CloseAndFlush ==
    /\ accepting' = FALSE
    /\ pending' = << >>
    /\ charged' = charged \ Queued
    /\ outcome' = [j \in Jobs |-> IF j \in Queued THEN "stopped" ELSE outcome[j]]
    /\ consumer' = [c \in Consumers |-> IF consumer[c] = "waiting" THEN "ready" ELSE consumer[c]]
    /\ UNCHANGED holding

\* The owner's stop(): begin_stop(), then driver.abort(), then the queue's
\* stop(), which calls begin_stop() again and joins the consumers.  An owner
\* whose start() failed stops a queue that was never started.
BeginStop ==
    /\ owner \in {"new", "running"}
    /\ owner' = "closed"
    /\ CloseAndFlush

Abort ==
    /\ owner = "closed"
    /\ owner' = "aborted"
    /\ UNCHANGED <<accepting, pending, charged, consumer, holding, outcome>>

Stop ==
    /\ owner = "aborted"
    /\ owner' = "joining"
    /\ CloseAndFlush

\* Mutant of Joined: stop() does not wait for the consumers.
JoinedEarly ==
    /\ owner = "joining"
    /\ owner' = "stopped"
    /\ consumer' = [c \in Consumers |-> "absent"]
    /\ UNCHANGED <<accepting, pending, charged, holding, outcome>>

Joined ==
    /\ owner = "joining"
    /\ \A c \in Consumers : consumer[c] \in {"absent", "exited"}
    /\ owner' = "stopped"
    /\ consumer' = [c \in Consumers |-> "absent"]
    /\ UNCHANGED <<accepting, pending, charged, holding, outcome>>

Next ==
    \/ Start
    \/ \E j \in Jobs : Reject(j) \/ Submit(j)
    \/ \E c \in Consumers : Resume(c) \/ Complete(c)
    \/ BeginStop \/ Abort \/ Stop \/ Joined

\* The reactor runs every ready coroutine, and the owner's stop() is such a
\* coroutine once it has begun.  A backend future is known to resolve only
\* after driver.abort(): MySQL operations carry no deadline of their own.
Fairness ==
    /\ \A c \in Consumers : WF_vars(Resume(c))
    /\ \A c \in Consumers : WF_vars(owner \in {"aborted", "joining"} /\ Complete(c))
    /\ WF_vars(Abort) /\ WF_vars(Stop) /\ WF_vars(Joined)

SafeSpec == Init /\ [][Next]_vars
Spec == SafeSpec /\ Fairness
-----------------------------------------------------------------------------
\* Every promise has exactly one keeper: a job whose promise is unresolved is
\* either once in _pending or held by exactly one consumer, and no consumer
\* or queue entry keeps a resolved promise (setting it again would abort).
OneKeeper ==
    /\ \A i, k \in DOMAIN pending : pending[i] = pending[k] => i = k
    /\ \A c, d \in Consumers : holding[c] = holding[d] /\ holding[c] # NoJob => c = d
    /\ \A j \in Jobs : outcome[j] = "waiting" <=> j \in Queued
    /\ \A j \in Jobs : outcome[j] = "running" <=> \E c \in Consumers : holding[c] = j
    /\ \A c \in Consumers : consumer[c] = "busy" <=> holding[c] # NoJob

\* No lost wake-up: as long as a consumer sleeps on _ready, there are at least
\* as many consumers on their way to the queue as there are jobs in it.
NoLostWakeup ==
    InState("waiting") # {} => Cardinality(InState("ready")) >= Len(pending)

\* The byte quota is charged by the entries of _pending and nothing else, so
\* neither a started, nor a refused, nor a flushed job keeps units.
QuotaIsPending ==
    charged = Queued

\* The queue's destructor: assert(_consumers.empty() && _pending.empty()), and
\* neither units of the quota nor a promise that nobody will resolve are left.
CleanWhenStopped ==
    owner = "stopped" =>
        /\ pending = << >> /\ charged = {}
        /\ InState("absent") = Consumers
        /\ \A j \in Jobs : outcome[j] \notin {"waiting", "running"}

\* A promise is resolved once and for good.
ResolvedOnce ==
    [][\A j \in Jobs : outcome[j] \in Resolved => outcome'[j] = outcome[j]]_vars

\* Once the owner begins to stop, it gets to the end.
StopTerminates ==
    (owner = "closed") ~> (owner = "stopped")

\* The queue keeps the promise of OperationQueue, its fairness included.
Phase ==
    CASE owner = "new" -> "new"
      [] owner = "running" -> "open"
      [] owner \in {"closed", "aborted", "joining"} -> "closed"
      [] owner = "stopped" -> "drained"

Promise == INSTANCE OperationQueue WITH
    phase <- Phase, waiting <- pending, Concurrency <- Cardinality(Consumers)

\* The whole specification of OperationQueue under that mapping.
ImplementsOperationQueue == Promise!Spec
=============================================================================
