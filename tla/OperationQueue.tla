--------------------------- MODULE OperationQueue ---------------------------
(***************************************************************************)
(* What operation_queue (common/include/IoQueue.h) promises to the         *)
(* transaction layer, without consumers or notifications: work is admitted *)
(* at once or refused at once, admitted work starts in the order of        *)
(* admission and no more than Concurrency of it runs at a time, every      *)
(* future is resolved once, and closing resolves everything.               *)
(***************************************************************************)
EXTENDS Integers, Sequences, FiniteSets

CONSTANTS
    Jobs,         \* the operations that callers ever submit
    Pending,      \* queue_limits::pending
    Concurrency   \* queue_limits::concurrency

VARIABLES
    phase,        \* "new", "open", "closed" or "drained"
    waiting,      \* admitted and not started, oldest first
    outcome       \* what has become of each job

vars == <<phase, waiting, outcome>>

Running == {j \in Jobs : outcome[j] = "running"}

Init ==
    /\ phase = "new"
    /\ waiting = << >>
    /\ outcome = [j \in Jobs |-> "new"]

Open ==
    /\ phase = "new"
    /\ phase' = "open"
    /\ UNCHANGED <<waiting, outcome>>

Refuse(j) ==
    /\ outcome[j] = "new"
    /\ outcome' = [outcome EXCEPT ![j] = IF phase = "open" THEN "overloaded" ELSE "stopped"]
    /\ UNCHANGED <<phase, waiting>>

Admit(j) ==
    /\ outcome[j] = "new"
    /\ phase = "open"
    /\ Len(waiting) < Pending
    /\ waiting' = Append(waiting, j)
    /\ outcome' = [outcome EXCEPT ![j] = "waiting"]
    /\ UNCHANGED phase

Begin ==
    /\ phase = "open"
    /\ waiting # << >>
    /\ Cardinality(Running) < Concurrency
    /\ waiting' = Tail(waiting)
    /\ outcome' = [outcome EXCEPT ![Head(waiting)] = "running"]
    /\ UNCHANGED phase

Finish(j) ==
    /\ outcome[j] = "running"
    /\ \E result \in {"value", "failed"} : outcome' = [outcome EXCEPT ![j] = result]
    /\ UNCHANGED <<phase, waiting>>

Close ==
    /\ phase \in {"new", "open"}
    /\ phase' = "closed"
    /\ waiting' = << >>
    /\ outcome' = [j \in Jobs |-> IF outcome[j] = "waiting" THEN "stopped" ELSE outcome[j]]

Drain ==
    /\ phase = "closed"
    /\ Running = {}
    /\ phase' = "drained"
    /\ UNCHANGED <<waiting, outcome>>

Next ==
    \/ Open
    \/ \E j \in Jobs : Refuse(j) \/ Admit(j) \/ Finish(j)
    \/ Begin
    \/ Close
    \/ Drain

(* Admitted work starts when there is room for it, and closing drains.     *)
Fairness ==
    /\ WF_vars(Begin)
    /\ \A j \in Jobs : WF_vars(phase = "closed" /\ Finish(j))
    /\ WF_vars(Drain)

SafeSpec == Init /\ [][Next]_vars
Spec == SafeSpec /\ Fairness

=============================================================================
