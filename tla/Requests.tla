------------------------------- MODULE Requests -------------------------------
(***************************************************************************)
(* How a request of a client runs in a Message or Gate process: a coroutine*)
(* that makes one call after the other to MySQL, Redis or a mail server,   *)
(* interleaved with the others at every call.  A call that fails, or whose *)
(* reply does not arrive, ends the request with an error and is never      *)
(* repeated; its connection is closed.  The server may still carry out the *)
(* statement that was on its way: such a request is "lost".                *)
(***************************************************************************)
EXTENDS Integers, FiniteSets

CONSTANTS
    Ops,          \* the requests that clients may send
    Op,           \* Op[o]: kind, user and arguments of a request
    Loads,        \* the sets of requests that are considered together
    MaxFaults     \* bound on failed calls

ASSUME RequestConstants == IsFiniteSet(Ops) /\ Loads \subseteq SUBSET Ops /\ MaxFaults \in Nat

VARIABLES
    stage,        \* how far a request is, from "new" to "done"
    lost,         \* the requests whose connection was given up
    answer,       \* what the client heard: "none" yet, "success", "refused",
                  \* "failed"
    faults

requestVars == <<stage, lost, answer, faults>>

RequestInit ==
    /\ \E load \in Loads : stage = [o \in Ops |-> IF o \in load THEN "new" ELSE "done"]
    /\ lost = {} /\ faults = 0
    /\ answer = [o \in Ops |-> "none"]

\* A lost request has nobody left to continue it or to be answered.
Goto(o, s) == stage' = [stage EXCEPT ![o] = IF o \in lost THEN "done" ELSE s]
End(o, a) ==
    /\ Goto(o, "done")
    /\ answer' = IF o \in lost THEN answer ELSE [answer EXCEPT ![o] = a]

\* The exception of a failed call ends the request.  In the stages idle it has
\* no statement under way; in the others it leaves one behind.
GiveUp(o, idle) ==
    /\ faults < MaxFaults /\ faults' = faults + 1
    /\ stage[o] # "done" /\ o \notin lost
    /\ answer' = [answer EXCEPT ![o] = "failed"]
    /\ IF stage[o] \in idle
       THEN stage' = [stage EXCEPT ![o] = "done"] /\ UNCHANGED lost
       ELSE lost' = lost \cup {o} /\ UNCHANGED stage

\* The server closes its end without carrying out the statement.
Drop(o) ==
    /\ o \in lost /\ stage[o] # "done"
    /\ stage' = [stage EXCEPT ![o] = "done"]
    /\ UNCHANGED <<lost, answer, faults>>

=============================================================================
