------------------------- MODULE ConversationTables -------------------------
(***************************************************************************)
(* What the operations on friends, groups and receipts have in common: the *)
(* tables conversations and conversationUserStates, and the connection and *)
(* the row locks they work with.  A shard has one MySQL connection and     *)
(* gives it to one store operation at a time (_mysql_slot); operations of  *)
(* different shards interleave statement by statement.  The transaction of *)
(* a request that was given up keeps its locks until the server ends it.   *)
(***************************************************************************)
EXTENDS Requests, FiniteSetsExt

CONSTANTS
    Users,
    Groups,       \* the groups that may be created, one conversation each
    Shard,        \* Shard[o]: the shard that executes a request
    NoOp

\* A friendship is identified by its two users (uk_friends_pair), and so is
\* its conversation; the conversation of a group by the group.
Pairs == {p \in SUBSET Users : \E u, v \in p : u # v /\ p = {u, v}}
Convs == Groups \cup Pairs

\* The rows that are locked across statements: of groupInfo, of friends and of
\* conversations.
GroupRow(g) == <<"group", g>>
FriendRow(p) == <<"friends", p>>
ConvRow(c) == <<"conversation", c>>
LockedRows == {GroupRow(g) : g \in Groups} \cup {FriendRow(p) : p \in Pairs}
                  \cup {ConvRow(c) : c \in Convs}

ASSUME TablesConstants == NoOp \notin Ops /\ \A g \in Groups, p \in Pairs : g # p

VARIABLES
    latest,       \* conversations.latestSeq
    joined,       \* conversationUserStates.joinedSeq, 0 when there is no row
    delivered,    \* conversationUserStates.deliveredSeq
    readTo,       \* conversationUserStates.readSeq
    lock          \* the request whose transaction holds a row

tables == <<latest, joined, delivered, readTo>>

\* Stages between "new" and "done": between the INSERTs of an application
\* ("first"), in the transaction of a friendship ("befriending"), before and
\* between the UPDATEs of a reply ("mark", "marked"), in the transaction of a
\* group ("locked") and of a receipt ("acking").
\* A request that waits is not on the connection.
Waiting == {"new", "mark"}

TablesInit ==
    /\ latest = [c \in Convs |-> 0]
    /\ joined = [c \in Convs |-> [u \in Users |-> 0]]
    /\ delivered = [c \in Convs |-> [u \in Users |-> 0]]
    /\ readTo = [c \in Convs |-> [u \in Users |-> 0]]
    /\ lock = [k \in LockedRows |-> NoOp]
    /\ RequestInit

\* As it would be if a request that fails kept the connection's slot.
SlotKept(o) ==
    \A p \in Ops : Shard[p] = Shard[o] => stage[p] \in Waiting \cup {"done"} /\ p \notin lost

\* driver::execute: the shard's connection is free.
SlotFree(o) ==
    \A p \in Ops : Shard[p] = Shard[o] /\ p \notin lost => stage[p] \in Waiting \cup {"done"}

Begins(o) == stage[o] = "new" /\ SlotFree(o)

\* The transaction takes the rows K, which it must wait for, or ends and gives
\* up all it has.
Free(o, K) == \A k \in K : lock[k] \in {NoOp, o}
Take(o, K) == lock' = [k \in LockedRows |-> IF k \in K THEN o ELSE lock[k]]
Release(o) == lock' = [k \in LockedRows |-> IF lock[k] = o THEN NoOp ELSE lock[k]]

\* INSERT and DELETE of the row (c, u) of conversationUserStates; a new row has
\* no position yet.
States(c, seqs) ==
    /\ joined' = [joined EXCEPT ![c] = seqs]
    /\ delivered' = [delivered EXCEPT ![c] = [u \in Users |-> IF seqs[u] = joined[c][u] THEN @[u] ELSE 0]]
    /\ readTo' = [readTo EXCEPT ![c] = [u \in Users |-> IF seqs[u] = joined[c][u] THEN @[u] ELSE 0]]

\* A call of driver::execute fails: the connection is dropped.
Abort(o) == GiveUp(o, Waiting) /\ UNCHANGED <<tables, lock>>

\* The server ends the transaction of a closed connection.
Rollback(o) == Drop(o) /\ Release(o) /\ UNCHANGED tables

=============================================================================
