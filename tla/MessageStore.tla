---------------------------- MODULE MessageStore ----------------------------
(***************************************************************************)
(* message/io/mysql_store.cc: how messages get into a conversation         *)
(* (accept_direct_text, accept_group_message) and out of it again          *)
(* (sync_conversation).  Every shard of every Message node runs one        *)
(* transaction at a time on its own MySQL connection, so the transactions  *)
(* of several shards interleave statement by statement.                    *)
(*                                                                         *)
(* The database is InnoDB at its default level, REPEATABLE READ: a plain   *)
(* SELECT reads the snapshot taken by the first plain SELECT of the        *)
(* transaction, SELECT ... FOR UPDATE reads and locks what is committed,   *)
(* and INSERT checks the unique keys against what is committed, waiting    *)
(* for an uncommitted row with the same key.                               *)
(***************************************************************************)
EXTENDS Integers, FiniteSets, FiniteSetsExt

CONSTANTS
    Sends,        \* the send commands that reach a shard, retries included
    Key,          \* Key[a]: (senderId, clientMessageId)
    Conv,         \* Conv[a]: the conversation the command addresses
    Content,      \* Content[a]: receiver, type and text
    Shard,        \* Shard[a]: the shard that executes the command
    Convs,
    Groups,       \* the conversations that belong to a group
    Readers,      \* the clients that pull history
    Reads,        \* Reads[r]: the conversation of reader r
    PageSize,     \* the limit of a pull
    NoSend,
    Loads,        \* the sets of sends and readers that may come together
    MaxFaults     \* bound on failed calls

ASSUME StoreConstants ==
    /\ Conv \in [Sends -> Convs] /\ Groups \subseteq Convs
    /\ Reads \in [Readers -> Convs]
    /\ PageSize \in Nat \ {0} /\ MaxFaults \in Nat
    /\ NoSend \notin Sends /\ Loads \subseteq SUBSET (Sends \cup Readers)

VARIABLES
    rows,         \* the committed rows of messages
    latest,       \* committed conversations.latestSeq
    lock,         \* the send whose transaction holds the conversation's rows
    inserted,     \* the sends with an uncommitted row of messages
    stage,        \* how far the coroutine of each send is
    view,         \* the row with the send's key in its snapshot, as a set
    seq,          \* accepted.conversationSeq
    result,       \* how the send was answered: "none" yet, "accepted", "duplicate",
                  \* "refused", "conflict" or "failed"
    early,        \* history: the sends whose key was stored when they began
    collided,     \* history: the sends refused by the unique key
    joined,       \* joinedSeq of each reader, 0 when the reader is not a member
    pulling,      \* the readers between the two statements of a pull
    bound,        \* sync.latestSeq of each reader
    cursor,       \* the after_seq each reader will pull from next
    more,         \* has_more of each reader's last pull
    fetched,      \* the rows each reader has received
    load,         \* the sends and readers of this behaviour
    faults

tx == <<rows, latest, lock, inserted, view, seq>>
answers == <<result, early, collided>>
reading == <<joined, pulling, bound, cursor, more, fetched, load>>
vars == <<tx, stage, answers, reading, faults>>

Direct(a) == Conv[a] \notin Groups
Row(a) == [key |-> Key[a], conv |-> Conv[a], content |-> Content[a], seq |-> seq[a]]
RowsOf(v) == {m \in rows : m.conv = v}
Stored(k) == {m \in rows : m.key = k}
Running == {"opened", "locked", "fresh", "duplicate", "conflict", "written"}
Succeeded == {"accepted", "duplicate"}

\* Conversations are created with latestSeq 0 (insert_friend, create_group); the
\* two friends of a direct one are in it from the start with joinedSeq 1.
Init ==
    /\ rows = {} /\ latest = [v \in Convs |-> 0]
    /\ lock = [v \in Convs |-> NoSend] /\ inserted = {}
    /\ load \in Loads
    /\ stage = [a \in Sends |-> IF a \in load THEN "new" ELSE "done"]
    /\ view = [a \in Sends |-> {}] /\ seq = [a \in Sends |-> 0]
    /\ result = [a \in Sends |-> "none"] /\ early = {} /\ collided = {}
    /\ joined = [r \in Readers |-> IF Reads[r] \in Groups \/ r \notin load THEN 0 ELSE 1]
    /\ pulling = {} /\ bound = [r \in Readers |-> 0] /\ cursor = [r \in Readers |-> 0]
    /\ more = [r \in Readers |-> TRUE] /\ fetched = [r \in Readers |-> {}]
    /\ faults = 0

-----------------------------------------------------------------------------
(* What the driver and the database do for every transaction.              *)

\* _mysql_slot: a shard runs its next operation when the last one is over,
\* be it answered or given up with its connection.
ShardIdle(a) == \A b \in Sends : Shard[b] = Shard[a] => stage[b] \notin Running

Goto(a, s) == stage' = [stage EXCEPT ![a] = s]
Answer(a, r) == result' = [result EXCEPT ![a] = r]

\* The transaction of a ends on the server: its row locks are free again.
Release(a) ==
    /\ lock' = [v \in Convs |-> IF lock[v] = a THEN NoSend ELSE lock[v]]
    /\ inserted' = inserted \ {a}

\* COMMIT on the server.
Apply(a) ==
    /\ rows' = rows \cup (IF a \in inserted THEN {Row(a)} ELSE {})
    /\ latest' = IF a \in inserted THEN [latest EXCEPT ![Conv[a]] = seq[a]] ELSE latest
    /\ Release(a)

\* The coroutine is over and its locals are gone.
Forget(a, s) ==
    /\ Goto(a, s)
    /\ view' = [view EXCEPT ![a] = {}]

-----------------------------------------------------------------------------
(* accept_direct_text and accept_group_message.                            *)

\* ROLLBACK and an error: no friendship, not a member of the group, or, when a
\* file is sent to a group, no ready file of the sender.
Refuse(a) ==
    /\ \/ stage[a] = "new" /\ ShardIdle(a)
       \/ stage[a] = "opened" /\ ~Direct(a)
    /\ Release(a) /\ Forget(a, "done") /\ Answer(a, "refused")
    /\ UNCHANGED <<rows, latest, seq, early, collided, reading, faults>>

\* START TRANSACTION and the first SELECT.  For a direct message that is a
\* plain SELECT of the friendship, which fixes the snapshot; for a group it
\* locks the group's row and fixes nothing.
Open(a) ==
    /\ stage[a] = "new" /\ ShardIdle(a)
    /\ \/ /\ Direct(a)
          /\ view' = [view EXCEPT ![a] = Stored(Key[a])]
          /\ UNCHANGED lock
       \/ /\ ~Direct(a) /\ lock[Conv[a]] = NoSend
          /\ lock' = [lock EXCEPT ![Conv[a]] = a]
          /\ UNCHANGED view
    /\ early' = IF Stored(Key[a]) # {} THEN early \cup {a} ELSE early
    /\ Goto(a, "opened")
    /\ UNCHANGED <<rows, latest, inserted, seq, result, collided, reading, faults>>

\* SELECT latestSeq ... FOR UPDATE reads what is committed and locks it.
Lock(a) ==
    /\ stage[a] = "opened" /\ lock[Conv[a]] \in {NoSend, a}
    /\ lock' = [lock EXCEPT ![Conv[a]] = a]
    /\ seq' = [seq EXCEPT ![a] = latest[Conv[a]]]
    /\ Goto(a, "locked")
    /\ UNCHANGED <<rows, latest, inserted, view, answers, reading, faults>>

\* As it would be if the group path, too, began with a plain SELECT.
VisibleAtOpen(a) == view[a]

\* The row that the plain SELECT by (senderId, clientMessageId) returns.  In
\* the group path this is the first plain SELECT: its snapshot is now.
Visible(a) == IF Direct(a) THEN view[a] ELSE Stored(Key[a])

\* As it would be if only the newest message were recognised as sent again.
SameCommandAtLatest(a, m) == m.conv = Conv[a] /\ m.content = Content[a] /\ m.seq = latest[Conv[a]]

SameCommand(a, m) == m.conv = Conv[a] /\ m.content = Content[a]

\* The duplicate check and what it decides.
Lookup(a) ==
    /\ stage[a] = "locked"
    /\ \/ /\ Visible(a) = {}
          /\ Goto(a, "fresh") /\ UNCHANGED seq
       \/ \E m \in Visible(a) :
             /\ Goto(a, IF SameCommand(a, m) THEN "duplicate" ELSE "conflict")
             /\ seq' = [seq EXCEPT ![a] = m.seq]
    /\ UNCHANGED <<rows, latest, lock, inserted, view, answers, reading, faults>>

\* As it would be without the ROLLBACK.
RejectConflictOnly(a) ==
    /\ stage[a] = "conflict"
    /\ Forget(a, "done") /\ Answer(a, "conflict")
    /\ UNCHANGED <<rows, latest, lock, inserted, seq, early, collided, reading, faults>>

\* ROLLBACK after a conflict.
RejectConflict(a) ==
    /\ stage[a] = "conflict"
    /\ Release(a) /\ Forget(a, "done") /\ Answer(a, "conflict")
    /\ UNCHANGED <<rows, latest, seq, early, collided, reading, faults>>

\* Another transaction holds an uncommitted row with the same key: the INSERT
\* waits for its end.
KeyBusy(a) == \E b \in inserted : Key[b] = Key[a]

\* As it would be without the key (senderId, clientMessageId).
ClashesOfNumber(a) == {m \in RowsOf(Conv[a]) : m.seq = seq[a] + 1}

\* The committed rows that one of the unique keys of messages holds against the
\* row to insert.
Clashes(a) == Stored(Key[a]) \cup {m \in RowsOf(Conv[a]) : m.seq = seq[a] + 1}

\* As it would be if latestSeq were updated outside the transaction.
WriteAutocommit(a) ==
    /\ stage[a] = "fresh" /\ ~KeyBusy(a) /\ Clashes(a) = {}
    /\ seq' = [seq EXCEPT ![a] = @ + 1]
    /\ latest' = [latest EXCEPT ![Conv[a]] = seq[a] + 1]
    /\ inserted' = inserted \cup {a}
    /\ Goto(a, "written")
    /\ UNCHANGED <<rows, lock, view, answers, reading, faults>>

\* UPDATE latestSeq and INSERT of the row, both visible to this transaction only.
Write(a) ==
    /\ stage[a] = "fresh" /\ ~KeyBusy(a) /\ Clashes(a) = {}
    /\ seq' = [seq EXCEPT ![a] = @ + 1]
    /\ inserted' = inserted \cup {a}
    /\ Goto(a, "written")
    /\ UNCHANGED <<rows, latest, lock, view, answers, reading, faults>>

\* The unique key refuses the INSERT because the row was committed after the
\* snapshot: the exception closes the connection and answers MysqlFailed.
Collide(a) ==
    /\ stage[a] = "fresh" /\ ~KeyBusy(a) /\ Clashes(a) # {}
    /\ Forget(a, "doomed") /\ Answer(a, "failed")
    /\ collided' = collided \cup {a}
    /\ UNCHANGED <<rows, latest, lock, inserted, seq, early, reading, faults>>

\* COMMIT, answered: a new row is forwarded to its recipients, a duplicate is
\* not (should_forward = !duplicate).
Commit(a) ==
    /\ stage[a] \in {"written", "duplicate"}
    /\ Apply(a) /\ Forget(a, "done")
    /\ Answer(a, IF stage[a] = "written" THEN "accepted" ELSE "duplicate")
    /\ UNCHANGED <<seq, early, collided, reading, faults>>

\* A statement or its reply is lost: the connection is given up, the client
\* hears MysqlFailed, and the server keeps the locks until it notices.  If
\* COMMIT was on its way nobody knows whether it will be carried out.
Fail(a) ==
    /\ faults < MaxFaults /\ faults' = faults + 1
    /\ stage[a] \in Running
    /\ \E s \in {"doomed"} \cup (IF stage[a] \in {"written", "duplicate"} THEN {"unsure"} ELSE {}) :
          Forget(a, s)
    /\ Answer(a, "failed")
    /\ UNCHANGED <<rows, latest, lock, inserted, seq, early, collided, reading>>

\* The server ends the transaction of a connection that was given up.
Settle(a) ==
    /\ \/ stage[a] \in {"doomed", "unsure"} /\ Release(a) /\ UNCHANGED <<rows, latest>>
       \/ stage[a] = "unsure" /\ Apply(a)
    /\ Goto(a, "done")
    /\ UNCHANGED <<view, seq, answers, reading, faults>>

-----------------------------------------------------------------------------
(* sync_conversation: two statements, no transaction.                      *)

EffectiveAfter(r) == Max({cursor[r], joined[r] - 1})

\* reply_group_join holds the group's row throughout: the new member sees the
\* messages that are accepted from then on.
Join(r) ==
    /\ r \in load /\ joined[r] = 0 /\ lock[Reads[r]] = NoSend
    /\ joined' = [joined EXCEPT ![r] = latest[Reads[r]] + 1]
    /\ UNCHANGED <<tx, stage, answers, pulling, bound, cursor, more, fetched, load, faults>>

\* The first statement; a client that is no member gets an error instead.
PullOpen(r) ==
    /\ joined[r] # 0 /\ r \notin pulling /\ pulling' = pulling \cup {r}
    /\ bound' = [bound EXCEPT ![r] = latest[Reads[r]]]
    /\ UNCHANGED <<tx, stage, answers, joined, cursor, more, fetched, load, faults>>

\* As it would be with an exclusive upper bound.
SelectedBelow(r, n) ==
    LET found == {m \in RowsOf(Reads[r]) : EffectiveAfter(r) < m.seq /\ m.seq < bound[r]}
    IN  {m \in found : Cardinality({o \in found : o.seq < m.seq}) < n}

\* ORDER BY conversationSeq LIMIT count + 1, over what is committed now.
Selected(r, n) ==
    LET found == {m \in RowsOf(Reads[r]) : EffectiveAfter(r) < m.seq /\ m.seq <= bound[r]}
    IN  {m \in found : Cardinality({o \in found : o.seq < m.seq}) < n}

\* As it would be if a client continued after latest_seq and not after next_seq.
PullRowsToLatest(r) ==
    /\ r \in pulling /\ pulling' = pulling \ {r}
    /\ more' = [more EXCEPT ![r] = Cardinality(Selected(r, PageSize + 1)) > PageSize]
    /\ cursor' = [cursor EXCEPT ![r] = Max({EffectiveAfter(r), bound[r]})]
    /\ fetched' = [fetched EXCEPT ![r] = @ \cup Selected(r, PageSize)]
    /\ UNCHANGED <<tx, stage, answers, joined, bound, load, faults>>

\* The second statement and the answer; the client pulls on from next_seq.
PullRows(r) ==
    LET page == Selected(r, PageSize)
    IN  /\ r \in pulling /\ pulling' = pulling \ {r}
        /\ more' = [more EXCEPT ![r] = Cardinality(Selected(r, PageSize + 1)) > PageSize]
        /\ cursor' = [cursor EXCEPT ![r] = Max({EffectiveAfter(r)} \cup {m.seq : m \in page})]
        /\ fetched' = [fetched EXCEPT ![r] = @ \cup page]
        /\ UNCHANGED <<tx, stage, answers, joined, bound, load, faults>>

-----------------------------------------------------------------------------
Step(a) ==
    \/ Refuse(a) \/ Open(a) \/ Lock(a) \/ Lookup(a) \/ RejectConflict(a)
    \/ Write(a) \/ Collide(a) \/ Commit(a) \/ Settle(a)

Next ==
    \/ \E a \in Sends : Step(a) \/ Fail(a)
    \/ \E r \in Readers : Join(r) \/ PullOpen(r) \/ PullRows(r)

\* MySQL executes the statement a coroutine waits for, unless it waits for a
\* lock, and notices a closed connection; clients keep pulling.
Fairness ==
    /\ \A a \in Sends : WF_vars(Step(a))
    /\ \A r \in Readers : WF_vars(PullOpen(r)) /\ WF_vars(PullRows(r))

SafeSpec == Init /\ [][Next]_vars
Spec == SafeSpec /\ Fairness

-----------------------------------------------------------------------------
\* The committed sequence numbers of a conversation are exactly 1..latestSeq,
\* each used once, whatever transactions were interleaved or given up.
Gapless ==
    \A v \in Convs :
        /\ {m.seq : m \in RowsOf(v)} = 1..latest[v]
        /\ Cardinality(RowsOf(v)) = latest[v]

\* A sender's clientMessageId is stored and forwarded at most once, although
\* the duplicate check may read a snapshot older than the lock it follows.
StoredOnce ==
    /\ \A m, n \in rows : m.key = n.key => m = n
    /\ \A a, b \in Sends :
          result[a] = "accepted" /\ result[b] = "accepted" /\ Key[a] = Key[b] => a = b

\* A successful answer names a durable row with the command's own content, so
\* retries of one command all hear the same sequence number; a command is called
\* a conflict only if its key is stored for another command.
AnswersAgree ==
    \A a \in Sends :
        /\ result[a] \in Succeeded => Row(a) \in rows
        /\ result[a] = "conflict" =>
              \E m \in Stored(Key[a]) : m.conv # Conv[a] \/ m.content # Content[a]

\* A retry that begins after the first attempt is stored never fails on the
\* unique key, and a group message only does so when its key was taken in
\* another conversation: only overlapping attempts can collide.
OnlyOverlapCollides ==
    \A a \in collided :
        /\ a \notin early
        /\ Direct(a) \/ \A m \in Stored(Key[a]) : m.conv # Conv[a]

\* A client that pulls page after page has everything up to its cursor: a row
\* never becomes visible below a cursor that has already passed it.  When a pull
\* says has_more = false the client has reached latest_seq.
PullSkipsNothing ==
    \A r \in Readers :
        /\ fetched[r] = {m \in RowsOf(Reads[r]) : joined[r] <= m.seq /\ m.seq <= cursor[r]}
        /\ r \notin pulling /\ ~more[r] => cursor[r] >= bound[r]

\* Every send that began is answered and ends on the server, and the store comes
\* to rest: waiting for the conversation's row and then for the unique key never
\* locks up.
SendsEnd ==
    (\E a \in Sends : stage[a] = "opened") ~> (\A a \in Sends : stage[a] \in {"new", "done"})

\* A client that keeps pulling catches up with what is committed.
StoredIsPulled ==
    \A r \in Readers : joined[r] # 0 ~> cursor[r] >= latest[Reads[r]]

\* The clients' side of the store: the messages in the order of their numbers,
\* what a send was told, and what a reader has.
MessageAt(S, n) == LET m == CHOOSE m \in S : m.seq = n IN [key |-> m.key, content |-> m.content]
LogOf(v) == [n \in 1..latest[v] |-> MessageAt(RowsOf(v), n)]
NumberOf(a) == IF result[a] \in Succeeded THEN seq[a] ELSE 0
PulledBy(r) ==
    [n \in 1..(IF joined[r] = 0 THEN 0 ELSE EffectiveAfter(r) + 1 - joined[r]) |->
        MessageAt(fetched[r], n + joined[r] - 1)]

Logs == [v \in Convs |-> LogOf(v)]
Numbers == [a \in Sends |-> NumberOf(a)]
Pulled == [r \in Readers |-> PulledBy(r)]

Log == INSTANCE ConversationLog WITH
    log <- Logs, answer <- result, number <- Numbers, first <- joined, received <- Pulled

\* The interleaved transactions of all shards, with their snapshots, duplicate
\* checks, lost answers and late commits, and the pages that clients pull
\* meanwhile, look to the clients like logs that commands are appended to at once.
ImplementsLog == Log!Spec
=============================================================================
