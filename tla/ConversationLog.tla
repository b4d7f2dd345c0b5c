--------------------------- MODULE ConversationLog ---------------------------
(***************************************************************************)
(* What the message store (message/io/mysql_store.cc) promises to the      *)
(* clients, without transactions, locks and snapshots: a conversation is a *)
(* log to which every command is appended at most once, under a key that   *)
(* is used once in all logs.  A command hears the number of its own        *)
(* message, or that the key belongs to something else, or nothing          *)
(* certain: then the message may still be appended later.  A client that   *)
(* pulls has the log from where it joined, without a gap.                  *)
(***************************************************************************)
EXTENDS Integers, Sequences

CONSTANTS
    Sends,        \* the commands, retries included
    Key,          \* Key[a]: (senderId, clientMessageId)
    Conv,         \* Conv[a]: the conversation of a
    Content,      \* Content[a]: what a wants to be stored
    Convs,
    Readers,
    Reads,        \* Reads[r]: the conversation of r
    PageSize      \* the limit of a pull

VARIABLES
    log,          \* log[v]: the messages of v; the number of one is its place
    answer,       \* what each command has heard
    number,       \* the number in a successful answer, 0 in the others
    first,        \* first[r]: the first number r may see, 0 if r is no member
    received      \* received[r]: the messages r has pulled

vars == <<log, answer, number, first, received>>

Message(a) == [key |-> Key[a], content |-> Content[a]]

Init ==
    /\ log = [v \in Convs |-> << >>]
    /\ answer = [a \in Sends |-> "none"] /\ number = [a \in Sends |-> 0]
    /\ first \in [Readers -> {0, 1}] /\ received = [r \in Readers |-> << >>]

\* The message of a is the next one of its conversation.  No log has its key.
Add(a) ==
    /\ \A v \in Convs : \A n \in DOMAIN log[v] : log[v][n].key # Key[a]
    /\ log' = [log EXCEPT ![Conv[a]] = Append(@, Message(a))]

Hear(a, result, n) ==
    /\ answer[a] = "none" /\ answer' = [answer EXCEPT ![a] = result]
    /\ number' = [number EXCEPT ![a] = n]
    /\ UNCHANGED <<first, received>>

Accept(a) == Add(a) /\ Hear(a, "accepted", Len(log[Conv[a]]) + 1)

\* A retry: the message is in the log.
Repeat(a) ==
    /\ \E n \in DOMAIN log[Conv[a]] : log[Conv[a]][n] = Message(a) /\ Hear(a, "duplicate", n)
    /\ UNCHANGED log

\* The key was used for something else.
Conflict(a) ==
    /\ \E v \in Convs : \E n \in DOMAIN log[v] :
          log[v][n].key = Key[a] /\ (v # Conv[a] \/ log[v][n] # Message(a))
    /\ Hear(a, "conflict", 0) /\ UNCHANGED log

Decline(a) == (Hear(a, "refused", 0) \/ Hear(a, "failed", 0)) /\ UNCHANGED log

\* The command was carried out although its sender heard of a failure.
AddLate(a) ==
    /\ answer[a] = "failed" /\ Add(a)
    /\ UNCHANGED <<answer, number, first, received>>

\* A member sees what is appended from then on.
Join(r) ==
    /\ first[r] = 0
    /\ first' = [first EXCEPT ![r] = Len(log[Reads[r]]) + 1]
    /\ UNCHANGED <<log, answer, number, received>>

\* A page: r has the log up to n.
Pull(r) ==
    /\ first[r] # 0
    /\ \E n \in 0..PageSize :
          LET upTo == first[r] + Len(received[r]) + n - 1
          IN  /\ upTo <= Len(log[Reads[r]])
              /\ received' = [received EXCEPT ![r] = SubSeq(log[Reads[r]], first[r], upTo)]
    /\ UNCHANGED <<log, answer, number, first>>

Next ==
    \/ \E a \in Sends : Accept(a) \/ Repeat(a) \/ Conflict(a) \/ Decline(a) \/ AddLate(a)
    \/ \E r \in Readers : Join(r) \/ Pull(r)

Spec == Init /\ [][Next]_vars
=============================================================================
