----------------------------- MODULE ReceiptStore -----------------------------
(***************************************************************************)
(* Delivery and read receipts: messages::acknowledge and the transaction   *)
(* acknowledge_conversation_message, which locks the message, its          *)
(* conversation and the user's state, advances the positions of the user   *)
(* and of the device, and reports a first reading to the sender.  Messages *)
(* are stored in one step here; MessageStore has their transactions.       *)
(***************************************************************************)
EXTENDS ConversationTables

CONSTANTS
    Messages,     \* the messages that may be sent
    Msg,          \* Msg[m]: sender and conversation
    Devices       \* Op[o].device of a receipt

VARIABLES
    seqOf,        \* messages.conversationSeq, 0 when not stored
    status,       \* messages.status: 1 sent, 2 delivered, 3 read
    persisted,    \* conversationDeviceStates.persistedSeq
    turned,       \* readStateChanged, as the running receipts found it
    reports,      \* read receipts pushed to the sender, per message
    silent        \* history: the messages that were turned to READ by a
                  \* receipt whose answer was lost

receiptVars == <<seqOf, status, persisted, turned, reports, silent>>

SENT == 1
DELIVERED == 2
READ == 3

ReceiptKinds == {"delivered", "read"}
ReceiptOps == {o \in Ops : Op[o].kind \in ReceiptKinds}
ConvOf(o) == Msg[Op[o].message].conv
ASSUME ReceiptConstants ==
    /\ \A m \in Messages : Msg[m].conv \in Convs /\ Msg[m].sender \in Users
    /\ \A o \in ReceiptOps :
          Op[o].message \in Messages /\ Op[o].actor \in Users /\ Op[o].device \in Devices

NewStatus(o) == IF Op[o].kind = "read" THEN READ ELSE DELIVERED

\* The receipt is of the recipient of a direct message; a group message has no
\* status of its own.
DirectRecipient(o) ==
    ConvOf(o) \notin Groups /\ Op[o].actor # Msg[Op[o].message].sender

ReceiptInit ==
    /\ seqOf = [m \in Messages |-> 0]
    /\ status = [m \in Messages |-> SENT]
    /\ persisted = [c \in Convs |-> [d \in Devices |-> 0]]
    /\ turned = {}
    /\ reports = [m \in Messages |-> 0] /\ silent = {}

\* A send is accepted: the next number of the conversation, under the locks of
\* the group and of the conversation, from a sender who belongs to it.
\* MessageStore has its statements; here it is one step, so the order in which it
\* and a receipt lock the rows of conversation and state is not seen.
StoreMessage(m) ==
    LET c == Msg[m].conv IN
    /\ seqOf[m] = 0 /\ joined[c][Msg[m].sender] # 0
    /\ lock[ConvRow(c)] = NoOp
    /\ c \in Groups => lock[GroupRow(c)] = NoOp
    /\ latest' = [latest EXCEPT ![c] = @ + 1]
    /\ seqOf' = [seqOf EXCEPT ![m] = latest[c] + 1]
    /\ UNCHANGED <<joined, delivered, readTo, lock, requestVars, status, persisted, turned, reports, silent>>

\* As it would be if the SELECT were not FOR UPDATE.
OpenReceiptWithoutLock(o) ==
    LET m == Op[o].message IN
    /\ o \in ReceiptOps /\ Begins(o)
    /\ IF seqOf[m] # 0 /\ joined[ConvOf(o)][Op[o].actor] # 0
       THEN /\ turned' = IF DirectRecipient(o) /\ NewStatus(o) = READ /\ status[m] < READ
                         THEN turned \cup {o} ELSE turned
            /\ Goto(o, "acking") /\ UNCHANGED answer
       ELSE End(o, "refused") /\ UNCHANGED turned
    /\ UNCHANGED <<tables, lock, lost, faults, seqOf, status, persisted, reports, silent>>

\* START TRANSACTION and the SELECT ... FOR UPDATE: the message is one of a
\* conversation the user has a state of; whether this receipt turns it to READ
\* is decided here.
OpenReceipt(o) ==
    LET m == Op[o].message IN
    /\ o \in ReceiptOps /\ Begins(o)
    /\ Free(o, {ConvRow(ConvOf(o))})
    /\ IF seqOf[m] # 0 /\ joined[ConvOf(o)][Op[o].actor] # 0
       THEN /\ turned' = IF DirectRecipient(o) /\ NewStatus(o) = READ /\ status[m] < READ
                         THEN turned \cup {o} ELSE turned
            /\ Take(o, {ConvRow(ConvOf(o))}) /\ Goto(o, "acking") /\ UNCHANGED answer
       ELSE End(o, "refused") /\ UNCHANGED <<lock, turned>>
    /\ UNCHANGED <<tables, lost, faults, seqOf, status, persisted, reports, silent>>

\* GREATEST(old, new) of the UPDATEs.
Greatest(old, new) == Max({old, new})

\* As it would be if a position were overwritten by the receipt that comes last.
Overwrite(old, new) == new

\* A position moves to a receipt's number, unless it is past it.
Advance(old, new) == Greatest(old, new)

\* service::acknowledge stages the read receipt for the sender, when this
\* receipt turned the message and its answer is a success.
Report(o) ==
    /\ reports' = IF o \in turned \ lost THEN [reports EXCEPT ![Op[o].message] = @ + 1] ELSE reports
    /\ silent' = IF o \in turned \cap lost THEN silent \cup {Op[o].message} ELSE silent

\* The UPDATEs, the COMMIT and the answer.
CommitReceipt(o) ==
    LET m == Op[o].message  c == ConvOf(o)  u == Op[o].actor IN
    /\ o \in ReceiptOps /\ stage[o] = "acking"
    /\ status' = IF DirectRecipient(o)
                 THEN [status EXCEPT ![m] = Greatest(@, NewStatus(o))] ELSE status
    /\ delivered' = [delivered EXCEPT ![c][u] = Advance(@, seqOf[m])]
    /\ readTo' = [readTo EXCEPT ![c][u] = IF NewStatus(o) = READ THEN Advance(@, seqOf[m]) ELSE @]
    /\ persisted' = [persisted EXCEPT ![c][Op[o].device] = Advance(@, seqOf[m])]
    /\ Report(o) /\ turned' = turned \ {o}
    /\ Release(o) /\ End(o, "success")
    /\ UNCHANGED <<latest, joined, lost, faults, seqOf>>

ReceiptStep(o) == OpenReceipt(o) \/ CommitReceipt(o)

(* Properties *)

\* The sender of a direct message hears that it was read at most once, and only
\* when it is stored as read and lies within what the recipient has read;
\* and the message that is stored as read was reported, unless the one receipt
\* that turned it, and no other, lost its answer: then the sender never hears.
\* Receipts of two devices of the recipient race.
ReadReportedOnce ==
    \A m \in Messages :
        /\ reports[m] <= 1
        /\ status[m] = READ <=> reports[m] = 1 \/ m \in silent
        /\ m \in silent =>
              reports[m] = 0 /\ \E o \in ReceiptOps : Op[o].message = m /\ answer[o] = "failed"
        /\ status[m] = READ =>
              readTo[Msg[m].conv][CHOOSE u \in Msg[m].conv : u # Msg[m].sender] >= seqOf[m]

\* Receipts that arrive late or out of order, from any device and at any
\* shard, never move a position back: while a user stays in a conversation the
\* delivered and the read position only grow, a device's position and a
\* message's status always do, and nothing is read that is not delivered or
\* delivered that is not sent.
PositionsOnlyGrow ==
    [][/\ \A c \in Convs, u \in Users :
             /\ joined[c][u] # 0 /\ joined'[c][u] # 0 =>
                   delivered'[c][u] >= delivered[c][u] /\ readTo'[c][u] >= readTo[c][u]
             /\ readTo'[c][u] <= delivered'[c][u] /\ delivered'[c][u] <= latest'[c]
       /\ \A c \in Convs, d \in Devices : persisted'[c][d] >= persisted[c][d]
       /\ \A m \in Messages : status'[m] >= status[m]]_<<tables, receiptVars>>

=============================================================================
