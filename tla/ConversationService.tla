-------------------------- MODULE ConversationService --------------------------
(***************************************************************************)
(* Friends, groups and receipts together, on the tables they share: the    *)
(* conversation a friendship or a group creates is the one receipts are    *)
(* about, and leaving a group takes the positions in it away.              *)
(***************************************************************************)
EXTENDS FriendStore, GroupStore, ReceiptStore

vars == <<tables, lock, requestVars, friendVars, groupVars, receiptVars>>

Init == TablesInit /\ FriendInit /\ GroupInit /\ ReceiptInit

Step(o) ==
    \/ FriendStep(o) /\ UNCHANGED <<groupVars, receiptVars>>
    \/ GroupStep(o) /\ UNCHANGED <<friendVars, receiptVars>>
    \/ ReceiptStep(o) /\ UNCHANGED <<friendVars, groupVars>>

Settle(o) == Rollback(o) /\ UNCHANGED <<friendVars, groupVars, receiptVars>>

Fault(o) ==
    \/ FriendGiveUp(o) /\ UNCHANGED <<groupVars, receiptVars>>
    \/ o \notin FriendOps /\ Abort(o) /\ UNCHANGED <<friendVars, groupVars, receiptVars>>

Next ==
    \/ \E o \in Ops : Step(o) \/ Settle(o) \/ Fault(o)
    \/ \E m \in Messages : StoreMessage(m) /\ UNCHANGED <<friendVars, groupVars>>

\* While some call can return, or the server can end the transaction of a
\* closed connection, one of these happens.
Unfinished == {o \in Ops : stage[o] # "done"}
Fairness == WF_vars(\E o \in Unfinished : Step(o) \/ Settle(o))

Spec == Init /\ [][Next]_vars /\ Fairness

(* Properties *)

\* Every request that began ends, so that with finitely many requests there is
\* always again a time when none is under way: the locks on the group, the
\* conversation and the friendship are taken in an order in which nobody waits
\* for ever, and those of a connection that was given up are released.
RequestsEnd == []<>(\A o \in Ops : stage[o] \in {"new", "done"})

=============================================================================
