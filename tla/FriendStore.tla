----------------------------- MODULE FriendStore -----------------------------
(***************************************************************************)
(* Friend applications and friendships of message/transaction/friends.cc   *)
(* and message/io/mysql_store.cc.  An application is stored twice, once    *)
(* under each of its users, by two statements that commit by themselves; a *)
(* reply creates the friendship in one transaction and then marks the two  *)
(* copies, again by two statements.                                        *)
(***************************************************************************)
EXTENDS ConversationTables

VARIABLES
    apps,         \* friendApplys.status under (fromUid, toUid): "none" without a
                  \* row, "wait", "agree", "refuse"
    friends,      \* friends: the pairs that have a row
    overlapped    \* history: the pairs on which two operations were between
                  \* their two statements at once, or one was given up

friendVars == <<apps, friends, overlapped>>

Couples == {c \in Users \X Users : c[1] # c[2]}

PairOf(o) == {Op[o].actor, Op[o].target}
\* The copies in the order the two statements write them.
FirstCopy(o) == <<Op[o].actor, Op[o].target>>
SecondCopy(o) == <<Op[o].target, Op[o].actor>>

FriendKinds == {"befriend", "accept", "refuse"}
FriendOps == {o \in Ops : Op[o].kind \in FriendKinds}
ASSUME FriendConstants == \A o \in FriendOps : PairOf(o) \in Pairs

Between == {"first", "marked"}
Verdict(o) == IF Op[o].kind = "accept" THEN "agree" ELSE "refuse"

FriendInit ==
    /\ apps = [k \in Couples |-> "none"]
    /\ friends = {} /\ overlapped = {}

\* Records that another request is between its statements on the same pair.
NoteOverlap(o) ==
    overlapped' = IF \E p \in FriendOps \ {o} : PairOf(p) = PairOf(o) /\ stage[p] \in Between
                  THEN overlapped \cup {PairOf(o)} ELSE overlapped

\* friends::apply and the first INSERT of insert_friend_apply; the primary key
\* (fromUid, toUid) refuses a second application for ever.
StoreApplication(o) ==
    /\ Op[o].kind = "befriend" /\ Begins(o)
    /\ IF apps[FirstCopy(o)] = "none"
       THEN /\ apps' = [apps EXCEPT ![FirstCopy(o)] = "wait"]
            /\ Goto(o, "first") /\ UNCHANGED answer
       ELSE End(o, "failed") /\ UNCHANGED apps
    /\ NoteOverlap(o)
    /\ UNCHANGED <<tables, lock, lost, faults, friends>>

\* The second INSERT and the answer.
StoreSecondCopy(o) ==
    /\ Op[o].kind = "befriend" /\ stage[o] = "first"
    /\ IF apps[SecondCopy(o)] = "none"
       THEN apps' = [apps EXCEPT ![SecondCopy(o)] = "wait"] /\ End(o, "success")
       ELSE End(o, "failed") /\ UNCHANGED apps
    /\ UNCHANGED <<tables, lock, lost, faults, friends, overlapped>>

\* friends::store_reply for an acceptance: the transaction of insert_friend
\* opens; its INSERT waits for another one of the same pair and fails on the
\* key uk_friends_pair once that has committed.
OpenFriendship(o) ==
    /\ Op[o].kind = "accept" /\ Begins(o)
    /\ Free(o, {FriendRow(PairOf(o))})
    /\ IF PairOf(o) \in friends
       THEN End(o, "failed") /\ UNCHANGED lock
       ELSE /\ Take(o, {FriendRow(PairOf(o))})
            /\ Goto(o, "befriending") /\ UNCHANGED answer
    /\ UNCHANGED <<tables, lost, faults, friendVars>>

\* COMMIT of insert_friend: the friendship, its conversation and the state of
\* both users.
CommitFriendship(o) ==
    /\ Op[o].kind = "accept" /\ stage[o] = "befriending"
    /\ friends' = friends \cup {PairOf(o)}
    /\ States(PairOf(o), [u \in Users |-> IF u \in PairOf(o) THEN 1 ELSE 0])
    /\ Release(o) /\ Goto(o, "mark")
    /\ UNCHANGED <<latest, lost, answer, faults, apps, overlapped>>

\* The first UPDATE of update_friend_apply_status, a store operation of its
\* own after insert_friend and the only one of a refusal.  Whether there is
\* an application is not asked.
MarkFirstCopy(o) ==
    /\ \/ Op[o].kind = "accept" /\ stage[o] = "mark" /\ SlotFree(o)
       \/ Op[o].kind = "refuse" /\ Begins(o)
    /\ apps' = [apps EXCEPT ![FirstCopy(o)] = IF @ = "none" THEN @ ELSE Verdict(o)]
    /\ Goto(o, "marked") /\ NoteOverlap(o)
    /\ UNCHANGED <<tables, lock, lost, answer, faults, friends>>

\* As it would be if the second statement repeated the first one's key.
MarkFirstCopyTwice(o) ==
    /\ Op[o].kind \in {"accept", "refuse"} /\ stage[o] = "marked"
    /\ apps' = [apps EXCEPT ![FirstCopy(o)] = IF @ = "none" THEN @ ELSE Verdict(o)]
    /\ End(o, "success")
    /\ UNCHANGED <<tables, lock, lost, faults, friends, overlapped>>

\* The second UPDATE and the answer.
MarkSecondCopy(o) ==
    /\ Op[o].kind \in {"accept", "refuse"} /\ stage[o] = "marked"
    /\ apps' = [apps EXCEPT ![SecondCopy(o)] = IF @ = "none" THEN @ ELSE Verdict(o)]
    /\ End(o, "success")
    /\ UNCHANGED <<tables, lock, lost, faults, friends, overlapped>>

\* A request that fails between its statements leaves one of them undone.
FriendGiveUp(o) ==
    /\ o \in FriendOps /\ Abort(o)
    /\ overlapped' = IF stage[o] \in Between THEN overlapped \cup {PairOf(o)} ELSE overlapped
    /\ UNCHANGED <<apps, friends>>

\* get_friend_apply_list: the waiting rows with this fromUid.
WaitingRows(u) == {k \in Couples : k[1] = u /\ apps[k] = "wait"}

\* friends::pull_applications: the users it names to user u as applicants.
PulledApplicants(u) == {k[1] : k \in WaitingRows(u)}

FriendStep(o) ==
    \/ StoreApplication(o) \/ StoreSecondCopy(o)
    \/ OpenFriendship(o) \/ CommitFriendship(o)
    \/ MarkFirstCopy(o) \/ MarkSecondCopy(o)

(* Properties *)

\* The two copies of an application, written by statements that commit one by
\* one, are the same whenever no request is between them, unless some request
\* was given up there or two of them were there at once: crossing applications
\* and replies from two shards split the copies, nothing else does.
SplitOnlyByOverlap ==
    \A p \in Pairs : p \notin overlapped
        /\ (\A o \in FriendOps : PairOf(o) = p => stage[o] \notin Between)
        => \A u, v \in p : u # v => apps[<<u, v>>] = apps[<<v, u>>]

\* tcp_message.proto says that the pulled list holds the applications the user
\* received and that its field from is the user who applied: whoever a pull
\* names has sent this user an application.
PulledNamesApplicant ==
    \A u \in Users : \A v \in PulledApplicants(u) :
        \E o \in FriendOps : Op[o].kind = "befriend" /\ FirstCopy(o) = <<v, u>>

=============================================================================
