------------------------------ MODULE GroupStore ------------------------------
(***************************************************************************)
(* Groups: creation, applications, replies, leaving and removal of         *)
(* message/transaction/groups.cc with the transactions of                  *)
(* message/io/mysql_store.cc.  Every one of them begins by locking the row *)
(* of the group (SELECT ... FOR UPDATE), reads what it needs to decide,    *)
(* and then writes and commits.                                            *)
(***************************************************************************)
EXTENDS ConversationTables

CONSTANT NoUser

VARIABLES
    master,       \* groupInfo.masterUid, NoUser when there is no row
    members,      \* groupMembers
    applies,      \* groupApplys
    asked,        \* history: applications stored, per group and user
    notices       \* the users a request sent a push to

groupVars == <<master, members, applies, asked, notices>>

GroupKinds == {"create", "join", "admit", "reject", "quit", "kick"}
GroupOps == {o \in Ops : Op[o].kind \in GroupKinds}

\* Who leaves is the one who asks; a group has a fresh id and is created once.
ASSUME GroupConstants ==
    /\ NoUser \notin Users
    /\ \A o \in GroupOps :
          /\ Op[o].actor \in Users /\ Op[o].target \in Users /\ Op[o].group \in Groups
          /\ Op[o].kind = "quit" => Op[o].target = Op[o].actor
    /\ \A o, p \in GroupOps :
          Op[o].kind = "create" /\ Op[p].kind = "create" /\ Op[o].group = Op[p].group => o = p

GroupInit ==
    /\ master = [g \in Groups |-> NoUser]
    /\ members = [g \in Groups |-> {}]
    /\ applies = [g \in Groups |-> {}]
    /\ asked = [g \in Groups |-> [u \in Users |-> 0]]
    /\ notices = [o \in GroupOps |-> {}]

\* notify_application, notify_change: pushes are staged with the answer and go
\* out after it, so only a request that succeeds sends any.
Notify(o, recipients) ==
    notices' = [notices EXCEPT ![o] = IF o \in lost THEN @ ELSE recipients]

\* As it would be if the SELECTs were not FOR UPDATE.
OpenWithoutLock(o, allowed) ==
    /\ Begins(o)
    /\ IF allowed
       THEN Goto(o, "locked") /\ UNCHANGED answer
       ELSE End(o, "refused")
    /\ UNCHANGED <<tables, lock, lost, faults, groupVars>>

\* START TRANSACTION, the lock on the group and the checks under it, with the
\* ROLLBACK branches (GroupNotExists, GroupAlreadyExists, NotFound and
\* MessageOwnershipInvalid) as one refusal.
OpenGroup(o, allowed) ==
    /\ Begins(o)
    /\ Free(o, {GroupRow(Op[o].group)})
    /\ IF allowed
       THEN Take(o, {GroupRow(Op[o].group)}) /\ Goto(o, "locked") /\ UNCHANGED answer
       ELSE End(o, "refused") /\ UNCHANGED lock
    /\ UNCHANGED <<tables, lost, faults, groupVars>>

Exists(g) == master[g] # NoUser

\* The handlers up to the end of the checks.  A new group has fresh ids.
Create(o) == Op[o].kind = "create" /\ OpenGroup(o, TRUE)

Apply(o) ==
    LET g == Op[o].group IN
    Op[o].kind = "join" /\ OpenGroup(o, Exists(g) /\ Op[o].actor \notin members[g])

Reply(o) ==
    LET g == Op[o].group IN
    /\ Op[o].kind \in {"admit", "reject"}
    /\ OpenGroup(o, Exists(g) /\ Op[o].actor = master[g] /\ Op[o].target \in applies[g])

\* remove_group_member of the actor.
Quit(o) ==
    LET g == Op[o].group IN
    Op[o].kind = "quit" /\ OpenGroup(o, Exists(g) /\ Op[o].actor \in members[g])

\* remove_group_member of somebody else, for the master only.
Kick(o) ==
    LET g == Op[o].group IN
    /\ Op[o].kind = "kick"
    /\ OpenGroup(o, /\ Exists(g) /\ Op[o].actor = master[g]
                    /\ Op[o].target # Op[o].actor /\ Op[o].target \in members[g])

\* The writes of a request and its COMMIT.
Commits(o, kinds) ==
    /\ stage[o] = "locked" /\ Op[o].kind \in kinds
    /\ Release(o) /\ End(o, "success")
    /\ UNCHANGED <<latest, lost, faults>>

\* The rows of conversationUserStates that the request changes are not in the
\* hands of a receipt.
StatesFree(o) == Free(o, {ConvRow(Op[o].group)})

\* create_group: the group, its conversation and the master's membership.
CreateGroup(o) ==
    LET g == Op[o].group IN
    /\ Commits(o, {"create"})
    /\ master' = [master EXCEPT ![g] = Op[o].actor]
    /\ members' = [members EXCEPT ![g] = {Op[o].actor}]
    /\ States(g, [u \in Users |-> IF u = Op[o].actor THEN 1 ELSE 0])
    /\ UNCHANGED <<applies, asked, notices>>

\* request_group_join: INSERT IGNORE, and a push to the master for a new row.
RequestJoin(o) ==
    LET g == Op[o].group  new == Op[o].actor \notin applies[g] IN
    /\ Commits(o, {"join"})
    /\ applies' = [applies EXCEPT ![g] = @ \cup {Op[o].actor}]
    /\ asked' = [asked EXCEPT ![g][Op[o].actor] = @ + IF new THEN 1 ELSE 0]
    /\ Notify(o, IF new THEN {master[g]} ELSE {})
    /\ UNCHANGED <<joined, delivered, readTo, master, members>>

\* reply_group_join with accept: the applicant becomes a member who sees what
\* is sent from now on; every member hears of it, the new one included.
AdmitMember(o) ==
    LET g == Op[o].group  t == Op[o].target IN
    /\ Commits(o, {"admit"}) /\ StatesFree(o)
    /\ applies' = [applies EXCEPT ![g] = @ \ {t}]
    /\ members' = [members EXCEPT ![g] = @ \cup {t}]
    /\ States(g, [joined[g] EXCEPT ![t] = latest[g] + 1])
    /\ Notify(o, members[g] \cup {t})
    /\ UNCHANGED <<master, asked>>

\* reply_group_join without accept: only the applicant hears of it.
RejectApplicant(o) ==
    /\ Commits(o, {"reject"})
    /\ applies' = [applies EXCEPT ![Op[o].group] = @ \ {Op[o].target}]
    /\ Notify(o, {Op[o].target})
    /\ UNCHANGED <<joined, delivered, readTo, master, members, asked>>

\* As it would be if a dissolved group kept its applications.
DissolveKeepingApplies(o) ==
    LET g == Op[o].group IN
    /\ Commits(o, {"quit"}) /\ StatesFree(o)
    /\ Op[o].actor = master[g]
    /\ master' = [master EXCEPT ![g] = NoUser]
    /\ members' = [members EXCEPT ![g] = {}]
    /\ States(g, [u \in Users |-> 0])
    /\ Notify(o, members[g])
    /\ UNCHANGED <<applies, asked>>

\* remove_group_member when the master leaves: the group is dissolved.  Its
\* conversation, messages and device states stay.
DissolveGroup(o) ==
    LET g == Op[o].group IN
    /\ Commits(o, {"quit"}) /\ StatesFree(o)
    /\ Op[o].actor = master[g]
    /\ master' = [master EXCEPT ![g] = NoUser]
    /\ members' = [members EXCEPT ![g] = {}]
    /\ applies' = [applies EXCEPT ![g] = {}]
    /\ States(g, [u \in Users |-> 0])
    /\ Notify(o, members[g])
    /\ UNCHANGED asked

\* remove_group_member of somebody else, who left or was removed: all the
\* members there were hear of it.
RemoveMember(o) ==
    LET g == Op[o].group  t == Op[o].target IN
    /\ Commits(o, {"quit", "kick"}) /\ StatesFree(o)
    /\ t # master[g]
    /\ members' = [members EXCEPT ![g] = @ \ {t}]
    /\ States(g, [joined[g] EXCEPT ![t] = 0])
    /\ Notify(o, members[g])
    /\ UNCHANGED <<master, applies, asked>>

GroupStep(o) ==
    \/ Create(o) \/ Apply(o) \/ Reply(o) \/ Quit(o) \/ Kick(o)
    \/ CreateGroup(o) \/ RequestJoin(o) \/ AdmitMember(o) \/ RejectApplicant(o)
    \/ DissolveGroup(o) \/ RemoveMember(o)

(* Properties *)

\* The four tables of a group agree after every commit, whatever requests of
\* the master and of others ran together: the master is a member, the members
\* are the users with a conversation state, nobody is both member and
\* applicant, and a group that does not exist has none of them.
RosterIntact ==
    \A g \in Groups :
        /\ members[g] = {u \in Users : joined[g][u] # 0}
        /\ members[g] \cap applies[g] = {}
        /\ IF master[g] = NoUser THEN members[g] \cup applies[g] = {}
                                 ELSE master[g] \in members[g]

\* An application is answered at most once: replies to the same applicant that
\* succeed, with the application that is still waiting, are never more than
\* the applications that were stored.  Two replies sent at once from two
\* devices of the master do not both succeed.
AnsweredOnce ==
    \A g \in Groups, u \in Users :
        Cardinality({o \in GroupOps : /\ Op[o].kind \in {"admit", "reject"}
                                      /\ Op[o].group = g /\ Op[o].target = u
                                      /\ answer[o] = "success"})
            + (IF u \in applies[g] THEN 1 ELSE 0) <= asked[g][u]

=============================================================================
