----------------------------- MODULE GroupProofs -----------------------------
(***************************************************************************)
(* Theorems about ConversationService, the groups, friends and receipts of *)
(* Message on the tables they share, for every set of users, groups,       *)
(* requests and shards: the roster of a group stays intact, an application *)
(* to a group is answered once, the copies of one to a user are split only *)
(* by overlap, a read is reported once and positions only grow.  The last  *)
(* part has what the requests' coming to an end rests on.                  *)
(*                                                                         *)
(* A request decides under the lock on a row and writes later.  What makes *)
(* the properties inductive is that what it decided on is still true when  *)
(* it writes.                                                              *)
(***************************************************************************)
EXTENDS ConversationService, FiniteSetTheorems, TLAPS

\* Leaves that are not marked SMTT are for Zenon.
USE ZenonT(90)

Stages == {"new", "first", "befriending", "mark", "marked", "locked", "acking", "done"}
Answers == {"none", "success", "refused", "failed"}

Tables ==
    /\ stage \in [Ops -> Stages] /\ answer \in [Ops -> Answers]
    /\ latest \in [Convs -> Nat] /\ joined \in [Convs -> [Users -> Nat]]
    /\ master \in [Groups -> Users \cup {NoUser}]
    /\ members \in [Groups -> SUBSET Users] /\ applies \in [Groups -> SUBSET Users]
    /\ asked \in [Groups -> [Users -> Nat]]

\* What a request found when it was let through.
Granted(o) ==
    LET g == Op[o].group IN
    /\ Op[o].kind = "join" => master[g] # NoUser /\ Op[o].actor \notin members[g]
    /\ Op[o].kind \in {"admit", "reject"} => master[g] # NoUser /\ Op[o].target \in applies[g]
    /\ Op[o].kind = "kick" => Op[o].target # master[g]

\* A request that was let through holds the group's row, and what it found is
\* still so.
Decided ==
    \A o \in GroupOps : stage[o] = "locked" =>
        lock[GroupRow(Op[o].group)] = o /\ Granted(o)

\* A group does not exist before the request that creates it has ended.
Fresh ==
    \A o \in GroupOps : Op[o].kind = "create" /\ stage[o] # "done" =>
        master[Op[o].group] = NoUser

Inductive == Tables /\ RosterIntact /\ AnsweredOnce /\ Decided /\ Fresh

\* The replies to u in g that succeeded.
Replies(g, u) ==
    {o \in GroupOps : /\ Op[o].kind \in {"admit", "reject"}
                      /\ Op[o].group = g /\ Op[o].target = u
                      /\ answer[o] = "success"}

-----------------------------------------------------------------------------
\* There are finitely many replies, as there are finitely many requests.
LEMMA RepliesFinite ==
    ASSUME NEW g \in Groups, NEW u \in Users
    PROVE  IsFiniteSet(Replies(g, u)) /\ Cardinality(Replies(g, u)) \in Nat
<1>1. Replies(g, u) \subseteq Ops
  BY DEF Replies, GroupOps
<1> QED BY <1>1, RequestConstants, FS_Subset, FS_CardinalityType

\* AnsweredOnce in terms of Replies.
LEMMA AnsweredByReplies ==
    AnsweredOnce <=> \A g \in Groups, u \in Users :
        Cardinality(Replies(g, u)) + (IF u \in applies[g] THEN 1 ELSE 0) <= asked[g][u]
BY DEF AnsweredOnce, Replies

\* A reply that is not answered with success by this step adds nothing.
LEMMA NoMoreReplies ==
    ASSUME NEW g \in Groups, NEW u \in Users,
           Replies(g, u)' \subseteq Replies(g, u)
    PROVE  Cardinality(Replies(g, u)') <= Cardinality(Replies(g, u))
BY RepliesFinite, FS_Subset

\* A step of one request adds at most this one.
LEMMA OneMoreReply ==
    ASSUME NEW g \in Groups, NEW u \in Users, NEW o \in Ops,
           Replies(g, u)' \subseteq Replies(g, u) \cup {o}
    PROVE  /\ Cardinality(Replies(g, u)') \in Nat
           /\ Cardinality(Replies(g, u)') <= Cardinality(Replies(g, u)) + 1
<1> DEFINE R == Replies(g, u)
<1>1. IsFiniteSet(R) /\ Cardinality(R) \in Nat
  BY RepliesFinite
<1>2. /\ IsFiniteSet(R \cup {o})
      /\ Cardinality(R \cup {o}) = IF o \in R THEN Cardinality(R) ELSE Cardinality(R) + 1
  BY <1>1, FS_AddElement
<1>3. IsFiniteSet(R') /\ Cardinality(R') <= Cardinality(R \cup {o})
  BY <1>2, FS_Subset
<1> QED BY SMTT(30), <1>1, <1>2, <1>3, FS_CardinalityType

-----------------------------------------------------------------------------
\* A step that leaves the tables of the groups alone, lets no request through
\* and takes no row from one keeps the invariant.
LEMMA Frame ==
    ASSUME Inductive, UNCHANGED <<master, members, applies, asked>>,
           stage' \in [Ops -> Stages], answer' \in [Ops -> Answers],
           latest' \in [Convs -> Nat], joined' \in [Convs -> [Users -> Nat]],
           \A g \in Groups : joined'[g] = joined[g],
           \A p \in GroupOps :
               /\ stage'[p] = "locked" =>
                     stage[p] = "locked"
                     /\ lock'[GroupRow(Op[p].group)] = lock[GroupRow(Op[p].group)]
               /\ stage'[p] # "done" => stage[p] # "done"
               /\ Op[p].kind \in {"admit", "reject"} /\ answer'[p] = "success" => answer[p] = "success"
    PROVE  Inductive'
<1>1. Tables'
  BY DEF Inductive, Tables
<1>2. RosterIntact'
  BY SMTT(30) DEF Inductive, RosterIntact
<1>3. AnsweredOnce'
  <2>1. SUFFICES ASSUME NEW g \in Groups, NEW u \in Users
                 PROVE (Cardinality(Replies(g, u)) + (IF u \in applies[g] THEN 1 ELSE 0) <= asked[g][u])'
    BY DEF AnsweredOnce, Replies
  <2>2. Replies(g, u)' \subseteq Replies(g, u)
    BY DEF Replies
  <2>3. Cardinality(Replies(g, u)') <= Cardinality(Replies(g, u))
    BY <2>2, NoMoreReplies
  <2>4. Cardinality(Replies(g, u)) \in Nat /\ Cardinality(Replies(g, u)') \in Nat
    BY <2>2, RepliesFinite, FS_Subset, FS_CardinalityType
  <2>5. Cardinality(Replies(g, u)) + (IF u \in applies[g] THEN 1 ELSE 0) <= asked[g][u]
    BY AnsweredByReplies DEF Inductive
  <2>6. asked[g][u] \in Nat
    BY DEF Inductive, Tables
  <2> QED BY SMTT(30), <2>3, <2>4, <2>5, <2>6
<1>4. Decided'
  BY DEF Inductive, Decided, Granted
<1>5. Fresh'
  BY DEF Inductive, Fresh
<1> QED BY <1>1, <1>2, <1>3, <1>4, <1>5 DEF Inductive

-----------------------------------------------------------------------------
\* A request that is let through has found what it needs (OpenGroup).
LEMMA Opens ==
    ASSUME Inductive, NEW o \in GroupOps, Begins(o),
           Free(o, {GroupRow(Op[o].group)}), UNCHANGED <<tables, lost, faults, groupVars>>,
           \/ /\ Granted(o) /\ Take(o, {GroupRow(Op[o].group)})
              /\ Goto(o, "locked") /\ UNCHANGED answer
           \/ End(o, "refused") /\ UNCHANGED lock
    PROVE  Inductive'
<1>1. o \in Ops /\ Op[o].group \in Groups
  BY GroupConstants DEF GroupOps
<1>2. stage[o] = "new" /\ lock[GroupRow(Op[o].group)] \in {NoOp, o}
  BY DEF Begins, Free
<1>3. CASE End(o, "refused") /\ UNCHANGED lock
  <2>1. stage' = [stage EXCEPT ![o] = "done"] /\ stage' \in [Ops -> Stages]
    BY <1>1, <1>3 DEF End, Goto, Inductive, Tables, Stages
  <2>2. /\ answer' \in [Ops -> Answers]
        /\ \A p \in Ops : answer'[p] = "success" => answer[p] = "success"
    BY <1>1, <1>3 DEF End, Inductive, Tables, Answers
  <2>3. \A p \in GroupOps :
            /\ stage'[p] = "locked" => stage[p] = "locked"
            /\ stage'[p] # "done" => stage[p] # "done"
    BY <2>1, <1>2 DEF Inductive, Tables, GroupOps
  <2> QED BY <1>3, <2>1, <2>2, <2>3, Frame DEF tables, groupVars, Inductive, Tables, GroupOps
<1>4. CASE /\ Granted(o) /\ Take(o, {GroupRow(Op[o].group)})
           /\ Goto(o, "locked") /\ UNCHANGED answer
  <2>1. /\ stage' = [stage EXCEPT ![o] = IF o \in lost THEN "done" ELSE "locked"]
        /\ lock' = [k \in LockedRows |-> IF k \in {GroupRow(Op[o].group)} THEN o ELSE lock[k]]
    BY <1>4 DEF Goto, Take
  <2>2. Tables'
    <3>1. stage' \in [Ops -> Stages]
      BY <2>1, <1>1 DEF Inductive, Tables, Stages
    <3> QED BY <3>1, <1>4 DEF Inductive, Tables, tables, groupVars
  <2>3. RosterIntact' /\ AnsweredOnce'
    BY <1>4 DEF Inductive, RosterIntact, AnsweredOnce, tables, groupVars
  <2>4. Decided'
    <3> SUFFICES ASSUME NEW p \in GroupOps, stage'[p] = "locked"
                 PROVE lock'[GroupRow(Op[p].group)] = p /\ Granted(p)'
      BY DEF Decided
    <3>1. GroupRow(Op[p].group) \in LockedRows /\ p \in Ops
      BY GroupConstants DEF LockedRows, GroupOps
    <3>2. Granted(p) => Granted(p)'
      BY DEF Granted, groupVars
    <3>3. CASE p = o
      BY <3>1, <3>2, <3>3, <2>1, <1>4
    <3>4. CASE p # o
      <4>1. stage[p] = "locked"
        BY <3>1, <3>4, <2>1 DEF Inductive, Tables
      <4>2. lock[GroupRow(Op[p].group)] = p /\ Granted(p)
        BY <4>1 DEF Inductive, Decided
      <4>3. GroupRow(Op[p].group) # GroupRow(Op[o].group)
        BY <4>2, <1>2, <3>1, <3>4, TablesConstants
      <4> QED BY <4>2, <4>3, <3>1, <3>2, <2>1
    <3> QED BY <3>3, <3>4
  <2>5. Fresh'
    BY <2>1, <1>1, <1>2 DEF Inductive, Fresh, Tables, groupVars, GroupOps
  <2> QED BY <2>2, <2>3, <2>4, <2>5 DEF Inductive
<1> QED BY <1>3, <1>4

\* The writes of a request end it and change only its own group, whose row
\* nobody else holds: what the others decided on is still so.
LEMMA OthersKeep ==
    ASSUME Inductive, NEW o \in GroupOps, NEW kinds, Commits(o, kinds),
           \A h \in Groups \ {Op[o].group} :
               master'[h] = master[h] /\ members'[h] = members[h] /\ applies'[h] = applies[h]
    PROVE  /\ Decided'
           /\ stage' = [stage EXCEPT ![o] = "done"] /\ stage' \in [Ops -> Stages]
           /\ answer' \in [Ops -> Answers] /\ latest' \in [Convs -> Nat]
           /\ \A p \in Ops \ {o} : answer'[p] = answer[p]
<1>1. o \in Ops /\ stage[o] = "locked"
  BY DEF Commits, GroupOps
<1>2. stage' = [stage EXCEPT ![o] = "done"]
  BY DEF Commits, End, Goto
<1>3. /\ answer' \in [Ops -> Answers] /\ latest' \in [Convs -> Nat]
      /\ \A p \in Ops \ {o} : answer'[p] = answer[p]
  BY <1>1 DEF Commits, End, Goto, Inductive, Tables, Answers
<1>4. stage' \in [Ops -> Stages]
  BY <1>1, <1>2 DEF Inductive, Tables, Stages
<1>5. Decided'
  <2> SUFFICES ASSUME NEW p \in GroupOps, stage'[p] = "locked"
               PROVE lock'[GroupRow(Op[p].group)] = p /\ Granted(p)'
    BY DEF Decided
  <2>1. GroupRow(Op[p].group) \in LockedRows /\ p \in Ops /\ Op[p].group \in Groups
    BY GroupConstants DEF LockedRows, GroupOps
  <2>2. p # o /\ stage[p] = "locked"
    BY <1>1, <1>2, <2>1 DEF Inductive, Tables
  <2>3. lock[GroupRow(Op[p].group)] = p /\ Granted(p)
    BY <2>2 DEF Inductive, Decided
  <2>4. lock[GroupRow(Op[o].group)] = o
    BY <1>1 DEF Inductive, Decided
  <2>5. Op[p].group # Op[o].group
    BY <2>2, <2>3, <2>4
  <2>6. Granted(p)'
    BY <2>1, <2>3, <2>5 DEF Granted
  <2>7. lock'[GroupRow(Op[p].group)] = p
    BY <2>1, <2>2, <2>3 DEF Commits, Release
  <2> QED BY <2>6, <2>7
<1> QED BY <1>2, <1>3, <1>4, <1>5

\* The count of AnsweredOnce after a step that succeeds for at most one request
\* o, a reply to u itself or none: what it adds to one side it takes from
\* another, or adds to the other.
LEMMA Balance ==
    ASSUME Inductive, NEW g \in Groups, NEW u \in Users, NEW o \in Ops,
           asked'[g][u] \in Nat,
           \/ /\ Replies(g, u)' \subseteq Replies(g, u)
              /\ \/ asked'[g][u] = asked[g][u] /\ (u \in applies'[g] => u \in applies[g])
                 \/ asked'[g][u] = asked[g][u] + 1
           \/ /\ Replies(g, u)' \subseteq Replies(g, u) \cup {o}
              /\ u \in applies[g] /\ u \notin applies'[g] /\ asked'[g][u] = asked[g][u]
    PROVE  (Cardinality(Replies(g, u)) + (IF u \in applies[g] THEN 1 ELSE 0) <= asked[g][u])'
<1>1. Cardinality(Replies(g, u)) + (IF u \in applies[g] THEN 1 ELSE 0) <= asked[g][u]
  BY AnsweredByReplies DEF Inductive
<1>2. Cardinality(Replies(g, u)) \in Nat /\ asked[g][u] \in Nat
  BY RepliesFinite DEF Inductive, Tables
<1>3. Cardinality(Replies(g, u)') \in Nat
  BY OneMoreReply
<1>4. CASE Replies(g, u)' \subseteq Replies(g, u)
  <2>1. Cardinality(Replies(g, u)') <= Cardinality(Replies(g, u))
    BY <1>4, NoMoreReplies
  <2> QED BY SMTT(30), <1>1, <1>2, <1>3, <2>1
<1>5. CASE ~ (Replies(g, u)' \subseteq Replies(g, u))
  <2>1. Cardinality(Replies(g, u)') <= Cardinality(Replies(g, u)) + 1
    BY <1>5, OneMoreReply
  <2> QED BY SMTT(30), <1>1, <1>2, <1>3, <1>5, <2>1
<1> QED BY <1>4, <1>5

\* RosterIntact for one group.
Roster(g) ==
    /\ members[g] = {u \in Users : joined[g][u] # 0}
    /\ members[g] \cap applies[g] = {}
    /\ IF master[g] = NoUser THEN members[g] \cup applies[g] = {}
                             ELSE master[g] \in members[g]

\* A request that writes keeps the invariant when it leaves its own group with
\* an intact roster, keeps the balance of AnsweredOnce and makes no group that
\* is still to be created.
LEMMA Writes ==
    ASSUME Inductive, NEW o \in GroupOps, NEW kinds, Commits(o, kinds),
           joined' \in [Convs -> [Users -> Nat]],
           master' \in [Groups -> Users \cup {NoUser}],
           members' \in [Groups -> SUBSET Users], applies' \in [Groups -> SUBSET Users],
           asked' \in [Groups -> [Users -> Nat]],
           \A h \in Groups \ {Op[o].group} :
               /\ master'[h] = master[h] /\ members'[h] = members[h]
               /\ applies'[h] = applies[h] /\ joined'[h] = joined[h],
           Roster(Op[o].group)',
           \A h \in Groups, u \in Users :
               \/ /\ Replies(h, u)' \subseteq Replies(h, u)
                  /\ \/ asked'[h][u] = asked[h][u] /\ (u \in applies'[h] => u \in applies[h])
                     \/ asked'[h][u] = asked[h][u] + 1
               \/ /\ Replies(h, u)' \subseteq Replies(h, u) \cup {o}
                  /\ u \in applies[h] /\ u \notin applies'[h] /\ asked'[h][u] = asked[h][u],
           \A p \in GroupOps \ {o} :
               Op[p].kind = "create" /\ stage[p] # "done" =>
                   master'[Op[p].group] \in {master[Op[p].group], NoUser}
    PROVE  Inductive'
<1>1. /\ Decided' /\ stage' = [stage EXCEPT ![o] = "done"] /\ stage' \in [Ops -> Stages]
      /\ answer' \in [Ops -> Answers] /\ latest' \in [Convs -> Nat]
  BY OthersKeep
<1>2. Tables'
  BY <1>1 DEF Tables
<1>3. RosterIntact'
  <2> SUFFICES ASSUME NEW h \in Groups
               PROVE Roster(h)'
    BY DEF RosterIntact, Roster
  <2>1. Roster(h)
    BY DEF Inductive, RosterIntact, Roster
  <2>2. CASE h # Op[o].group
    <3>1. /\ master'[h] = master[h] /\ members'[h] = members[h]
          /\ applies'[h] = applies[h] /\ joined'[h] = joined[h]
      BY <2>2
    <3>2. {u \in Users : joined'[h][u] # 0} = {u \in Users : joined[h][u] # 0}
      BY <3>1
    <3> QED BY <2>1, <3>1, <3>2 DEF Roster
  <2>3. CASE h = Op[o].group
    BY <2>3 DEF Roster
  <2> QED BY <2>2, <2>3
<1>4. AnsweredOnce'
  <2> SUFFICES ASSUME NEW h \in Groups, NEW u \in Users
               PROVE (Cardinality(Replies(h, u)) + (IF u \in applies[h] THEN 1 ELSE 0) <= asked[h][u])'
    BY DEF AnsweredOnce, Replies
  <2>1. o \in Ops
    BY DEF GroupOps
  <2> QED BY SMTT(30), <2>1, Balance
<1>5. Fresh'
  <2> SUFFICES ASSUME NEW p \in GroupOps, Op[p].kind = "create", stage'[p] # "done"
               PROVE master'[Op[p].group] = NoUser
    BY DEF Fresh
  <2>1. p # o /\ stage[p] # "done"
    BY <1>1 DEF Inductive, Tables, GroupOps
  <2>2. master[Op[p].group] = NoUser
    BY <2>1 DEF Inductive, Fresh
  <2> QED BY <2>1, <2>2
<1> QED BY <1>1, <1>2, <1>3, <1>4, <1>5 DEF Inductive

\* Only a reply that succeeds adds to Replies.
LEMMA RepliesOfOthers ==
    ASSUME NEW o \in GroupOps, NEW kinds, Commits(o, kinds), Inductive,
           NEW h \in Groups, NEW u \in Users
    PROVE  /\ Replies(h, u)' \subseteq Replies(h, u) \cup {o}
           /\ ~ (Op[o].kind \in {"admit", "reject"} /\ Op[o].group = h /\ Op[o].target = u)
                 => Replies(h, u)' \subseteq Replies(h, u)
<1>1. \A p \in Ops \ {o} : answer'[p] = answer[p]
  BY DEF Commits, End, Inductive, Tables, GroupOps
<1> QED BY <1>1 DEF Replies, GroupOps

\* The writes of create_group, into a group nobody has heard of.
LEMMA Creates ==
    ASSUME Inductive, NEW o \in GroupOps, CreateGroup(o)
    PROVE  Inductive'
<1> DEFINE g == Op[o].group
<1>1. g \in Groups /\ g \in Convs /\ Op[o].actor \in Users /\ Op[o].actor # NoUser
  BY GroupConstants DEF Convs
<1>2. /\ Commits(o, {"create"}) /\ Op[o].kind = "create" /\ stage[o] = "locked"
      /\ master' = [master EXCEPT ![g] = Op[o].actor]
      /\ members' = [members EXCEPT ![g] = {Op[o].actor}]
      /\ joined' = [joined EXCEPT ![g] = [u \in Users |-> IF u = Op[o].actor THEN 1 ELSE 0]]
      /\ UNCHANGED <<applies, asked>>
  BY DEF CreateGroup, Commits, States
<1>3. applies[g] = {}
  BY <1>1, <1>2 DEF Inductive, Fresh, RosterIntact
<1>4. Tables /\ joined' \in [Convs -> [Users -> Nat]]
  BY <1>1, <1>2 DEF Inductive, Tables
<1>5. Roster(g)'
  BY SMTT(30), <1>1, <1>2, <1>3, <1>4 DEF Roster, Tables
<1>6. \A h \in Groups, u \in Users : Replies(h, u)' \subseteq Replies(h, u)
  BY <1>2, RepliesOfOthers
<1>7. \A p \in GroupOps \ {o} : Op[p].kind = "create" => Op[p].group # g /\ Op[p].group \in Groups
  BY <1>2, GroupConstants
<1>8. \A h \in Groups \ {g} : joined'[h] = joined[h]
  BY <1>2, <1>4 DEF Tables, Convs
<1> QED BY SMTT(30), <1>1, <1>2, <1>4, <1>5, <1>6, <1>7, <1>8, Writes DEF Tables

\* The writes of request_group_join.
LEMMA Joins ==
    ASSUME Inductive, NEW o \in GroupOps, RequestJoin(o)
    PROVE  Inductive'
<1> DEFINE g == Op[o].group
           a == Op[o].actor
<1>1. g \in Groups /\ a \in Users
  BY GroupConstants
<1>2. /\ Commits(o, {"join"}) /\ Op[o].kind = "join" /\ stage[o] = "locked"
      /\ applies' = [applies EXCEPT ![g] = @ \cup {a}]
      /\ asked' = [asked EXCEPT ![g][a] = @ + IF a \notin applies[g] THEN 1 ELSE 0]
      /\ UNCHANGED <<joined, master, members>>
  BY DEF RequestJoin, Commits
<1>3. master[g] # NoUser /\ a \notin members[g]
  BY <1>2 DEF Inductive, Decided, Granted
<1>4. Tables /\ Roster(g)
  BY <1>1 DEF Inductive, RosterIntact, Roster
<1>5. applies' \in [Groups -> SUBSET Users] /\ asked' \in [Groups -> [Users -> Nat]]
  BY SMTT(30), <1>1, <1>2, <1>4 DEF Tables
<1>6. Roster(g)'
  BY <1>1, <1>2, <1>3, <1>4 DEF Roster, Tables
<1>7. ASSUME NEW h \in Groups, NEW u \in Users
      PROVE  \/ asked'[h][u] = asked[h][u] /\ (u \in applies'[h] => u \in applies[h])
             \/ asked'[h][u] = asked[h][u] + 1
  <2>1. CASE h = g /\ u = a
    BY SMTT(30), <2>1, <1>1, <1>2, <1>4 DEF Tables
  <2>2. CASE ~ (h = g /\ u = a)
    BY <2>2, <1>1, <1>2, <1>4 DEF Tables
  <2> QED BY <2>1, <2>2
<1>8. \A h \in Groups, u \in Users : Replies(h, u)' \subseteq Replies(h, u)
  BY <1>2, RepliesOfOthers
<1>9. \A h \in Groups \ {g} : applies'[h] = applies[h]
  BY <1>2, <1>4 DEF Tables
<1> QED BY <1>2, <1>4, <1>5, <1>6, <1>7, <1>8, <1>9, Writes DEF Tables

\* The writes of reply_group_join, for an acceptance and for a refusal.
LEMMA Replied ==
    ASSUME Inductive, NEW o \in GroupOps, AdmitMember(o) \/ RejectApplicant(o)
    PROVE  Inductive'
<1> DEFINE g == Op[o].group
           t == Op[o].target
<1>1. g \in Groups /\ g \in Convs /\ t \in Users
  BY GroupConstants DEF Convs
<1>2. /\ Commits(o, {"admit", "reject"}) /\ Op[o].kind \in {"admit", "reject"}
      /\ stage[o] = "locked"
      /\ applies' = [applies EXCEPT ![g] = @ \ {t}] /\ UNCHANGED <<master, asked>>
  BY DEF AdmitMember, RejectApplicant, Commits
<1>3. \/ UNCHANGED <<joined, members>>
      \/ /\ members' = [members EXCEPT ![g] = @ \cup {t}]
         /\ joined' = [joined EXCEPT ![g] = [joined[g] EXCEPT ![t] = latest[g] + 1]]
  BY DEF AdmitMember, RejectApplicant, States
<1>4. master[g] # NoUser /\ t \in applies[g]
  BY <1>2 DEF Inductive, Decided, Granted
<1>5. Tables /\ Roster(g) /\ latest[g] \in Nat /\ latest[g] + 1 # 0 /\ latest[g] + 1 \in Nat
  BY SMTT(30), <1>1 DEF Inductive, RosterIntact, Roster, Tables
<1>6. /\ joined' \in [Convs -> [Users -> Nat]] /\ members' \in [Groups -> SUBSET Users]
      /\ applies' \in [Groups -> SUBSET Users]
      /\ \A h \in Groups \ {g} : joined'[h] = joined[h] /\ members'[h] = members[h]
                                 /\ applies'[h] = applies[h]
  <2>1. joined' \in [Convs -> [Users -> Nat]]
    <3>1. joined \in [Convs -> [Users -> Nat]] /\ joined[g] \in [Users -> Nat]
      BY <1>1, <1>5 DEF Tables
    <3>2. [joined[g] EXCEPT ![t] = latest[g] + 1] \in [Users -> Nat]
      BY <3>1, <1>5
    <3> QED BY <1>3, <3>1, <3>2
  <2>2. members' \in [Groups -> SUBSET Users] /\ applies' \in [Groups -> SUBSET Users]
    BY SMTT(30), <1>1, <1>2, <1>3, <1>5 DEF Tables
  <2>3. \A h \in Groups \ {g} : joined'[h] = joined[h]
    BY <1>3, <1>5 DEF Tables, Convs
  <2>4. \A h \in Groups \ {g} : members'[h] = members[h] /\ applies'[h] = applies[h]
    BY <1>2, <1>3, <1>5 DEF Tables
  <2> QED BY <2>1, <2>2, <2>3, <2>4
<1>7. Roster(g)'
  <2>1. CASE UNCHANGED <<joined, members>>
    BY <2>1, <1>1, <1>2, <1>5, <1>4 DEF Roster, Tables
  <2>2. CASE /\ members' = [members EXCEPT ![g] = @ \cup {t}]
             /\ joined' = [joined EXCEPT ![g] = [joined[g] EXCEPT ![t] = latest[g] + 1]]
    <3>1. members'[g] = members[g] \cup {t} /\ applies'[g] = applies[g] \ {t} /\ master'[g] = master[g]
      BY <2>2, <1>1, <1>2, <1>5 DEF Tables
    <3>2. \A u \in Users : joined'[g][u] = IF u = t THEN latest[g] + 1 ELSE joined[g][u]
      BY <2>2, <1>1, <1>5 DEF Tables
    <3>3. {u \in Users : joined'[g][u] # 0} = {u \in Users : joined[g][u] # 0} \cup {t}
      BY <3>2, <1>1, <1>5
    <3> QED BY <3>1, <3>3, <1>4, <1>5 DEF Roster
  <2> QED BY <1>3, <2>1, <2>2
<1>8. ASSUME NEW h \in Groups, NEW u \in Users
      PROVE  \/ /\ Replies(h, u)' \subseteq Replies(h, u)
                /\ u \in applies'[h] => u \in applies[h]
             \/ /\ Replies(h, u)' \subseteq Replies(h, u) \cup {o}
                /\ u \in applies[h] /\ u \notin applies'[h]
  <2>1. CASE h = g /\ u = t
    <3>1. u \in applies[h] /\ u \notin applies'[h]
      BY <2>1, <1>1, <1>2, <1>4, <1>5 DEF Tables
    <3> QED BY <3>1, <1>2, RepliesOfOthers
  <2>2. CASE ~ (h = g /\ u = t)
    <3>1. Replies(h, u)' \subseteq Replies(h, u)
      BY <2>2, <1>2, RepliesOfOthers
    <3>2. u \in applies'[h] => u \in applies[h]
      BY <1>1, <1>2, <1>5 DEF Tables
    <3> QED BY <3>1, <3>2
  <2> QED BY <2>1, <2>2
<1> QED BY <1>2, <1>5, <1>6, <1>7, <1>8, Writes DEF Tables

\* The writes of remove_group_member: the group is dissolved, or one member
\* who is not its master goes.
LEMMA Leaves ==
    ASSUME Inductive, NEW o \in GroupOps, DissolveGroup(o) \/ RemoveMember(o)
    PROVE  Inductive'
<1> DEFINE g == Op[o].group
           t == Op[o].target
<1>1. g \in Groups /\ g \in Convs /\ t \in Users
  BY GroupConstants DEF Convs
<1>2. /\ Commits(o, {"quit", "kick"}) /\ Op[o].kind \in {"quit", "kick"} /\ stage[o] = "locked"
      /\ UNCHANGED asked
  BY DEF DissolveGroup, RemoveMember, Commits
<1>3. Tables /\ Roster(g)
  BY <1>1 DEF Inductive, RosterIntact, Roster
<1>4. \A h \in Groups, u \in Users : Replies(h, u)' \subseteq Replies(h, u)
  BY <1>2, RepliesOfOthers
<1>5. \A p \in GroupOps : Op[p].group \in Groups
  BY GroupConstants
<1>6. CASE DissolveGroup(o)
  <2>1. /\ master' = [master EXCEPT ![g] = NoUser] /\ members' = [members EXCEPT ![g] = {}]
        /\ applies' = [applies EXCEPT ![g] = {}]
        /\ joined' = [joined EXCEPT ![g] = [u \in Users |-> 0]]
    BY <1>6 DEF DissolveGroup, States
  <2>2. joined' \in [Convs -> [Users -> Nat]] /\ \A h \in Groups \ {g} : joined'[h] = joined[h]
    BY <1>1, <1>3, <2>1 DEF Tables, Convs
  <2>3. /\ members' \in [Groups -> SUBSET Users] /\ applies' \in [Groups -> SUBSET Users]
        /\ master' \in [Groups -> Users \cup {NoUser}]
    BY <1>1, <1>3, <2>1 DEF Tables
  <2>4. /\ \A h \in Groups \ {g} : /\ members'[h] = members[h] /\ applies'[h] = applies[h]
                                   /\ master'[h] = master[h]
        /\ \A h \in Groups : applies'[h] \subseteq applies[h] /\ master'[h] \in {master[h], NoUser}
    BY <1>1, <1>3, <2>1 DEF Tables
  <2>5. Roster(g)'
    BY <1>1, <1>3, <2>1 DEF Roster, Tables
  <2> QED BY <1>2, <1>3, <1>4, <1>5, <2>2, <2>3, <2>4, <2>5, Writes DEF Tables
<1>7. CASE RemoveMember(o)
  <2>1. /\ members' = [members EXCEPT ![g] = @ \ {t}] /\ t # master[g]
        /\ joined' = [joined EXCEPT ![g] = [joined[g] EXCEPT ![t] = 0]]
        /\ UNCHANGED <<master, applies>>
    BY <1>7 DEF RemoveMember, States
  <2>2. joined' \in [Convs -> [Users -> Nat]] /\ \A h \in Groups \ {g} : joined'[h] = joined[h]
    BY <1>1, <1>3, <2>1 DEF Tables, Convs
  <2>3. members' \in [Groups -> SUBSET Users] /\ \A h \in Groups \ {g} : members'[h] = members[h]
    BY <1>1, <1>3, <2>1 DEF Tables
  <2>4. Roster(g)'
    <3>1. members'[g] = members[g] \ {t} /\ applies'[g] = applies[g] /\ master'[g] = master[g]
      BY <1>1, <1>3, <2>1 DEF Tables
    <3>2. \A u \in Users : joined'[g][u] = IF u = t THEN 0 ELSE joined[g][u]
      BY <1>1, <1>3, <2>1 DEF Tables
    <3>3. {u \in Users : joined'[g][u] # 0} = {u \in Users : joined[g][u] # 0} \ {t}
      BY <3>2
    <3> QED BY <1>3, <2>1, <3>1, <3>3 DEF Roster
  <2> QED BY <1>2, <1>3, <1>4, <1>5, <2>1, <2>2, <2>3, <2>4, Writes DEF Tables
<1> QED BY <1>6, <1>7

-----------------------------------------------------------------------------
\* One step of a group's request.
LEMMA GroupSteps ==
    ASSUME Inductive, NEW o \in Ops, GroupStep(o)
    PROVE  Inductive'
<1>1. o \in GroupOps
  BY DEF GroupStep, Create, Apply, Reply, Quit, Kick, CreateGroup, RequestJoin, AdmitMember,
         RejectApplicant, DissolveGroup, RemoveMember, Commits, GroupOps, GroupKinds
<1>2. CASE Create(o)
  BY <1>1, <1>2, Opens DEF Create, OpenGroup, Granted
<1>3. CASE Apply(o)
  BY <1>1, <1>3, Opens DEF Apply, OpenGroup, Granted, Exists
<1>4. CASE Reply(o)
  BY <1>1, <1>4, Opens DEF Reply, OpenGroup, Granted, Exists
<1>5. CASE Quit(o)
  BY <1>1, <1>5, Opens DEF Quit, OpenGroup, Granted
<1>6. CASE Kick(o)
  BY <1>1, <1>6, Opens DEF Kick, OpenGroup, Granted
<1>7. CASE CreateGroup(o)
  BY <1>1, <1>7, Creates
<1>8. CASE RequestJoin(o)
  BY <1>1, <1>8, Joins
<1>9. CASE AdmitMember(o) \/ RejectApplicant(o)
  BY <1>1, <1>9, Replied
<1>10. CASE DissolveGroup(o) \/ RemoveMember(o)
  BY <1>1, <1>10, Leaves
<1> QED BY <1>2, <1>3, <1>4, <1>5, <1>6, <1>7, <1>8, <1>9, <1>10 DEF GroupStep

\* A request that is not one of a group goes on, ends or takes rows of its own.
LEMMA Elsewhere ==
    ASSUME Inductive, NEW o \in Ops, NEW s \in Stages \ {"locked"}, NEW a \in Answers,
           stage[o] # "done",
           stage' = [stage EXCEPT ![o] = s],
           answer' = answer \/ answer' = [answer EXCEPT ![o] = a],
           o \in GroupOps => s = "done" /\ a # "success",
           UNCHANGED <<master, members, applies, asked>>,
           latest' \in [Convs -> Nat], joined' \in [Convs -> [Users -> Nat]],
           \A g \in Groups : joined'[g] = joined[g],
           \A g \in Groups : lock[GroupRow(g)] # o => lock'[GroupRow(g)] = lock[GroupRow(g)]
    PROVE  Inductive'
<1>1. stage' \in [Ops -> Stages] /\ answer' \in [Ops -> Answers]
  BY DEF Inductive, Tables
<1>2. ASSUME NEW p \in GroupOps
      PROVE  /\ stage'[p] = "locked" =>
                   stage[p] = "locked"
                   /\ lock'[GroupRow(Op[p].group)] = lock[GroupRow(Op[p].group)]
             /\ stage'[p] # "done" => stage[p] # "done"
             /\ answer'[p] = "success" => answer[p] = "success"
  <2>1. p \in Ops /\ Op[p].group \in Groups
    BY GroupConstants DEF GroupOps
  <2>2. CASE p = o
    BY <2>1, <2>2 DEF Inductive, Tables
  <2>3. CASE p # o
    <3>1. stage'[p] = stage[p] /\ answer'[p] = answer[p]
      BY <2>1, <2>3 DEF Inductive, Tables
    <3>2. stage[p] = "locked" => lock[GroupRow(Op[p].group)] = p
      BY DEF Inductive, Decided
    <3> QED BY <3>1, <3>2, <2>1, <2>3
  <2> QED BY <2>2, <2>3
<1> QED BY <1>1, <1>2, Frame

\* The row of a group is none of the other tables.
LEMMA Rows ==
    ASSUME NEW g \in Groups, NEW x
    PROVE  GroupRow(g) \in LockedRows /\ GroupRow(g) # FriendRow(x) /\ GroupRow(g) # ConvRow(x)
BY DEF LockedRows, GroupRow, FriendRow, ConvRow

\* The forms a step of a request takes in Requests.
LEMMA StepForms ==
    ASSUME Inductive, NEW o \in Ops, NEW s \in Stages \ {"locked"}, NEW a \in Answers,
           stage[o] # "done", Goto(o, s),
           UNCHANGED answer \/ answer' = IF o \in lost THEN answer ELSE [answer EXCEPT ![o] = a],
           o \in GroupOps => s = "done" /\ a # "success",
           UNCHANGED <<master, members, applies, asked>>,
           latest' \in [Convs -> Nat], joined' \in [Convs -> [Users -> Nat]],
           \A g \in Groups : joined'[g] = joined[g],
           \A g \in Groups : lock[GroupRow(g)] # o => lock'[GroupRow(g)] = lock[GroupRow(g)]
    PROVE  Inductive'
<1>1. PICK r \in Stages \ {"locked"} : stage' = [stage EXCEPT ![o] = r] /\ (r = s \/ r = "done")
  BY DEF Goto, Stages
<1> QED BY <1>1, Elsewhere

\* Friends: their conversation is not that of a group.
LEMMA FriendSteps ==
    ASSUME Inductive, NEW o \in Ops, FriendStep(o), UNCHANGED groupVars
    PROVE  Inductive'
<1>1. o \in FriendOps /\ o \notin GroupOps /\ stage[o] \notin {"done"}
  BY DEF FriendStep, StoreApplication, StoreSecondCopy, OpenFriendship, CommitFriendship,
         MarkFirstCopy, MarkSecondCopy, Begins, FriendOps, FriendKinds, GroupOps, GroupKinds
<1>2. /\ UNCHANGED <<master, members, applies, asked>>
      /\ latest \in [Convs -> Nat] /\ joined \in [Convs -> [Users -> Nat]]
  BY DEF groupVars, Inductive, Tables
<1>3. CASE StoreApplication(o)
  BY <1>1, <1>2, <1>3, StepForms DEF StoreApplication, End, tables, Stages, Answers
<1>4. CASE StoreSecondCopy(o)
  BY <1>1, <1>2, <1>4, StepForms DEF StoreSecondCopy, End, tables, Stages, Answers
<1>5. CASE OpenFriendship(o)
  <2>1. \A g \in Groups : lock'[GroupRow(g)] = lock[GroupRow(g)]
    BY <1>5, Rows DEF OpenFriendship, Take
  <2> QED BY <1>1, <1>2, <1>5, <2>1, StepForms DEF OpenFriendship, End, tables, Stages, Answers
<1>6. CASE CommitFriendship(o)
  <2>1. \A g \in Groups : lock[GroupRow(g)] # o => lock'[GroupRow(g)] = lock[GroupRow(g)]
    BY <1>6, Rows DEF CommitFriendship, Release
  <2>2. PairOf(o) \in Pairs /\ PairOf(o) \in Convs /\ PairOf(o) \notin Groups
    BY <1>1, FriendConstants, TablesConstants DEF Convs
  <2>3. joined' = [joined EXCEPT ![PairOf(o)] = [u \in Users |-> IF u \in PairOf(o) THEN 1 ELSE 0]]
    BY <1>6 DEF CommitFriendship, States
  <2>4. [u \in Users |-> IF u \in PairOf(o) THEN 1 ELSE 0] \in [Users -> Nat]
    OBVIOUS
  <2>5. joined' \in [Convs -> [Users -> Nat]] /\ \A g \in Groups : joined'[g] = joined[g]
    BY <1>2, <2>2, <2>3, <2>4 DEF Convs
  <2>6. Goto(o, "mark") /\ UNCHANGED <<latest, answer>>
    BY <1>6 DEF CommitFriendship
  <2>7. "mark" \in Stages \ {"locked"} /\ "none" \in Answers
    BY DEF Stages, Answers
  <2> QED BY <1>1, <1>2, <2>1, <2>5, <2>6, <2>7, StepForms
<1>7. CASE MarkFirstCopy(o)
  BY <1>1, <1>2, <1>7, StepForms DEF MarkFirstCopy, tables, Stages, Answers
<1>8. CASE MarkSecondCopy(o)
  BY <1>1, <1>2, <1>8, StepForms DEF MarkSecondCopy, End, tables, Stages, Answers
<1> QED BY <1>3, <1>4, <1>5, <1>6, <1>7, <1>8 DEF FriendStep

\* Receipts take the row of a conversation and change positions.
LEMMA ReceiptSteps ==
    ASSUME Inductive, NEW o \in Ops, ReceiptStep(o), UNCHANGED groupVars
    PROVE  Inductive'
<1>1. o \notin GroupOps /\ stage[o] # "done"
  BY DEF ReceiptStep, OpenReceipt, CommitReceipt, Begins, ReceiptOps, ReceiptKinds,
         GroupOps, GroupKinds
<1>2. /\ UNCHANGED <<master, members, applies, asked, latest, joined>>
      /\ latest \in [Convs -> Nat] /\ joined \in [Convs -> [Users -> Nat]]
  BY DEF groupVars, Inductive, Tables, ReceiptStep, OpenReceipt, CommitReceipt, tables
<1>3. CASE OpenReceipt(o)
  <2>1. \A g \in Groups : lock'[GroupRow(g)] = lock[GroupRow(g)]
    BY <1>3, Rows DEF OpenReceipt, Take
  <2> QED BY <1>1, <1>2, <1>3, <2>1, StepForms DEF OpenReceipt, End, Stages, Answers
<1>4. CASE CommitReceipt(o)
  <2>1. \A g \in Groups : lock[GroupRow(g)] # o => lock'[GroupRow(g)] = lock[GroupRow(g)]
    BY <1>4, Rows DEF CommitReceipt, Release
  <2> QED BY <1>1, <1>2, <1>4, <2>1, StepForms DEF CommitReceipt, End, Stages, Answers
<1> QED BY <1>3, <1>4 DEF ReceiptStep

\* A failed call gives no row away; the server's rollback only those of the
\* request it ends.
LEMMA FaultSteps ==
    ASSUME Inductive, NEW o \in Ops, Abort(o) \/ Rollback(o), UNCHANGED groupVars
    PROVE  Inductive'
<1>1. /\ UNCHANGED <<master, members, applies, asked, latest, joined>>
      /\ latest \in [Convs -> Nat] /\ joined \in [Convs -> [Users -> Nat]]
      /\ stage \in [Ops -> Stages] /\ answer \in [Ops -> Answers]
  BY DEF groupVars, Inductive, Tables, Abort, Rollback, tables
<1>2. CASE Abort(o)
  <2>1. /\ UNCHANGED lock /\ answer' = [answer EXCEPT ![o] = "failed"]
        /\ UNCHANGED stage \/ stage' = [stage EXCEPT ![o] = "done"]
    BY <1>2 DEF Abort, GiveUp
  <2>2. /\ stage' \in [Ops -> Stages] /\ answer' \in [Ops -> Answers]
        /\ \A p \in Ops : /\ stage'[p] \in {stage[p], "done"}
                          /\ answer'[p] = "success" => answer[p] = "success"
    BY <1>1, <2>1 DEF Stages, Answers
  <2>3. \A p \in GroupOps : p \in Ops
    BY DEF GroupOps
  <2> QED BY <1>1, <2>1, <2>2, <2>3, Frame
<1>3. CASE Rollback(o)
  <2>1. \A g \in Groups : lock[GroupRow(g)] # o => lock'[GroupRow(g)] = lock[GroupRow(g)]
    BY <1>3, Rows DEF Rollback, Release
  <2>2. stage[o] # "done" /\ stage' = [stage EXCEPT ![o] = "done"] /\ UNCHANGED answer
    BY <1>3 DEF Rollback, Drop
  <2>3. "done" \in Stages \ {"locked"} /\ "none" \in Answers
    BY DEF Stages, Answers
  <2> QED BY <1>1, <2>1, <2>2, <2>3, Elsewhere
<1> QED BY <1>2, <1>3

\* A message moves only the latest number.
LEMMA MessageSteps ==
    ASSUME Inductive, NEW m \in Messages, StoreMessage(m), UNCHANGED groupVars
    PROVE  Inductive'
<1>1. /\ UNCHANGED <<master, members, applies, asked, joined, lock, stage, answer>>
      /\ latest' = [latest EXCEPT ![Msg[m].conv] = @ + 1]
  BY DEF StoreMessage, groupVars, requestVars
<1>2. latest' \in [Convs -> Nat]
  <2>1. latest \in [Convs -> Nat]
    BY DEF Inductive, Tables
  <2>2. CASE Msg[m].conv \in Convs
    <3>1. latest[Msg[m].conv] + 1 \in Nat
      BY SMTT(30), <2>1, <2>2
    <3> QED BY <1>1, <2>1, <3>1
  <2>3. CASE Msg[m].conv \notin Convs
    BY <1>1, <2>1, <2>3
  <2> QED BY <2>2, <2>3
<1> QED BY <1>1, <1>2, Frame DEF Inductive, Tables

-----------------------------------------------------------------------------
\* The first state: there are no groups.
LEMMA InitInductive == Init => Inductive
<1> SUFFICES ASSUME Init PROVE Inductive
  OBVIOUS
<1> USE DEF Init
<1>1. /\ master = [g \in Groups |-> NoUser] /\ members = [g \in Groups |-> {}]
      /\ applies = [g \in Groups |-> {}] /\ asked = [g \in Groups |-> [u \in Users |-> 0]]
  BY DEF GroupInit
<1>2. latest = [c \in Convs |-> 0] /\ joined = [c \in Convs |-> [u \in Users |-> 0]]
  BY DEF TablesInit
<1>3. /\ answer = [o \in Ops |-> "none"] /\ \A o \in Ops : stage[o] \in {"new", "done"}
      /\ stage \in [Ops -> Stages] /\ answer \in [Ops -> Answers]
  BY DEF TablesInit, RequestInit, Stages, Answers
<1>4. Tables
  <2>1. latest \in [Convs -> Nat] /\ joined \in [Convs -> [Users -> Nat]]
    BY <1>2
  <2> QED BY <1>1, <1>3, <2>1 DEF Tables
<1>5. RosterIntact
  <2> SUFFICES ASSUME NEW g \in Groups PROVE Roster(g)
    BY DEF RosterIntact, Roster
  <2>1. g \in Convs
    BY DEF Convs
  <2>2. {u \in Users : joined[g][u] # 0} = {}
    BY <1>2, <2>1
  <2> QED BY <1>1, <2>2 DEF Roster
<1>6. AnsweredOnce
  <2> SUFFICES ASSUME NEW g \in Groups, NEW u \in Users
               PROVE Cardinality(Replies(g, u)) + (IF u \in applies[g] THEN 1 ELSE 0) <= asked[g][u]
    BY AnsweredByReplies
  <2>1. Replies(g, u) = {}
    BY <1>3 DEF Replies, GroupOps
  <2>2. Cardinality(Replies(g, u)) = 0
    BY <2>1, FS_EmptySet
  <2> QED BY SMTT(30), <1>1, <2>2
<1>7. Decided
  BY <1>3 DEF Decided, GroupOps
<1>8. Fresh
  BY <1>1, GroupConstants DEF Fresh
<1> QED BY <1>4, <1>5, <1>6, <1>7, <1>8 DEF Inductive

\* Every step keeps the invariant.
LEMMA NextInductive == Inductive /\ [Next]_vars => Inductive'
<1> SUFFICES ASSUME Inductive, [Next]_vars PROVE Inductive'
  OBVIOUS
<1>1. ASSUME NEW o \in Ops, Step(o) PROVE Inductive'
  BY <1>1, FriendSteps, GroupSteps, ReceiptSteps DEF Step
<1>2. ASSUME NEW o \in Ops, Settle(o) \/ Fault(o) PROVE Inductive'
  BY <1>2, FaultSteps DEF Settle, Fault, FriendGiveUp
<1>3. ASSUME NEW m \in Messages, StoreMessage(m), UNCHANGED groupVars PROVE Inductive'
  BY <1>3, MessageSteps
<1>4. CASE UNCHANGED vars
  BY <1>4, Frame DEF vars, tables, requestVars, groupVars, Inductive, Tables
<1> QED BY <1>1, <1>2, <1>3, <1>4 DEF Next

\* The invariant holds throughout.
LEMMA InductiveAlways == Spec => []Inductive
<1>1. Init => Inductive
  BY InitInductive
<1>2. Inductive /\ [Next]_vars => Inductive'
  BY NextInductive
<1> QED BY <1>1, <1>2, PTL DEF Spec

\* After every commit the tables of a group agree, however many users, groups
\* and shards there are and whatever calls fail: the locks on the group's row
\* in create_group, request_group_join, reply_group_join and
\* remove_group_member are enough.
THEOREM RosterIntactAlways == Spec => []RosterIntact
<1>1. Inductive => RosterIntact
  BY DEF Inductive
<1> QED BY <1>1, InductiveAlways, PTL

\* Of all replies to an application, sent by whatever devices of the master and
\* to whatever shards, one succeeds at most (reply_group_join).
THEOREM AnsweredOnceAlways == Spec => []AnsweredOnce
<1>1. Inductive => AnsweredOnce
  BY DEF Inductive
<1> QED BY <1>1, InductiveAlways, PTL


-----------------------------------------------------------------------------
\* What a friend request leaves between its two statements, when no other one
\* meddles: an application its first copy, a reply its verdict on the first copy
\* of an application that is there.
HalfDone(o) ==
    /\ Op[o].kind = "befriend" /\ stage[o] = "first" =>
          apps[FirstCopy(o)] = "wait" /\ apps[SecondCopy(o)] = "none"
    /\ Op[o].kind \in {"accept", "refuse"} /\ stage[o] = "marked" =>
          \/ apps[FirstCopy(o)] = "none" /\ apps[SecondCopy(o)] = "none"
          \/ apps[FirstCopy(o)] = Verdict(o) /\ apps[SecondCopy(o)] # "none"

NoneBetween(p) == \A o \in FriendOps : PairOf(o) = p => stage[o] \notin Between
SameCopies(p) == \A u, v \in p : u # v => apps[<<u, v>>] = apps[<<v, u>>]

\* On a pair without overlap at most one request is between its statements.
Alone(p) ==
    \A o, q \in FriendOps :
        PairOf(o) = p /\ PairOf(q) = p /\ stage[o] \in Between /\ stage[q] \in Between => o = q

Clean(p) ==
    /\ NoneBetween(p) => SameCopies(p)
    /\ \A o \in FriendOps : PairOf(o) = p => HalfDone(o)
    /\ Alone(p)

\* A request that waits for the connection has lost none, and one that lost it
\* between its statements is remembered.
Remembered ==
    /\ \A o \in Ops : stage[o] \in Waiting => o \notin lost
    /\ \A o \in FriendOps : o \in lost /\ stage[o] \in Between => PairOf(o) \in overlapped

CopiesInv ==
    /\ apps \in [Couples -> {"none", "wait", "agree", "refuse"}]
    /\ Remembered
    /\ \A p \in Pairs \ overlapped : Clean(p)

\* The two copies of a request, and whose they are.
LEMMA Copies ==
    ASSUME NEW o \in FriendOps
    PROVE  /\ o \in Ops /\ PairOf(o) \in Pairs
           /\ FirstCopy(o) \in Couples /\ SecondCopy(o) \in Couples /\ FirstCopy(o) # SecondCopy(o)
           /\ \A p \in Pairs : \A u, v \in p : u # v =>
                 /\ <<u, v>> \in Couples
                 /\ p # PairOf(o) => <<u, v>> \notin {FirstCopy(o), SecondCopy(o)}
                 /\ p = PairOf(o) => \/ <<u, v>> = FirstCopy(o) /\ <<v, u>> = SecondCopy(o)
                                     \/ <<u, v>> = SecondCopy(o) /\ <<v, u>> = FirstCopy(o)
           /\ \E u, v \in PairOf(o) : u # v /\ <<u, v>> = FirstCopy(o) /\ <<v, u>> = SecondCopy(o)
<1> DEFINE a == Op[o].actor
           t == Op[o].target
<1>1. o \in Ops /\ PairOf(o) \in Pairs /\ PairOf(o) = {a, t}
  BY FriendConstants DEF FriendOps, PairOf
<1>2. a # t /\ a \in Users /\ t \in Users
  BY <1>1 DEF Pairs
<1>3. FirstCopy(o) = <<a, t>> /\ SecondCopy(o) = <<t, a>>
  BY DEF FirstCopy, SecondCopy
<1>4. FirstCopy(o) \in Couples /\ SecondCopy(o) \in Couples /\ FirstCopy(o) # SecondCopy(o)
  BY SMTT(30), <1>2, <1>3 DEF Couples
<1>5. ASSUME NEW p \in Pairs, NEW u \in p, NEW v \in p, u # v
      PROVE  /\ <<u, v>> \in Couples
             /\ p # PairOf(o) => <<u, v>> \notin {FirstCopy(o), SecondCopy(o)}
             /\ p = PairOf(o) => \/ <<u, v>> = FirstCopy(o) /\ <<v, u>> = SecondCopy(o)
                                 \/ <<u, v>> = SecondCopy(o) /\ <<v, u>> = FirstCopy(o)
  <2>1. p = {u, v} /\ u \in Users /\ v \in Users
    <3>1. PICK x \in p, y \in p : x # y /\ p = {x, y}
      BY DEF Pairs
    <3>2. (u = x /\ v = y) \/ (u = y /\ v = x)
      BY <1>5, <3>1
    <3>3. {x, y} = {y, x}
      OBVIOUS
    <3> QED BY <3>1, <3>2, <3>3 DEF Pairs
  <2>2. <<u, v>> \in Couples
    BY SMTT(30), <1>5, <2>1 DEF Couples
  <2>3. <<u, v>> \in {<<a, t>>, <<t, a>>} => p = {a, t}
    BY SMTT(30), <2>1
  <2>4. p = {a, t} => (u = a /\ v = t) \/ (u = t /\ v = a)
    BY <1>5, <2>1
  <2> QED BY <1>1, <1>3, <2>2, <2>3, <2>4
<1> QED BY <1>1, <1>2, <1>3, <1>4, <1>5

\* A pair stays clean when its copies and the requests between their statements
\* stay.
LEMMA CleanStays ==
    ASSUME CopiesInv, NEW p \in Pairs, p \notin overlapped,
           \A u, v \in p : u # v => apps'[<<u, v>>] = apps[<<u, v>>],
           \A o \in FriendOps :
               PairOf(o) = p /\ (stage[o] \in Between \/ stage'[o] \in Between) => stage'[o] = stage[o]
    PROVE  Clean(p)'
<1>1. Clean(p)
  BY DEF CopiesInv
<1>2. NoneBetween(p)' => NoneBetween(p)
  BY DEF NoneBetween
<1>3. SameCopies(p) => SameCopies(p)'
  BY DEF SameCopies
<1>4. ASSUME NEW o \in FriendOps, PairOf(o) = p PROVE HalfDone(o)'
  <2>1. HalfDone(o)
    BY <1>1, <1>4 DEF Clean
  <2>2. apps'[FirstCopy(o)] = apps[FirstCopy(o)] /\ apps'[SecondCopy(o)] = apps[SecondCopy(o)]
    <3>1. PICK u \in p, v \in p : u # v /\ <<u, v>> = FirstCopy(o) /\ <<v, u>> = SecondCopy(o)
      BY <1>4, Copies
    <3>2. apps'[<<u, v>>] = apps[<<u, v>>] /\ apps'[<<v, u>>] = apps[<<v, u>>]
      BY <3>1
    <3> QED BY <3>1, <3>2
  <2>3. stage'[o] \in {"first", "marked"} => stage'[o] = stage[o]
    BY <1>4 DEF Between
  <2> QED BY <2>1, <2>2, <2>3 DEF HalfDone, Verdict
<1>5. Alone(p)'
  BY <1>1 DEF Clean, Alone
<1> QED BY <1>1, <1>2, <1>3, <1>4, <1>5 DEF Clean

\* A request goes between its statements, and is the only one of its pair there.
LEMMA CleanEnters ==
    ASSUME NEW o \in FriendOps, stage'[o] \in Between, HalfDone(o)',
           \A q \in FriendOps \ {o} : PairOf(q) = PairOf(o) => stage'[q] \notin Between
    PROVE  Clean(PairOf(o))'
<1>1. ~NoneBetween(PairOf(o))'
  BY DEF NoneBetween
<1>2. Alone(PairOf(o))'
  BY DEF Alone
<1>3. ASSUME NEW q \in FriendOps, PairOf(q) = PairOf(o) PROVE HalfDone(q)'
  <2>1. q # o => stage'[q] \notin {"first", "marked"}
    BY <1>3 DEF Between
  <2> QED BY <2>1 DEF HalfDone
<1> QED BY <1>1, <1>2, <1>3 DEF Clean

\* The only request of its pair between its statements ends, with equal copies.
LEMMA CleanLeaves ==
    ASSUME NEW o \in FriendOps, stage'[o] \notin Between, apps'[FirstCopy(o)] = apps'[SecondCopy(o)],
           \A q \in FriendOps \ {o} : PairOf(q) = PairOf(o) => stage'[q] \notin Between
    PROVE  Clean(PairOf(o))'
<1>1. SameCopies(PairOf(o))'
  BY Copies DEF SameCopies
<1>2. Alone(PairOf(o))'
  BY DEF Alone
<1>3. ASSUME NEW q \in FriendOps, PairOf(q) = PairOf(o) PROVE HalfDone(q)'
  <2>1. stage'[q] \notin {"first", "marked"}
    BY <1>3 DEF Between
  <2> QED BY <2>1 DEF HalfDone
<1> QED BY <1>1, <1>2, <1>3 DEF Clean

\* How a request that goes on is placed (Goto).
LEMMA GoesOn ==
    ASSUME Inductive, Remembered, NEW o \in Ops, NEW s, Goto(o, s), UNCHANGED lost,
           overlapped \subseteq overlapped'
    PROVE  /\ Remembered'
           /\ stage'[o] = IF o \in lost THEN "done" ELSE s
           /\ \A q \in Ops \ {o} : stage'[q] = stage[q]
<1>1. /\ stage'[o] = IF o \in lost THEN "done" ELSE s
      /\ \A q \in Ops \ {o} : stage'[q] = stage[q]
  BY DEF Goto, Inductive, Tables
<1>2. \A q \in FriendOps : q \in Ops
  BY DEF FriendOps
<1>3. "done" \notin Waiting /\ "done" \notin Between
  BY DEF Waiting, Between
<1>4. ASSUME NEW q \in Ops, stage'[q] \in Waiting PROVE q \notin lost'
  BY <1>1, <1>3, <1>4 DEF Remembered
<1>5. ASSUME NEW q \in FriendOps, q \in lost', stage'[q] \in Between PROVE PairOf(q)' \in overlapped'
  BY <1>1, <1>2, <1>3, <1>5 DEF Remembered, PairOf
<1>6. Remembered'
  BY <1>4, <1>5 DEF Remembered, PairOf
<1> QED BY <1>1, <1>6

\* A step of a friend request keeps the invariant if it keeps its own pair clean.
LEMMA CopiesMove ==
    ASSUME Inductive, CopiesInv, NEW o \in FriendOps, NEW s, Goto(o, s), UNCHANGED lost,
           overlapped \subseteq overlapped',
           apps' \in [Couples -> {"none", "wait", "agree", "refuse"}],
           \A k \in Couples \ {FirstCopy(o), SecondCopy(o)} : apps'[k] = apps[k],
           PairOf(o) \notin overlapped' => Clean(PairOf(o))'
    PROVE  CopiesInv'
<1>1. o \in Ops /\ Remembered /\ \A q \in FriendOps : q \in Ops
  BY Copies DEF CopiesInv
<1>2. Remembered' /\ \A q \in Ops \ {o} : stage'[q] = stage[q]
  BY <1>1, GoesOn
<1>3. ASSUME NEW p \in Pairs, p \notin overlapped', p # PairOf(o) PROVE Clean(p)'
  <2>1. p \notin overlapped
    BY <1>3
  <2>2. \A u, v \in p : u # v => apps'[<<u, v>>] = apps[<<u, v>>]
    BY <1>3, Copies
  <2>3. \A q \in FriendOps : PairOf(q) = p => stage'[q] = stage[q]
    BY <1>1, <1>2, <1>3
  <2> QED BY <2>1, <2>2, <2>3, CleanStays
<1>4. \A p \in Pairs : p \notin overlapped' => Clean(p)'
  BY <1>3
<1> QED BY <1>2, <1>4 DEF CopiesInv

\* A request that is not between its statements, and does not get there.
LEMMA CopiesElsewhere ==
    ASSUME Inductive, CopiesInv, NEW o \in Ops, NEW s, Goto(o, s), UNCHANGED <<lost, apps>>,
           overlapped \subseteq overlapped',
           o \in FriendOps => stage[o] \notin Between /\ s \notin Between
    PROVE  CopiesInv'
<1>1. Remembered /\ \A q \in FriendOps : q \in Ops
  BY Copies DEF CopiesInv
<1>2. /\ Remembered' /\ \A q \in Ops \ {o} : stage'[q] = stage[q]
      /\ stage'[o] = IF o \in lost THEN "done" ELSE s
  BY <1>1, GoesOn
<1>3. "done" \notin Between
  BY DEF Between
<1>4. \A q \in FriendOps : stage[q] \in Between \/ stage'[q] \in Between => stage'[q] = stage[q]
  BY <1>1, <1>2, <1>3
<1>5. \A p \in Pairs : p \notin overlapped' => Clean(p)'
  BY <1>4, CleanStays
<1> QED BY <1>2, <1>5 DEF CopiesInv

\* The statements of friends.cc.
LEMMA FriendsCopies ==
    ASSUME Inductive, CopiesInv, NEW o \in Ops, FriendStep(o)
    PROVE  CopiesInv'
<1>1. o \in FriendOps
  BY DEF FriendStep, StoreApplication, StoreSecondCopy, OpenFriendship, CommitFriendship,
         MarkFirstCopy, MarkSecondCopy, FriendOps, FriendKinds
<1> DEFINE f == FirstCopy(o)
           z == SecondCopy(o)
           rest == {q \in FriendOps \ {o} : PairOf(q) = PairOf(o)}
<1>2. /\ apps \in [Couples -> {"none", "wait", "agree", "refuse"}] /\ Remembered
      /\ f \in Couples /\ z \in Couples /\ f # z /\ PairOf(o) \in Pairs
      /\ \A q \in rest : q \in Ops \ {o}
  BY <1>1, Copies DEF CopiesInv
<1>3. ASSUME NoteOverlap(o), PairOf(o) \notin overlapped'
      PROVE  PairOf(o) \notin overlapped /\ \A q \in rest : stage[q] \notin Between
  BY <1>3 DEF NoteOverlap
<1>4. NoteOverlap(o) => overlapped \subseteq overlapped'
  BY DEF NoteOverlap
<1>5. stage[o] \in {"new", "mark"} => o \notin lost /\ stage[o] \notin Between
  BY <1>2 DEF Remembered, Waiting, Between
<1>6. ASSUME stage[o] \in {"new", "mark"}, PairOf(o) \notin overlapped, \A q \in rest : stage[q] \notin Between
      PROVE  apps[f] = apps[z]
  <2>1. NoneBetween(PairOf(o))
    BY <1>5, <1>6 DEF NoneBetween
  <2>2. SameCopies(PairOf(o))
    BY <1>2, <1>6, <2>1 DEF CopiesInv, Clean
  <2>3. PICK u \in PairOf(o), v \in PairOf(o) : u # v /\ <<u, v>> = f /\ <<v, u>> = z
    BY <1>1, Copies
  <2> QED BY <2>2, <2>3 DEF SameCopies
<1>7. ASSUME PairOf(o) \notin overlapped, stage[o] \in Between
      PROVE  HalfDone(o) /\ \A q \in rest : stage[q] \notin Between
  BY <1>1, <1>2, <1>7 DEF CopiesInv, Clean, Alone
<1>8. CASE StoreApplication(o)
  <2>1. CASE apps[f] # "none"
    <3>1. Goto(o, "done") /\ UNCHANGED <<lost, apps>> /\ NoteOverlap(o) /\ stage[o] = "new"
      BY <1>8, <2>1 DEF StoreApplication, End, Begins
    <3>2. "done" \notin Between
      BY DEF Between
    <3> QED BY <1>4, <1>5, <3>1, <3>2, CopiesElsewhere
  <2>2. CASE apps[f] = "none"
    <3>1. /\ Goto(o, "first") /\ UNCHANGED lost /\ NoteOverlap(o) /\ stage[o] = "new"
          /\ apps' = [apps EXCEPT ![f] = "wait"] /\ Op[o].kind = "befriend"
      BY <1>8, <2>2 DEF StoreApplication, Begins
    <3>2. stage'[o] = "first" /\ \A q \in Ops \ {o} : stage'[q] = stage[q]
      BY <1>2, <1>4, <1>5, <3>1, GoesOn
    <3>3. /\ apps' \in [Couples -> {"none", "wait", "agree", "refuse"}]
          /\ apps'[f] = "wait" /\ \A k \in Couples \ {f} : apps'[k] = apps[k]
      BY <1>2, <3>1
    <3>4. ASSUME PairOf(o) \notin overlapped' PROVE Clean(PairOf(o))'
      <4>1. PairOf(o) \notin overlapped /\ \A q \in rest : stage[q] \notin Between
        BY <1>3, <3>1, <3>4
      <4>2. apps'[z] = "none"
        BY <1>2, <1>6, <2>2, <3>1, <3>3, <4>1
      <4>3. HalfDone(o)' /\ stage'[o] \in Between
        BY <3>1, <3>2, <3>3, <4>2 DEF HalfDone, Between
      <4>4. \A q \in FriendOps \ {o} : PairOf(q) = PairOf(o) => stage'[q] \notin Between
        BY <1>2, <3>2, <4>1
      <4> QED BY <1>1, <4>3, <4>4, CleanEnters
    <3> QED BY <1>1, <1>4, <3>1, <3>3, <3>4, CopiesMove
  <2> QED BY <2>1, <2>2
<1>9. CASE MarkFirstCopy(o)
  <2>1. /\ Goto(o, "marked") /\ UNCHANGED lost /\ NoteOverlap(o) /\ stage[o] \in {"new", "mark"}
        /\ apps' = [apps EXCEPT ![f] = IF apps[f] = "none" THEN apps[f] ELSE Verdict(o)]
        /\ Op[o].kind \in {"accept", "refuse"}
    BY <1>9 DEF MarkFirstCopy, Begins
  <2>2. stage'[o] = "marked" /\ \A q \in Ops \ {o} : stage'[q] = stage[q]
    BY <1>2, <1>4, <1>5, <2>1, GoesOn
  <2>3. /\ apps' \in [Couples -> {"none", "wait", "agree", "refuse"}]
        /\ apps'[f] = (IF apps[f] = "none" THEN "none" ELSE Verdict(o))
        /\ \A k \in Couples \ {f} : apps'[k] = apps[k]
    BY <1>2, <2>1 DEF Verdict
  <2>4. ASSUME PairOf(o) \notin overlapped' PROVE Clean(PairOf(o))'
    <3>1. PairOf(o) \notin overlapped /\ \A q \in rest : stage[q] \notin Between
      BY <1>3, <2>1, <2>4
    <3>2. apps'[z] = apps[z] /\ apps[f] = apps[z]
      BY <1>2, <1>6, <2>1, <2>3, <3>1
    <3>3. HalfDone(o)' /\ stage'[o] \in Between
      BY <2>1, <2>2, <2>3, <3>2 DEF HalfDone, Between, Verdict
    <3>4. \A q \in FriendOps \ {o} : PairOf(q) = PairOf(o) => stage'[q] \notin Between
      BY <1>2, <2>2, <3>1
    <3> QED BY <1>1, <3>3, <3>4, CleanEnters
  <2> QED BY <1>1, <1>4, <2>1, <2>3, <2>4, CopiesMove
<1>10. CASE StoreSecondCopy(o) \/ MarkSecondCopy(o)
  <2>1. /\ Goto(o, "done") /\ UNCHANGED <<lost, overlapped>> /\ stage[o] \in Between
        /\ apps' = apps \/ \E x \in {"none", "wait", "agree", "refuse"} : apps' = [apps EXCEPT ![z] = x]
    <3>1. stage[o] \in Between /\ Goto(o, "done") /\ UNCHANGED <<lost, overlapped>>
      BY <1>10 DEF StoreSecondCopy, MarkSecondCopy, End, Between
    <3>2. CASE StoreSecondCopy(o)
      BY <3>1, <3>2 DEF StoreSecondCopy
    <3>3. CASE MarkSecondCopy(o)
      <4>1. apps' = [apps EXCEPT ![z] = IF apps[z] = "none" THEN apps[z] ELSE Verdict(o)]
        BY <3>3 DEF MarkSecondCopy
      <4>2. (IF apps[z] = "none" THEN apps[z] ELSE Verdict(o)) \in {"none", "wait", "agree", "refuse"}
        BY DEF Verdict
      <4> QED BY <3>1, <4>1, <4>2
    <3> QED BY <1>10, <3>2, <3>3
  <2>2. stage'[o] = "done" /\ \A q \in Ops \ {o} : stage'[q] = stage[q]
    BY <1>2, <2>1, GoesOn
  <2>3. /\ apps' \in [Couples -> {"none", "wait", "agree", "refuse"}]
        /\ \A k \in Couples \ {z} : apps'[k] = apps[k]
    BY <1>2, <2>1
  <2>4. ASSUME PairOf(o) \notin overlapped' PROVE Clean(PairOf(o))'
    <3>1. HalfDone(o) /\ \A q \in rest : stage[q] \notin Between
      BY <1>7, <2>1, <2>4
    <3>2. apps'[f] = apps[f]
      BY <1>2, <2>3
    <3>3. ASSUME StoreSecondCopy(o) PROVE apps'[f] = apps'[z]
      <4>1. apps[f] = "wait" /\ apps[z] = "none"
        BY <3>1, <3>3 DEF StoreSecondCopy, HalfDone
      <4> QED BY <1>2, <3>2, <3>3, <4>1 DEF StoreSecondCopy
    <3>4. ASSUME MarkSecondCopy(o) PROVE apps'[f] = apps'[z]
      <4>1. \/ apps[f] = "none" /\ apps[z] = "none"
            \/ apps[f] = Verdict(o) /\ apps[z] # "none"
        BY <3>1, <3>4 DEF MarkSecondCopy, HalfDone
      <4>2. apps'[z] = (IF apps[z] = "none" THEN "none" ELSE Verdict(o))
        BY <1>2, <3>4 DEF MarkSecondCopy
      <4> QED BY <3>2, <4>1, <4>2
    <3>5. apps'[f] = apps'[z] /\ stage'[o] \notin Between
      BY <1>10, <2>2, <3>3, <3>4 DEF Between
    <3>6. \A q \in FriendOps \ {o} : PairOf(q) = PairOf(o) => stage'[q] \notin Between
      BY <1>2, <2>2, <3>1
    <3> QED BY <1>1, <3>5, <3>6, CleanLeaves
  <2> QED BY <1>1, <2>1, <2>3, <2>4, CopiesMove
<1>11. CASE OpenFriendship(o) \/ CommitFriendship(o)
  <2>1. \E s \in {"done", "befriending", "mark"} : Goto(o, s)
    BY <1>11 DEF OpenFriendship, CommitFriendship, End
  <2>2. UNCHANGED <<lost, apps, overlapped>> /\ stage[o] \in {"new", "befriending"}
    BY <1>11 DEF OpenFriendship, CommitFriendship, Begins, friendVars
  <2> QED BY <2>1, <2>2, CopiesElsewhere DEF Between
<1> QED BY <1>8, <1>9, <1>10, <1>11 DEF FriendStep

\* A call fails, between the statements or elsewhere, or the server gives up.
LEMMA FaultCopies ==
    ASSUME Inductive, CopiesInv, NEW o \in Ops, Settle(o) \/ Fault(o)
    PROVE  CopiesInv'
<1>1. stage \in [Ops -> Stages] /\ Remembered /\ (\A q \in FriendOps : q \in Ops) /\ UNCHANGED apps
  BY Copies DEF Inductive, Tables, CopiesInv, Settle, Fault, FriendGiveUp, friendVars
<1>2. "done" \notin Between /\ "done" \notin Waiting /\ \A s \in Between : s \notin Waiting
  BY DEF Between, Waiting
<1>3. /\ overlapped \subseteq overlapped'
      /\ \A q \in Ops \ {o} : stage'[q] = stage[q]
      /\ stage'[o] \in {stage[o], "done"}
      /\ lost \subseteq lost' /\ lost' \subseteq lost \cup {o}
  BY <1>1 DEF Settle, Rollback, Drop, Fault, FriendGiveUp, Abort, GiveUp, friendVars
<1>4. o \notin lost /\ o \in lost' => stage[o] \notin Waiting
  BY DEF Settle, Rollback, Drop, Fault, FriendGiveUp, Abort, GiveUp
<1>5. o \in FriendOps /\ stage[o] \in Between => PairOf(o) \in overlapped'
  <2>1. CASE Settle(o)
    BY <1>1, <1>3, <2>1 DEF Settle, Rollback, Drop, Remembered
  <2>2. CASE Fault(o)
    BY <2>2 DEF Fault, FriendGiveUp
  <2> QED BY <2>1, <2>2
<1>6. Remembered'
  <2>1. ASSUME NEW q \in Ops, stage'[q] \in Waiting PROVE q \notin lost'
    BY <1>1, <1>2, <1>3, <1>4, <2>1 DEF Remembered
  <2>2. ASSUME NEW q \in FriendOps, q \in lost', stage'[q] \in Between PROVE PairOf(q)' \in overlapped'
    <3>1. CASE q = o
      BY <1>2, <1>3, <1>5, <2>2, <3>1 DEF PairOf
    <3>2. CASE q # o
      BY <1>1, <1>3, <2>2, <3>2 DEF Remembered, PairOf
    <3> QED BY <3>1, <3>2
  <2> QED BY <2>1, <2>2 DEF Remembered, PairOf
<1>7. ASSUME NEW p \in Pairs, p \notin overlapped' PROVE Clean(p)'
  <2>1. \A q \in FriendOps :
           PairOf(q) = p /\ (stage[q] \in Between \/ stage'[q] \in Between) => stage'[q] = stage[q]
    BY <1>1, <1>2, <1>3, <1>5, <1>7
  <2> QED BY <1>1, <1>3, <1>7, <2>1, CleanStays
<1> QED BY <1>1, <1>6, <1>7 DEF CopiesInv

LEMMA InitCopies == Init => CopiesInv
<1> SUFFICES ASSUME Init PROVE CopiesInv
  OBVIOUS
<1>1. /\ apps = [k \in Couples |-> "none"] /\ lost = {} /\ \A o \in Ops : stage[o] \in {"new", "done"}
  BY DEF Init, FriendInit, TablesInit, RequestInit
<1>2. \A o \in FriendOps : o \in Ops /\ stage[o] \notin {"first", "marked"}
  BY <1>1 DEF FriendOps
<1>3. ASSUME NEW p \in Pairs, NEW u \in p, NEW v \in p, u # v PROVE apps[<<u, v>>] = apps[<<v, u>>]
  <2>1. u \in Users /\ v \in Users
    BY DEF Pairs
  <2>2. <<u, v>> \in Couples /\ <<v, u>> \in Couples
    BY SMTT(30), <1>3, <2>1 DEF Couples
  <2> QED BY <1>1, <2>2
<1>4. \A p \in Pairs : Clean(p)
  BY <1>2, <1>3 DEF Clean, SameCopies, HalfDone, Alone, Between
<1>5. Remembered
  BY <1>1 DEF Remembered
<1> QED BY <1>1, <1>4, <1>5 DEF CopiesInv

LEMMA NextCopies == Inductive /\ CopiesInv /\ [Next]_vars => CopiesInv'
<1> SUFFICES ASSUME Inductive, CopiesInv, [Next]_vars PROVE CopiesInv'
  OBVIOUS
<1>1. ASSUME NEW o \in Ops, GroupStep(o), UNCHANGED friendVars PROVE CopiesInv'
  <2>1. o \notin FriendOps /\ UNCHANGED <<lost, apps, overlapped>>
    BY <1>1 DEF GroupStep, Create, Apply, Reply, Quit, Kick, CreateGroup, RequestJoin, AdmitMember,
                RejectApplicant, DissolveGroup, RemoveMember, Commits, OpenGroup, FriendOps, FriendKinds, friendVars
  <2>2. \E s \in {"locked", "done"} : Goto(o, s)
    BY <1>1 DEF GroupStep, Create, Apply, Reply, Quit, Kick, CreateGroup, RequestJoin, AdmitMember,
                RejectApplicant, DissolveGroup, RemoveMember, Commits, OpenGroup, End
  <2> QED BY <2>1, <2>2, CopiesElsewhere
<1>2. ASSUME NEW o \in Ops, ReceiptStep(o), UNCHANGED friendVars PROVE CopiesInv'
  <2>1. o \notin FriendOps /\ UNCHANGED <<lost, apps, overlapped>>
    BY <1>2 DEF ReceiptStep, OpenReceipt, CommitReceipt, ReceiptOps, ReceiptKinds, FriendOps, FriendKinds, friendVars
  <2>2. \E s \in {"acking", "done"} : Goto(o, s)
    BY <1>2 DEF ReceiptStep, OpenReceipt, CommitReceipt, End
  <2> QED BY <2>1, <2>2, CopiesElsewhere
<1>3. ASSUME NEW o \in Ops, Step(o) PROVE CopiesInv'
  BY <1>1, <1>2, <1>3, FriendsCopies DEF Step
<1>4. ASSUME NEW o \in Ops, Settle(o) \/ Fault(o) PROVE CopiesInv'
  BY <1>4, FaultCopies
<1>5. ASSUME UNCHANGED <<friendVars, stage, lost>> PROVE CopiesInv'
  <2>1. UNCHANGED <<apps, overlapped, stage, lost>>
    BY <1>5 DEF friendVars
  <2>2. \A p \in Pairs : p \notin overlapped => Clean(p)'
    BY <2>1, CleanStays
  <2>3. Remembered'
    BY <2>1 DEF CopiesInv, Remembered
  <2> QED BY <2>1, <2>2, <2>3 DEF CopiesInv
<1>6. ASSUME NEW m \in Messages, StoreMessage(m), UNCHANGED friendVars PROVE CopiesInv'
  BY <1>5, <1>6 DEF StoreMessage, requestVars
<1>7. CASE UNCHANGED vars
  BY <1>5, <1>7 DEF vars, requestVars
<1> QED BY <1>3, <1>4, <1>6, <1>7 DEF Next

\* The copies of an application are the same whenever nobody is between the two
\* statements of insert_friend_apply or update_friend_apply_status, unless two
\* requests on the pair were there at once or one was given up there; for any
\* number of users, requests and shards.
THEOREM SplitOnlyByOverlapAlways == Spec => []SplitOnlyByOverlap
<1>1. CopiesInv => SplitOnlyByOverlap
  BY DEF CopiesInv, Clean, NoneBetween, SameCopies, SplitOnlyByOverlap
<1>2. Init => Inductive /\ CopiesInv
  BY InitInductive, InitCopies
<1>3. Inductive /\ CopiesInv /\ [Next]_vars => Inductive' /\ CopiesInv'
  BY NextInductive, NextCopies
<1> QED BY <1>1, <1>2, <1>3, PTL DEF Spec

-----------------------------------------------------------------------------
\* The positions of users, devices and messages.
Positions ==
    /\ seqOf \in [Messages -> Nat] /\ status \in [Messages -> {SENT, DELIVERED, READ}]
    /\ reports \in [Messages -> {0, 1}]
    /\ delivered \in [Convs -> [Users -> Nat]] /\ readTo \in [Convs -> [Users -> Nat]]
    /\ persisted \in [Convs -> [Devices -> Nat]]
    /\ \A c \in Convs, u \in Users : readTo[c][u] <= delivered[c][u] /\ delivered[c][u] <= latest[c]
    /\ \A m \in Messages : seqOf[m] <= latest[Msg[m].conv]

\* Two users have a state of their conversation from their friendship on.
Friendly ==
    \A p \in Pairs, u \in Users : joined[p][u] = IF p \in friends /\ u \in p THEN 1 ELSE 0

\* A running receipt holds the row of its conversation; it knows whether it turns
\* the message, and nobody else does so meanwhile.
Acking(o) ==
    /\ lock[ConvRow(ConvOf(o))] = o
    /\ seqOf[Op[o].message] # 0
    /\ ConvOf(o) \notin Groups => ConvOf(o) \in friends /\ Op[o].actor \in ConvOf(o)
    /\ o \in turned <=> DirectRecipient(o) /\ Op[o].kind = "read" /\ status[Op[o].message] # READ

\* What became of a message that is stored as read.
ReadIs(m) ==
    /\ Msg[m].conv \notin Groups /\ Msg[m].conv \in friends /\ seqOf[m] # 0
    /\ \A u \in Msg[m].conv : u # Msg[m].sender => readTo[Msg[m].conv][u] >= seqOf[m]
    /\ reports[m] = 1 \/ m \in silent
    /\ m \in silent => reports[m] = 0 /\ \E o \in ReceiptOps : Op[o].message = m /\ o \in lost

ReceiptInv ==
    /\ Positions /\ Friendly
    /\ \A o \in ReceiptOps : stage[o] = "acking" => Acking(o)
    /\ \A m \in Messages : seqOf[m] # 0 /\ Msg[m].conv \notin Groups => Msg[m].sender \in Msg[m].conv
    /\ \A m \in Messages : reports[m] = 1 \/ m \in silent => status[m] = READ
    /\ \A m \in Messages : status[m] = READ => ReadIs(m)
    /\ \A o \in Ops : o \in lost => answer[o] = "failed"
    /\ \A o \in Ops : stage[o] = "new" => o \notin turned

\* What PositionsOnlyGrow says of a step.
Grows ==
    /\ \A c \in Convs, u \in Users :
          joined[c][u] # 0 /\ joined'[c][u] # 0 =>
              delivered'[c][u] >= delivered[c][u] /\ readTo'[c][u] >= readTo[c][u]
    /\ \A c \in Convs, d \in Devices : persisted'[c][d] >= persisted[c][d]
    /\ \A m \in Messages : status'[m] >= status[m]

\* A receipt, its message and the row of its conversation.
LEMMA ReceiptIs ==
    ASSUME NEW o \in ReceiptOps
    PROVE  /\ o \in Ops /\ o \notin GroupOps /\ o \notin FriendOps /\ o # NoOp
           /\ Op[o].message \in Messages /\ Op[o].actor \in Users /\ Op[o].device \in Devices
           /\ ConvOf(o) \in Convs /\ ConvOf(o) = Msg[Op[o].message].conv
           /\ ConvRow(ConvOf(o)) \in LockedRows
<1>1. o \in Ops /\ o \notin GroupOps /\ o \notin FriendOps /\ o # NoOp
  BY TablesConstants DEF ReceiptOps, ReceiptKinds, GroupOps, GroupKinds, FriendOps, FriendKinds
<1>2. /\ Op[o].message \in Messages /\ Op[o].actor \in Users /\ Op[o].device \in Devices
      /\ ConvOf(o) \in Convs /\ ConvOf(o) = Msg[Op[o].message].conv
  BY ReceiptConstants DEF ConvOf
<1>3. ConvRow(ConvOf(o)) \in LockedRows
  BY <1>2 DEF LockedRows
<1> QED BY <1>1, <1>2, <1>3

LEMMA ConvRows ==
    ASSUME NEW c, NEW d
    PROVE  /\ ConvRow(c) = ConvRow(d) => c = d
           /\ ConvRow(c) # GroupRow(d) /\ ConvRow(c) # FriendRow(d)
<1>1. ConvRow(c) = ConvRow(d) => c = d
  BY SMTT(30) DEF ConvRow
<1>2. ConvRow(c) # GroupRow(d) /\ ConvRow(c) # FriendRow(d)
  BY DEF ConvRow, GroupRow, FriendRow
<1> QED BY <1>1, <1>2

\* Every conversation is one of a group or of two users.
LEMMA ConvKinds ==
    /\ \A c \in Convs : c \notin Groups => c \in Pairs
    /\ \A p \in Pairs : p \in Convs /\ p \notin Groups
BY TablesConstants DEF Convs

\* A step in which no receipt begins or loses its row.
QuietRequests ==
    /\ \A o \in ReceiptOps : stage'[o] = "acking" =>
          stage[o] = "acking" /\ lock'[ConvRow(ConvOf(o))] = lock[ConvRow(ConvOf(o))]
    /\ \A o \in Ops : stage'[o] = "new" => stage[o] = "new"
    /\ lost \subseteq lost' /\ \A o \in Ops : o \in lost' => answer'[o] = "failed"

\* A step that concerns no receipt and no message.
ReceiptsQuiet ==
    /\ UNCHANGED <<seqOf, status, persisted, turned, reports, silent, latest>>
    /\ delivered' \in [Convs -> [Users -> Nat]] /\ readTo' \in [Convs -> [Users -> Nat]]
    /\ \A c \in Convs, u \in Users : readTo'[c][u] <= delivered'[c][u] /\ delivered'[c][u] <= latest[c]
    /\ Friendly' /\ friends \subseteq friends'
    /\ \A p \in Pairs, u \in Users : p \in friends => readTo'[p][u] = readTo[p][u]
    /\ QuietRequests

LEMMA ReceiptsStay ==
    ASSUME Inductive, ReceiptInv, ReceiptsQuiet
    PROVE  ReceiptInv'
<1> USE DEF ReceiptsQuiet, QuietRequests
<1>1. Positions'
  BY DEF ReceiptInv, Positions
<1>2. ASSUME NEW o \in ReceiptOps, stage'[o] = "acking" PROVE Acking(o)'
  <2>1. Acking(o) /\ lock'[ConvRow(ConvOf(o))] = lock[ConvRow(ConvOf(o))]
    BY <1>2 DEF ReceiptInv
  <2> QED BY <2>1 DEF Acking, ConvOf, DirectRecipient
<1>3. ASSUME NEW m \in Messages, status[m] = READ PROVE ReadIs(m)'
  <2>1. ReadIs(m) /\ Msg[m].conv \in Pairs
    BY <1>3, ReceiptConstants, ConvKinds DEF ReceiptInv, ReadIs
  <2>2. \A u \in Msg[m].conv : u \in Users
    BY <2>1 DEF Pairs
  <2>3. \A u \in Msg[m].conv : readTo'[Msg[m].conv][u] = readTo[Msg[m].conv][u]
    BY <2>1, <2>2 DEF ReadIs
  <2> QED BY <2>1, <2>3 DEF ReadIs
<1> QED BY <1>1, <1>2, <1>3 DEF ReceiptInv

\* INSERT and DELETE of user states: positions of a new row are 0.
Moved(c, seqs) ==
    /\ delivered' \in [Convs -> [Users -> Nat]] /\ readTo' \in [Convs -> [Users -> Nat]]
    /\ \A d \in Convs \ {c} :
          joined'[d] = joined[d] /\ delivered'[d] = delivered[d] /\ readTo'[d] = readTo[d]
    /\ joined'[c] = seqs
    /\ \A u \in Users : seqs[u] = joined[c][u] =>
          delivered'[c][u] = delivered[c][u] /\ readTo'[c][u] = readTo[c][u]
    /\ \A d \in Convs, u \in Users :
          /\ joined[d][u] # 0 /\ joined'[d][u] # 0 =>
                delivered'[d][u] >= delivered[d][u] /\ readTo'[d][u] >= readTo[d][u]
          /\ readTo'[d][u] <= delivered'[d][u] /\ delivered'[d][u] <= latest[d]

LEMMA StatesMove ==
    ASSUME ReceiptInv, Inductive, NEW c \in Convs, NEW seqs, States(c, seqs),
           \A u \in Users : joined[c][u] # 0 /\ seqs[u] # 0 => seqs[u] = joined[c][u]
    PROVE  Moved(c, seqs)
<1>1. /\ delivered \in [Convs -> [Users -> Nat]] /\ readTo \in [Convs -> [Users -> Nat]]
      /\ joined \in [Convs -> [Users -> Nat]] /\ latest \in [Convs -> Nat]
      /\ \A d \in Convs, u \in Users : readTo[d][u] <= delivered[d][u] /\ delivered[d][u] <= latest[d]
  BY DEF ReceiptInv, Positions, Inductive, Tables
<1> DEFINE dn == [u \in Users |-> IF seqs[u] = joined[c][u] THEN delivered[c][u] ELSE 0]
           rn == [u \in Users |-> IF seqs[u] = joined[c][u] THEN readTo[c][u] ELSE 0]
<1>2. /\ joined' = [joined EXCEPT ![c] = seqs] /\ delivered' = [delivered EXCEPT ![c] = dn]
      /\ readTo' = [readTo EXCEPT ![c] = rn]
  BY DEF States
<1>3. dn \in [Users -> Nat] /\ rn \in [Users -> Nat]
  <2>1. \A u \in Users : delivered[c][u] \in Nat /\ readTo[c][u] \in Nat
    BY <1>1
  <2> QED BY SMTT(30), <2>1
<1>4. delivered' \in [Convs -> [Users -> Nat]] /\ readTo' \in [Convs -> [Users -> Nat]]
  BY <1>1, <1>2, <1>3
<1>5. /\ joined'[c] = seqs /\ delivered'[c] = dn /\ readTo'[c] = rn
      /\ \A d \in Convs \ {c} :
            joined'[d] = joined[d] /\ delivered'[d] = delivered[d] /\ readTo'[d] = readTo[d]
  BY <1>1, <1>2
<1>6. \A u \in Users : seqs[u] = joined[c][u] =>
         delivered'[c][u] = delivered[c][u] /\ readTo'[c][u] = readTo[c][u]
  BY <1>5
<1>7. ASSUME NEW d \in Convs, NEW u \in Users
      PROVE  /\ joined[d][u] # 0 /\ joined'[d][u] # 0 =>
                    delivered'[d][u] >= delivered[d][u] /\ readTo'[d][u] >= readTo[d][u]
             /\ readTo'[d][u] <= delivered'[d][u] /\ delivered'[d][u] <= latest[d]
  <2>1. /\ delivered[d][u] \in Nat /\ readTo[d][u] \in Nat /\ latest[d] \in Nat
        /\ readTo[d][u] <= delivered[d][u] /\ delivered[d][u] <= latest[d]
    BY <1>1
  <2>2. \/ delivered'[d][u] = delivered[d][u] /\ readTo'[d][u] = readTo[d][u]
        \/ d = c /\ seqs[u] # joined[c][u] /\ delivered'[d][u] = 0 /\ readTo'[d][u] = 0
    <3>1. CASE d # c
      BY <1>5, <3>1
    <3>2. CASE d = c
      <4>1. /\ delivered'[c][u] = (IF seqs[u] = joined[c][u] THEN delivered[c][u] ELSE 0)
            /\ readTo'[c][u] = (IF seqs[u] = joined[c][u] THEN readTo[c][u] ELSE 0)
        BY <1>5
      <4> QED BY <3>2, <4>1
    <3> QED BY <3>1, <3>2
  <2>3. d = c /\ seqs[u] # joined[c][u] => joined[d][u] = 0 \/ joined'[d][u] = 0
    BY <1>5
  <2> QED BY SMTT(30), <2>1, <2>2, <2>3
<1> QED BY <1>4, <1>5, <1>6, <1>7 DEF Moved

\* The steps of requests that are not receipts under way.
LEMMA RequestQuiet ==
    ASSUME Inductive, ReceiptInv, NEW o \in Ops, NEW s, s \notin {"new", "acking"}, Goto(o, s), UNCHANGED lost,
           UNCHANGED answer \/ \E a : answer' = IF o \in lost THEN answer ELSE [answer EXCEPT ![o] = a],
           UNCHANGED lock \/ Release(o) \/ \E x : Take(o, {GroupRow(x)}) \/ Take(o, {FriendRow(x)})
    PROVE  QuietRequests
<1>1. stage \in [Ops -> Stages] /\ answer \in [Ops -> Answers]
  BY DEF Inductive, Tables
<1>2. /\ stage'[o] \in {s, "done"} /\ \A q \in Ops \ {o} : stage'[q] = stage[q]
  BY <1>1 DEF Goto
<1>3. \A q \in Ops : q \in lost => answer'[q] = answer[q]
  BY <1>1
<1>4. ASSUME NEW r \in ReceiptOps, stage'[r] = "acking"
      PROVE  stage[r] = "acking" /\ lock'[ConvRow(ConvOf(r))] = lock[ConvRow(ConvOf(r))]
  <2>1. r # o /\ stage[r] = "acking"
    BY <1>2, <1>4, ReceiptIs
  <2>2. ConvRow(ConvOf(r)) \in LockedRows /\ lock[ConvRow(ConvOf(r))] = r
    BY <2>1, ReceiptIs DEF ReceiptInv, Acking
  <2>3. \A x : ConvRow(ConvOf(r)) \notin {GroupRow(x)} /\ ConvRow(ConvOf(r)) \notin {FriendRow(x)}
    BY ConvRows
  <2> QED BY <2>1, <2>2, <2>3 DEF Release, Take
<1>5. \A q \in Ops : stage'[q] = "new" => stage[q] = "new"
  BY <1>2
<1>6. \A q \in Ops : q \in lost' => answer'[q] = "failed"
  BY <1>3 DEF ReceiptInv
<1> QED BY <1>4, <1>5, <1>6 DEF QuietRequests

\* ... those that leave the states of the users alone.
LEMMA TablesStay ==
    ASSUME Inductive, ReceiptInv, QuietRequests,
           UNCHANGED <<seqOf, status, persisted, turned, reports, silent, latest, joined, delivered, readTo, friends>>
    PROVE  ReceiptInv' /\ Grows
<1>1. /\ delivered \in [Convs -> [Users -> Nat]] /\ readTo \in [Convs -> [Users -> Nat]]
      /\ persisted \in [Convs -> [Devices -> Nat]] /\ status \in [Messages -> {SENT, DELIVERED, READ}]
      /\ \A c \in Convs, u \in Users : readTo[c][u] <= delivered[c][u] /\ delivered[c][u] <= latest[c]
  BY DEF ReceiptInv, Positions
<1>2. Friendly'
  BY DEF ReceiptInv, Friendly
<1>3. ReceiptsQuiet
  BY <1>1, <1>2 DEF ReceiptsQuiet
<1>4. \A c \in Convs, u \in Users : delivered[c][u] \in Nat /\ readTo[c][u] \in Nat
  BY <1>1
<1>5. \A c \in Convs, d \in Devices : persisted[c][d] \in Nat
  BY <1>1
<1>6. \A m \in Messages : status[m] \in Nat
  BY SMTT(30), <1>1 DEF SENT, DELIVERED, READ
<1>7. \A n \in Nat : n >= n
  BY SMTT(30)
<1>8. Grows
  BY <1>4, <1>5, <1>6, <1>7 DEF Grows
<1> QED BY <1>3, <1>8, ReceiptsStay

\* ... and those that change the states of one conversation, and nobody's who
\* stays in it.
LEMMA StatesChange ==
    ASSUME Inductive, ReceiptInv, QuietRequests, UNCHANGED <<seqOf, status, persisted, turned, reports, silent, latest>>,
           NEW c \in Convs, NEW seqs, States(c, seqs),
           \A u \in Users : joined[c][u] # 0 /\ seqs[u] # 0 => seqs[u] = joined[c][u],
           \/ c \in Groups /\ UNCHANGED friends
           \/ /\ c \in Pairs /\ friends' = friends \cup {c}
              /\ \A u \in Users : seqs[u] = IF u \in c THEN 1 ELSE 0
    PROVE  ReceiptInv' /\ Grows
<1>1. /\ delivered' \in [Convs -> [Users -> Nat]] /\ readTo' \in [Convs -> [Users -> Nat]]
      /\ \A d \in Convs \ {c} :
            joined'[d] = joined[d] /\ delivered'[d] = delivered[d] /\ readTo'[d] = readTo[d]
      /\ joined'[c] = seqs
      /\ \A u \in Users : seqs[u] = joined[c][u] => readTo'[c][u] = readTo[c][u]
      /\ \A d \in Convs, u \in Users :
            /\ joined[d][u] # 0 /\ joined'[d][u] # 0 =>
                  delivered'[d][u] >= delivered[d][u] /\ readTo'[d][u] >= readTo[d][u]
            /\ readTo'[d][u] <= delivered'[d][u] /\ delivered'[d][u] <= latest[d]
  <2>1. Moved(c, seqs)
    BY StatesMove
  <2> QED BY <2>1 DEF Moved
<1>2. \A p \in Pairs, u \in Users : joined[p][u] = IF p \in friends /\ u \in p THEN 1 ELSE 0
  BY DEF ReceiptInv, Friendly
<1>3. ASSUME NEW p \in Pairs, NEW u \in Users
      PROVE  /\ joined'[p][u] = IF p \in friends' /\ u \in p THEN 1 ELSE 0
             /\ p \in friends => readTo'[p][u] = readTo[p][u]
  <2>1. p \in Convs /\ p \notin Groups
    BY ConvKinds
  <2>2. CASE p # c
    <3>1. p \in friends' <=> p \in friends
      BY <2>2
    <3>2. joined'[p][u] = joined[p][u] /\ readTo'[p][u] = readTo[p][u]
      BY <1>1, <2>1, <2>2
    <3>3. joined[p][u] = IF p \in friends /\ u \in p THEN 1 ELSE 0
      BY <1>2
    <3> QED BY <3>1, <3>2, <3>3
  <2>3. CASE p = c
    BY <1>1, <1>2, <2>1, <2>3
  <2> QED BY <2>2, <2>3
<1>4. Friendly'
  BY <1>3 DEF Friendly
<1>5. ReceiptsQuiet
  <2>1. friends \subseteq friends'
    OBVIOUS
  <2>2. \A d \in Convs, u \in Users : readTo'[d][u] <= delivered'[d][u] /\ delivered'[d][u] <= latest[d]
    BY <1>1
  <2>3. \A p \in Pairs, u \in Users : p \in friends => readTo'[p][u] = readTo[p][u]
    BY <1>3
  <2> QED BY <1>1, <1>4, <2>1, <2>2, <2>3 DEF ReceiptsQuiet
<1>6. persisted \in [Convs -> [Devices -> Nat]] /\ status \in [Messages -> {SENT, DELIVERED, READ}]
  BY DEF ReceiptInv, Positions
<1>7. /\ \A d \in Convs, x \in Devices : persisted[d][x] \in Nat
      /\ \A n \in Nat : n >= n
  BY <1>6, SMTT(30)
<1>8. \A m \in Messages : status[m] \in Nat
  BY SMTT(30), <1>6 DEF SENT, DELIVERED, READ
<1>9. Grows
  BY <1>1, <1>7, <1>8 DEF Grows
<1> QED BY <1>5, <1>9, ReceiptsStay

\* Requests on groups: who is admitted had no state, and who goes has none left.
LEMMA GroupPositions ==
    ASSUME Inductive, ReceiptInv, NEW o \in Ops, GroupStep(o), UNCHANGED <<friendVars, receiptVars>>
    PROVE  ReceiptInv' /\ Grows
<1>1. o \in GroupOps
  BY DEF GroupStep, Create, Apply, Reply, Quit, Kick, CreateGroup, RequestJoin, AdmitMember,
         RejectApplicant, DissolveGroup, RemoveMember, Commits, GroupOps, GroupKinds
<1>2. UNCHANGED <<seqOf, status, persisted, turned, reports, silent, friends>>
  BY DEF friendVars, receiptVars
<1>3. ASSUME NEW allowed, OpenGroup(o, allowed) PROVE ReceiptInv' /\ Grows
  <2>1. UNCHANGED <<latest, joined, delivered, readTo, lost>>
    BY <1>3 DEF OpenGroup, tables
  <2>2. \E s \in {"locked", "done"} : Goto(o, s)
    BY <1>3 DEF OpenGroup, End
  <2>3. UNCHANGED answer \/ \E a : answer' = IF o \in lost THEN answer ELSE [answer EXCEPT ![o] = a]
    BY <1>3 DEF OpenGroup, End
  <2>4. UNCHANGED lock \/ \E x : Take(o, {GroupRow(x)})
    BY <1>3 DEF OpenGroup
  <2>5. QuietRequests
    BY <2>1, <2>2, <2>3, <2>4, RequestQuiet
  <2> QED BY <1>2, <2>1, <2>5, TablesStay
<1>4. ASSUME NEW kinds, Commits(o, kinds) PROVE QuietRequests /\ UNCHANGED latest
  <2>1. Goto(o, "done") /\ Release(o) /\ UNCHANGED <<lost, latest>>
    BY <1>4 DEF Commits, End
  <2>2. answer' = IF o \in lost THEN answer ELSE [answer EXCEPT ![o] = "success"]
    BY <1>4 DEF Commits, End
  <2> QED BY <2>1, <2>2, RequestQuiet
<1>5. CASE RequestJoin(o) \/ RejectApplicant(o)
  BY <1>2, <1>4, <1>5, TablesStay DEF RequestJoin, RejectApplicant
<1> DEFINE g == Op[o].group
           t == Op[o].target
<1>6. /\ g \in Groups /\ g \in Convs /\ t \in Users /\ joined[g] \in [Users -> Nat]
      /\ members[g] = {u \in Users : joined[g][u] # 0} /\ members[g] \cap applies[g] = {}
      /\ master[g] = NoUser => members[g] = {}
  <2>1. g \in Groups /\ g \in Convs /\ t \in Users
    BY <1>1, GroupConstants DEF Convs
  <2> QED BY <2>1 DEF Inductive, Tables, RosterIntact
<1>7. ASSUME NEW seqs, States(g, seqs), QuietRequests, UNCHANGED latest,
             \A u \in Users : joined[g][u] # 0 /\ seqs[u] # 0 => seqs[u] = joined[g][u]
      PROVE  ReceiptInv' /\ Grows
  BY <1>2, <1>6, <1>7, StatesChange
<1>8. CASE CreateGroup(o)
  <2>1. QuietRequests /\ UNCHANGED latest /\ Op[o].kind = "create" /\ stage[o] = "locked"
    BY <1>4, <1>8 DEF CreateGroup, Commits
  <2>2. \A u \in Users : joined[g][u] = 0
    BY <1>1, <1>6, <2>1 DEF Inductive, Fresh
  <2> QED BY <1>7, <1>8, <2>1, <2>2 DEF CreateGroup
<1>9. CASE AdmitMember(o)
  <2>1. QuietRequests /\ UNCHANGED latest /\ Op[o].kind = "admit" /\ stage[o] = "locked"
    BY <1>4, <1>9 DEF AdmitMember, Commits
  <2>2. joined[g][t] = 0
    BY <1>1, <1>6, <2>1 DEF Inductive, Decided, Granted
  <2>3. \A u \in Users : joined[g][u] # 0 => [joined[g] EXCEPT ![t] = latest[g] + 1][u] = joined[g][u]
    BY <1>6, <2>2
  <2>4. States(g, [joined[g] EXCEPT ![t] = latest[g] + 1])
    BY <1>9 DEF AdmitMember
  <2> QED BY <1>7, <2>1, <2>3, <2>4
<1>10. CASE DissolveGroup(o)
  <2>1. QuietRequests /\ UNCHANGED latest /\ States(g, [u \in Users |-> 0])
    BY <1>4, <1>10 DEF DissolveGroup
  <2>2. \A u \in Users : [x \in Users |-> 0][u] = 0
    OBVIOUS
  <2> QED BY <1>7, <2>1, <2>2
<1>11. CASE RemoveMember(o)
  <2>1. QuietRequests /\ UNCHANGED latest /\ States(g, [joined[g] EXCEPT ![t] = 0])
    BY <1>4, <1>11 DEF RemoveMember
  <2>2. \A u \in Users : [joined[g] EXCEPT ![t] = 0][u] \in {joined[g][u], 0}
    BY <1>6
  <2> QED BY <1>7, <2>1, <2>2
<1> QED BY <1>3, <1>5, <1>8, <1>9, <1>10, <1>11 DEF GroupStep, Create, Apply, Reply, Quit, Kick

\* A friendship gives its users a state, once.
LEMMA FriendPositions ==
    ASSUME Inductive, ReceiptInv, NEW o \in Ops, FriendStep(o), UNCHANGED receiptVars
    PROVE  ReceiptInv' /\ Grows
<1>1. o \in FriendOps /\ UNCHANGED lost
  BY DEF FriendStep, StoreApplication, StoreSecondCopy, OpenFriendship, CommitFriendship,
         MarkFirstCopy, MarkSecondCopy, FriendOps, FriendKinds
<1>2. UNCHANGED <<seqOf, status, persisted, turned, reports, silent>>
  BY DEF receiptVars
<1>3. \E s \in {"first", "befriending", "mark", "marked", "done"} : Goto(o, s)
  BY DEF FriendStep, StoreApplication, StoreSecondCopy, OpenFriendship, CommitFriendship,
         MarkFirstCopy, MarkSecondCopy, End
<1>4. UNCHANGED answer \/ \E a : answer' = IF o \in lost THEN answer ELSE [answer EXCEPT ![o] = a]
  BY DEF FriendStep, StoreApplication, StoreSecondCopy, OpenFriendship, CommitFriendship,
         MarkFirstCopy, MarkSecondCopy, End
<1>5. UNCHANGED lock \/ Release(o) \/ \E x : Take(o, {FriendRow(x)})
  BY DEF FriendStep, StoreApplication, StoreSecondCopy, OpenFriendship, CommitFriendship,
         MarkFirstCopy, MarkSecondCopy
<1>6. QuietRequests
  BY <1>1, <1>3, <1>4, <1>5, RequestQuiet
<1>7. CASE CommitFriendship(o)
  <2> DEFINE p == PairOf(o)
             seqs == [u \in Users |-> IF u \in p THEN 1 ELSE 0]
  <2>1. States(p, seqs) /\ friends' = friends \cup {p} /\ UNCHANGED latest
    BY <1>7 DEF CommitFriendship
  <2>2. p \in Pairs /\ p \in Convs
    BY <1>1, Copies, ConvKinds
  <2>3. \A u \in Users : joined[p][u] = IF p \in friends /\ u \in p THEN 1 ELSE 0
    BY <2>2 DEF ReceiptInv, Friendly
  <2>4. \A u \in Users : seqs[u] = IF u \in p THEN 1 ELSE 0
    OBVIOUS
  <2>5. \A u \in Users : joined[p][u] # 0 /\ seqs[u] # 0 => seqs[u] = joined[p][u]
    BY <2>3, <2>4
  <2>6. \/ p \in Groups /\ UNCHANGED friends
        \/ /\ p \in Pairs /\ friends' = friends \cup {p}
           /\ \A u \in Users : seqs[u] = IF u \in p THEN 1 ELSE 0
    BY <2>1, <2>2, <2>4
  <2> HIDE DEF seqs, p
  <2> QED BY <1>2, <1>6, <2>1, <2>2, <2>5, <2>6, StatesChange
<1>8. CASE ~CommitFriendship(o)
  <2>1. UNCHANGED <<latest, joined, delivered, readTo, friends>>
    BY <1>8 DEF FriendStep, StoreApplication, StoreSecondCopy, OpenFriendship,
                MarkFirstCopy, MarkSecondCopy, tables, friendVars
  <2> QED BY <1>2, <1>6, <2>1, TablesStay
<1> QED BY <1>7, <1>8

\* Failed calls and rollbacks.
LEMMA FaultPositions ==
    ASSUME Inductive, ReceiptInv, NEW o \in Ops, Settle(o) \/ Fault(o)
    PROVE  ReceiptInv' /\ Grows
<1>1. UNCHANGED <<seqOf, status, persisted, turned, reports, silent, latest, joined, delivered, readTo, friends>>
  BY DEF Settle, Rollback, Fault, FriendGiveUp, Abort, tables, receiptVars, friendVars
<1>2. stage \in [Ops -> Stages] /\ answer \in [Ops -> Answers]
  BY DEF Inductive, Tables
<1>3. /\ stage'[o] \in {stage[o], "done"} /\ \A q \in Ops \ {o} : stage'[q] = stage[q]
      /\ lost \subseteq lost' /\ \A q \in Ops : q \in lost' /\ q \notin lost => answer'[q] = "failed"
      /\ \A q \in Ops : answer'[q] \in {answer[q], "failed"}
  <2>1. CASE Settle(o)
    BY <1>2, <2>1 DEF Settle, Rollback, Drop
  <2>2. CASE Fault(o)
    <3>1. GiveUp(o, Waiting)
      BY <2>2 DEF Fault, FriendGiveUp, Abort
    <3>2. stage'[o] \in {stage[o], "done"} /\ \A q \in Ops \ {o} : stage'[q] = stage[q]
      BY <1>2, <3>1 DEF GiveUp
    <3>3. answer'[o] = "failed" /\ \A q \in Ops \ {o} : answer'[q] = answer[q]
      BY <1>2, <3>1 DEF GiveUp
    <3>4. lost \subseteq lost' /\ lost' \subseteq lost \cup {o}
      BY <3>1 DEF GiveUp
    <3> QED BY <3>2, <3>3, <3>4
  <2> QED BY <2>1, <2>2
<1>4. UNCHANGED lock \/ (Release(o) /\ stage'[o] = "done")
  BY <1>2 DEF Settle, Rollback, Drop, Fault, FriendGiveUp, Abort
<1>5. ASSUME NEW r \in ReceiptOps, stage'[r] = "acking"
      PROVE  stage[r] = "acking" /\ lock'[ConvRow(ConvOf(r))] = lock[ConvRow(ConvOf(r))]
  <2>1. stage[r] = "acking" /\ r \in Ops
    BY <1>3, <1>5, ReceiptIs
  <2>2. ConvRow(ConvOf(r)) \in LockedRows /\ lock[ConvRow(ConvOf(r))] = r
    BY <2>1, ReceiptIs DEF ReceiptInv, Acking
  <2> QED BY <1>4, <1>5, <2>1, <2>2 DEF Release
<1>6. \A q \in Ops : stage'[q] = "new" => stage[q] = "new"
  BY <1>3
<1>7. \A q \in Ops : q \in lost' => answer'[q] = "failed"
  BY <1>3 DEF ReceiptInv
<1>8. QuietRequests
  BY <1>3, <1>5, <1>6, <1>7 DEF QuietRequests
<1> QED BY <1>1, <1>8, TablesStay

LEMMA GreatestIs ==
    ASSUME NEW a \in Nat, NEW b \in Nat
    PROVE  /\ Greatest(a, b) \in Nat /\ Greatest(a, b) \in {a, b}
           /\ Greatest(a, b) >= a /\ Greatest(a, b) >= b
<1>1. \E x \in {a, b} : \A y \in {a, b} : x >= y
  BY SMTT(30)
<1>2. Greatest(a, b) \in {a, b} /\ \A y \in {a, b} : Greatest(a, b) >= y
  BY <1>1 DEF Greatest, Max
<1> QED BY <1>2

\* Who has a state of a conversation of two users is one of the two.
LEMMA FriendsOnly ==
    ASSUME ReceiptInv
    PROVE  /\ UNCHANGED <<joined, friends>> => Friendly'
           /\ \A c \in Convs, u \in Users :
                 c \notin Groups /\ joined[c][u] # 0 => c \in friends /\ u \in c
<1>1. Friendly
  BY DEF ReceiptInv
<1>2. UNCHANGED <<joined, friends>> => Friendly'
  BY <1>1 DEF Friendly
<1>3. ASSUME NEW c \in Convs, NEW u \in Users, c \notin Groups, joined[c][u] # 0
      PROVE  c \in friends /\ u \in c
  <2>1. c \in Pairs
    BY <1>3, ConvKinds
  <2>2. joined[c][u] = IF c \in friends /\ u \in c THEN 1 ELSE 0
    BY <1>1, <2>1 DEF Friendly
  <2> QED BY <1>3, <2>2
<1> QED BY <1>2, <1>3

\* A receipt begins, with the row of its conversation.
LEMMA OpenPositions ==
    ASSUME Inductive, ReceiptInv, NEW o \in ReceiptOps, OpenReceipt(o), UNCHANGED friendVars
    PROVE  ReceiptInv' /\ Grows
<1> DEFINE m == Op[o].message
           c == ConvOf(o)
           u == Op[o].actor
<1>1. /\ o \in Ops /\ m \in Messages /\ c \in Convs /\ u \in Users /\ c = Msg[m].conv
      /\ ConvRow(c) \in LockedRows /\ o # NoOp
  BY ReceiptIs
<1>2. /\ stage[o] = "new" /\ lock[ConvRow(c)] \in {NoOp, o}
      /\ UNCHANGED <<latest, joined, delivered, readTo, lost, seqOf, status, persisted, reports, silent, friends>>
  BY DEF OpenReceipt, Begins, Free, tables, friendVars
<1>3. CASE ~(seqOf[m] # 0 /\ joined[c][u] # 0)
  <2>1. End(o, "refused") /\ UNCHANGED <<lock, turned>>
    BY <1>3 DEF OpenReceipt
  <2>2. Goto(o, "done") /\ answer' = IF o \in lost THEN answer ELSE [answer EXCEPT ![o] = "refused"]
    BY <2>1 DEF End
  <2>3. QuietRequests
    BY <1>1, <1>2, <2>1, <2>2, RequestQuiet
  <2> QED BY <1>2, <2>1, <2>3, TablesStay
<1>4. CASE seqOf[m] # 0 /\ joined[c][u] # 0
  <2> DEFINE turns == DirectRecipient(o) /\ NewStatus(o) = READ /\ status[m] < READ
  <2>1. /\ turned' = (IF turns THEN turned \cup {o} ELSE turned)
        /\ Take(o, {ConvRow(c)}) /\ Goto(o, "acking") /\ UNCHANGED answer
    BY <1>4 DEF OpenReceipt
  <2>2. stage'[o] \in {"acking", "done"} /\ \A q \in Ops \ {o} : stage'[q] = stage[q]
    BY <1>1, <2>1 DEF Goto, Inductive, Tables
  <2>3. Positions' /\ Friendly'
    <3>1. Positions'
      BY <1>2 DEF ReceiptInv, Positions
    <3> QED BY <1>2, <3>1, FriendsOnly
  <2>4. turns <=> DirectRecipient(o) /\ Op[o].kind = "read" /\ status[m] # READ
    <3>1. status[m] \in {1, 2, 3}
      BY <1>1 DEF ReceiptInv, Positions, SENT, DELIVERED, READ
    <3>2. status[m] < READ <=> status[m] # READ
      BY SMTT(30), <3>1 DEF READ
    <3>3. NewStatus(o) = READ <=> Op[o].kind = "read"
      BY SMTT(30) DEF NewStatus, READ, DELIVERED
    <3> QED BY <3>2, <3>3
  <2>5. ASSUME NEW r \in ReceiptOps, stage'[r] = "acking" PROVE Acking(r)'
    <3>1. CASE r = o
      <4>1. lock'[ConvRow(c)] = o
        BY <1>1, <2>1 DEF Take
      <4>2. c \notin Groups => c \in friends /\ u \in c
        BY <1>1, <1>4, FriendsOnly
      <4>3. o \in turned' <=> turns
        BY <1>1, <1>2, <2>1 DEF ReceiptInv
      <4>4. UNCHANGED <<seqOf, status, friends>> /\ seqOf[m] # 0
        BY <1>2, <1>4
      <4> QED BY <2>4, <3>1, <4>1, <4>2, <4>3, <4>4 DEF Acking, ConvOf, DirectRecipient
    <3>2. CASE r # o
      <4>1. r \in Ops /\ r # NoOp /\ ConvRow(ConvOf(r)) \in LockedRows
        BY ReceiptIs
      <4>2. stage[r] = "acking" /\ Acking(r)
        BY <2>2, <2>5, <3>2, <4>1 DEF ReceiptInv
      <4>3. lock[ConvRow(ConvOf(r))] = r
        BY <4>2 DEF Acking
      <4>4. ConvRow(ConvOf(r)) # ConvRow(c)
        BY <1>2, <3>2, <4>1, <4>3
      <4>5. lock'[ConvRow(ConvOf(r))] = r
        BY <2>1, <4>1, <4>3, <4>4 DEF Take
      <4>6. r \in turned' <=> r \in turned
        BY <2>1, <3>2
      <4> QED BY <1>2, <4>2, <4>5, <4>6 DEF Acking, ConvOf, DirectRecipient
    <3> QED BY <3>1, <3>2
  <2>6. \A q \in Messages : status'[q] = READ => ReadIs(q)'
    BY <1>2 DEF ReceiptInv, ReadIs
  <2>7. \A q \in Ops : stage'[q] = "new" => q \notin turned'
    BY <2>1, <2>2 DEF ReceiptInv
  <2>8. ReceiptInv'
    BY <1>2, <2>1, <2>3, <2>5, <2>6, <2>7 DEF ReceiptInv
  <2>9. Grows
    <3>1. /\ delivered \in [Convs -> [Users -> Nat]] /\ readTo \in [Convs -> [Users -> Nat]]
          /\ persisted \in [Convs -> [Devices -> Nat]] /\ status \in [Messages -> {SENT, DELIVERED, READ}]
      BY DEF ReceiptInv, Positions
    <3>2. (\A d \in Convs, v \in Users : delivered[d][v] \in Nat /\ readTo[d][v] \in Nat)
          /\ \A d \in Convs, v \in Devices : persisted[d][v] \in Nat
      BY <3>1
    <3>3. \A q \in Messages : status[q] \in Nat
      BY SMTT(30), <3>1 DEF SENT, DELIVERED, READ
    <3>4. \A n \in Nat : n >= n
      BY SMTT(30)
    <3> QED BY <1>2, <3>2, <3>3, <3>4 DEF Grows
  <2> QED BY <2>8, <2>9
<1> QED BY <1>3, <1>4

\* A message is stored with the next number.
LEMMA MessagePositions ==
    ASSUME Inductive, ReceiptInv, NEW m \in Messages, StoreMessage(m), UNCHANGED friendVars
    PROVE  ReceiptInv' /\ Grows
<1> DEFINE c == Msg[m].conv
<1>1. c \in Convs /\ Msg[m].sender \in Users /\ \A q \in Messages : Msg[q].conv \in Convs
  BY ReceiptConstants
<1>2. /\ seqOf[m] = 0 /\ joined[c][Msg[m].sender] # 0
      /\ latest' = [latest EXCEPT ![c] = latest[c] + 1]
      /\ seqOf' = [seqOf EXCEPT ![m] = latest[c] + 1]
      /\ UNCHANGED <<joined, delivered, readTo, lock, stage, lost, answer, status, persisted, turned, reports, silent, friends>>
  BY DEF StoreMessage, requestVars, friendVars
<1>3. /\ latest \in [Convs -> Nat] /\ seqOf \in [Messages -> Nat]
      /\ delivered \in [Convs -> [Users -> Nat]] /\ readTo \in [Convs -> [Users -> Nat]]
      /\ persisted \in [Convs -> [Devices -> Nat]] /\ status \in [Messages -> {SENT, DELIVERED, READ}]
      /\ reports \in [Messages -> {0, 1}]
      /\ \A d \in Convs, v \in Users : readTo[d][v] <= delivered[d][v] /\ delivered[d][v] <= latest[d]
      /\ \A q \in Messages : seqOf[q] <= latest[Msg[q].conv]
  BY DEF Inductive, Tables, ReceiptInv, Positions
<1>4. latest[c] + 1 \in Nat /\ latest[c] + 1 # 0
  BY SMTT(30), <1>1, <1>3
<1>5. /\ seqOf' \in [Messages -> Nat] /\ seqOf'[m] = latest[c] + 1
      /\ \A q \in Messages \ {m} : seqOf'[q] = seqOf[q]
      /\ latest'[c] = latest[c] + 1 /\ \A d \in Convs \ {c} : latest'[d] = latest[d]
  BY <1>1, <1>2, <1>3, <1>4
<1>6. \A d \in Convs : latest'[d] \in Nat /\ latest[d] <= latest'[d]
  <2>1. \A d \in Convs : latest[d] \in Nat /\ (latest'[d] = latest[d] \/ latest'[d] = latest[d] + 1)
    BY <1>3, <1>5
  <2> QED BY SMTT(30), <2>1
<1>7. \A q \in Messages : seqOf'[q] <= latest'[Msg[q].conv]
  <2>1. ASSUME NEW q \in Messages, q # m PROVE seqOf'[q] <= latest'[Msg[q].conv]
    <3>1. /\ seqOf'[q] = seqOf[q] /\ seqOf[q] \in Nat /\ seqOf[q] <= latest[Msg[q].conv]
          /\ latest[Msg[q].conv] \in Nat /\ latest'[Msg[q].conv] \in Nat
          /\ latest[Msg[q].conv] <= latest'[Msg[q].conv]
      BY <1>1, <1>3, <1>5, <1>6, <2>1
    <3> QED BY SMTT(30), <3>1
  <2>2. seqOf'[m] <= latest'[c]
    BY SMTT(30), <1>4, <1>5
  <2> QED BY <2>1, <2>2
<1>8. \A d \in Convs, v \in Users : readTo[d][v] <= delivered[d][v] /\ delivered[d][v] <= latest'[d]
  <2>1. ASSUME NEW d \in Convs, NEW v \in Users PROVE readTo[d][v] <= delivered[d][v] /\ delivered[d][v] <= latest'[d]
    <3>1. /\ delivered[d][v] \in Nat /\ latest[d] \in Nat /\ latest'[d] \in Nat /\ latest[d] <= latest'[d]
          /\ readTo[d][v] <= delivered[d][v] /\ delivered[d][v] <= latest[d]
      BY <1>3, <1>6
    <3> QED BY SMTT(30), <3>1
  <2> QED BY <2>1
<1>9. Positions'
  BY <1>2, <1>3, <1>5, <1>7, <1>8 DEF Positions
<1>10. Friendly'
  BY <1>2, FriendsOnly
<1>11. ASSUME NEW o \in ReceiptOps, stage'[o] = "acking" PROVE Acking(o)'
  <2>1. Acking(o) /\ Op[o].message \in Messages
    BY <1>2, <1>11, ReceiptIs DEF ReceiptInv
  <2>2. seqOf'[Op[o].message] # 0
    BY <1>2, <1>5, <2>1 DEF Acking
  <2> QED BY <1>2, <2>1, <2>2 DEF Acking, ConvOf, DirectRecipient
<1>12. \A q \in Messages : seqOf'[q] # 0 /\ Msg[q].conv \notin Groups => Msg[q].sender \in Msg[q].conv
  <2>1. c \notin Groups => Msg[m].sender \in c
    BY <1>1, <1>2, FriendsOnly
  <2> QED BY <1>5, <2>1 DEF ReceiptInv
<1>13. ASSUME NEW q \in Messages, status'[q] = READ PROVE ReadIs(q)'
  <2>1. ReadIs(q)
    BY <1>2, <1>13 DEF ReceiptInv
  <2>2. q # m /\ seqOf'[q] = seqOf[q]
    BY <1>2, <1>5, <2>1 DEF ReadIs
  <2> QED BY <1>2, <2>1, <2>2 DEF ReadIs
<1>14. ReceiptInv'
  BY <1>2, <1>9, <1>10, <1>11, <1>12, <1>13 DEF ReceiptInv
<1>15. Grows
  <2>1. (\A d \in Convs, v \in Users : delivered[d][v] \in Nat /\ readTo[d][v] \in Nat)
        /\ \A d \in Convs, v \in Devices : persisted[d][v] \in Nat
    BY <1>3
  <2>2. \A q \in Messages : status[q] \in Nat
    BY SMTT(30), <1>3 DEF SENT, DELIVERED, READ
  <2>3. \A n \in Nat : n >= n
    BY SMTT(30)
  <2> QED BY <1>2, <2>1, <2>2, <2>3 DEF Grows
<1> QED BY <1>14, <1>15

\* The UPDATEs of a receipt: positions and the status by GREATEST.
LEMMA CommitMoves ==
    ASSUME Inductive, ReceiptInv, NEW o \in ReceiptOps, CommitReceipt(o)
    PROVE  /\ Positions' /\ Grows
           /\ \A c \in Convs, u \in Users : readTo'[c][u] >= readTo[c][u]
           /\ Op[o].kind = "read" => readTo'[ConvOf(o)][Op[o].actor] >= seqOf[Op[o].message]
<1> DEFINE m == Op[o].message
           c == ConvOf(o)
           u == Op[o].actor
           x == Op[o].device
           n == seqOf[m]
<1>1. o \in Ops /\ m \in Messages /\ c \in Convs /\ u \in Users /\ x \in Devices /\ c = Msg[m].conv
  BY ReceiptIs
<1>2. /\ seqOf \in [Messages -> Nat] /\ status \in [Messages -> {SENT, DELIVERED, READ}]
      /\ reports \in [Messages -> {0, 1}] /\ latest \in [Convs -> Nat]
      /\ delivered \in [Convs -> [Users -> Nat]] /\ readTo \in [Convs -> [Users -> Nat]]
      /\ persisted \in [Convs -> [Devices -> Nat]]
      /\ \A d \in Convs, v \in Users : readTo[d][v] <= delivered[d][v] /\ delivered[d][v] <= latest[d]
      /\ \A q \in Messages : seqOf[q] <= latest[Msg[q].conv]
  BY DEF Inductive, Tables, ReceiptInv, Positions
<1>3. /\ n \in Nat /\ latest[c] \in Nat /\ n <= latest[c]
      /\ delivered[c][u] \in Nat /\ readTo[c][u] \in Nat /\ persisted[c][x] \in Nat
      /\ readTo[c][u] <= delivered[c][u] /\ delivered[c][u] <= latest[c]
      /\ status[m] \in {SENT, DELIVERED, READ} /\ NewStatus(o) \in {DELIVERED, READ}
  BY <1>1, <1>2 DEF NewStatus
<1> DEFINE dn == Greatest(delivered[c][u], n)
           rn == IF NewStatus(o) = READ THEN Greatest(readTo[c][u], n) ELSE readTo[c][u]
           pn == Greatest(persisted[c][x], n)
           sn == IF DirectRecipient(o) THEN Greatest(status[m], NewStatus(o)) ELSE status[m]
<1>4. /\ delivered' = [delivered EXCEPT ![c] = [delivered[c] EXCEPT ![u] = dn]]
      /\ readTo' = [readTo EXCEPT ![c] = [readTo[c] EXCEPT ![u] = rn]]
      /\ persisted' = [persisted EXCEPT ![c] = [persisted[c] EXCEPT ![x] = pn]]
      /\ status' = (IF DirectRecipient(o) THEN [status EXCEPT ![m] = Greatest(status[m], NewStatus(o))] ELSE status)
      /\ UNCHANGED <<latest, joined, seqOf>>
  <2>1. /\ delivered' = [delivered EXCEPT ![c][u] = Advance(@, n)]
        /\ readTo' = [readTo EXCEPT ![c][u] = IF NewStatus(o) = READ THEN Advance(@, n) ELSE @]
        /\ persisted' = [persisted EXCEPT ![c][x] = Advance(@, n)]
        /\ status' = (IF DirectRecipient(o) THEN [status EXCEPT ![m] = Greatest(@, NewStatus(o))] ELSE status)
        /\ UNCHANGED <<latest, joined, seqOf>>
    BY DEF CommitReceipt
  <2>2. /\ Advance(delivered[c][u], n) = dn /\ Advance(persisted[c][x], n) = pn
        /\ Advance(readTo[c][u], n) = Greatest(readTo[c][u], n)
    BY DEF Advance
  <2> QED BY <2>1, <2>2
<1>5. /\ dn \in Nat /\ dn >= delivered[c][u] /\ dn >= n /\ dn \in {delivered[c][u], n}
      /\ pn \in Nat /\ pn >= persisted[c][x]
  BY <1>3, GreatestIs
<1>6. /\ rn \in Nat /\ rn >= readTo[c][u] /\ rn \in {readTo[c][u], n} /\ (NewStatus(o) = READ => rn >= n)
  <2>1. CASE NewStatus(o) = READ
    BY <1>3, <2>1, GreatestIs
  <2>2. CASE NewStatus(o) # READ
    <3>1. readTo[c][u] >= readTo[c][u]
      BY SMTT(30), <1>3
    <3> QED BY <1>3, <2>2, <3>1
  <2> QED BY <2>1, <2>2
<1>7. rn <= dn /\ dn <= latest[c]
  <2> HIDE DEF rn, dn, n
  <2> QED BY SMTT(30), <1>3, <1>5, <1>6
<1> HIDE DEF rn, dn, pn
<1>8. /\ delivered' \in [Convs -> [Users -> Nat]] /\ readTo' \in [Convs -> [Users -> Nat]]
      /\ persisted' \in [Convs -> [Devices -> Nat]]
  <2>1. /\ delivered[c] \in [Users -> Nat] /\ readTo[c] \in [Users -> Nat] /\ persisted[c] \in [Devices -> Nat]
    BY <1>1, <1>2
  <2>2. /\ [delivered[c] EXCEPT ![u] = dn] \in [Users -> Nat] /\ [readTo[c] EXCEPT ![u] = rn] \in [Users -> Nat]
        /\ [persisted[c] EXCEPT ![x] = pn] \in [Devices -> Nat]
    BY <1>5, <1>6, <2>1
  <2> QED BY <1>2, <1>4, <2>2
<1>9. /\ delivered'[c][u] = dn /\ readTo'[c][u] = rn
      /\ \A d \in Convs, v \in Users :
            (d = c /\ v = u) \/ (delivered'[d][v] = delivered[d][v] /\ readTo'[d][v] = readTo[d][v])
      /\ \A d \in Convs, y \in Devices : persisted'[d][y] = IF d = c /\ y = x THEN pn ELSE persisted[d][y]
  <2>1. /\ delivered'[c] = [delivered[c] EXCEPT ![u] = dn] /\ readTo'[c] = [readTo[c] EXCEPT ![u] = rn]
        /\ persisted'[c] = [persisted[c] EXCEPT ![x] = pn]
        /\ \A d \in Convs \ {c} : delivered'[d] = delivered[d] /\ readTo'[d] = readTo[d] /\ persisted'[d] = persisted[d]
    BY <1>1, <1>2, <1>4
  <2>2. delivered[c] \in [Users -> Nat] /\ readTo[c] \in [Users -> Nat] /\ persisted[c] \in [Devices -> Nat]
    BY <1>1, <1>2
  <2>3. /\ delivered'[c][u] = dn /\ readTo'[c][u] = rn /\ persisted'[c][x] = pn
        /\ \A v \in Users \ {u} : delivered'[c][v] = delivered[c][v] /\ readTo'[c][v] = readTo[c][v]
        /\ \A y \in Devices \ {x} : persisted'[c][y] = persisted[c][y]
    BY <1>1, <2>1, <2>2
  <2>4. ASSUME NEW d \in Convs, NEW v \in Users
        PROVE  (d = c /\ v = u) \/ (delivered'[d][v] = delivered[d][v] /\ readTo'[d][v] = readTo[d][v])
    <3>1. CASE d # c
      <4>1. delivered'[d] = delivered[d] /\ readTo'[d] = readTo[d]
        BY <2>1, <3>1
      <4> QED BY <4>1
    <3>2. CASE d = c /\ v # u
      <4>1. delivered'[c][v] = delivered[c][v] /\ readTo'[c][v] = readTo[c][v]
        BY <2>3, <3>2
      <4> QED BY <3>2, <4>1
    <3>3. CASE d = c /\ v = u
      BY <3>3
    <3> QED BY <3>1, <3>2, <3>3
  <2>5. ASSUME NEW d \in Convs, NEW y \in Devices
        PROVE  persisted'[d][y] = IF d = c /\ y = x THEN pn ELSE persisted[d][y]
    <3>1. CASE d # c
      <4>1. persisted'[d] = persisted[d]
        BY <2>1, <3>1
      <4> QED BY <3>1, <4>1
    <3>2. CASE d = c
      BY <2>3, <3>2
    <3> QED BY <3>1, <3>2
  <2> QED BY <2>3, <2>4, <2>5
<1>10. ASSUME NEW d \in Convs, NEW v \in Users
       PROVE  /\ delivered'[d][v] >= delivered[d][v] /\ readTo'[d][v] >= readTo[d][v]
              /\ readTo'[d][v] <= delivered'[d][v] /\ delivered'[d][v] <= latest'[d]
  <2>1. CASE d = c /\ v = u
    BY <1>4, <1>5, <1>6, <1>7, <1>9, <2>1
  <2>2. CASE ~(d = c /\ v = u)
    <3>1. delivered'[d][v] = delivered[d][v] /\ readTo'[d][v] = readTo[d][v] /\ latest'[d] = latest[d]
      BY <1>4, <1>9, <2>2
    <3>2. /\ readTo[d][v] <= delivered[d][v] /\ delivered[d][v] <= latest[d]
          /\ readTo[d][v] \in Nat /\ delivered[d][v] \in Nat
      BY <1>2
    <3> QED BY SMTT(30), <3>1, <3>2
  <2> QED BY <2>1, <2>2
<1>11. \A d \in Convs, y \in Devices : persisted'[d][y] >= persisted[d][y]
  <2>1. \A k \in Nat : k >= k
    BY SMTT(30)
  <2>2. \A d \in Convs, y \in Devices : persisted[d][y] \in Nat
    BY <1>2
  <2> QED BY <1>5, <1>9, <2>1, <2>2
<1>12. /\ status' \in [Messages -> {SENT, DELIVERED, READ}]
       /\ \A q \in Messages : status'[q] >= status[q]
  <2>1. {SENT, DELIVERED, READ} \subseteq Nat /\ \A k \in {SENT, DELIVERED, READ} : k >= k
    BY SMTT(30) DEF SENT, DELIVERED, READ
  <2>2. Greatest(status[m], NewStatus(o)) \in {SENT, DELIVERED, READ} /\ Greatest(status[m], NewStatus(o)) >= status[m]
    BY <1>3, <2>1, GreatestIs
  <2>3. status'[m] >= status[m] /\ \A q \in Messages \ {m} : status'[q] = status[q]
    BY <1>1, <1>2, <1>3, <1>4, <2>1, <2>2
  <2>4. status' \in [Messages -> {SENT, DELIVERED, READ}]
    BY <1>2, <1>4, <2>2
  <2> QED BY <1>2, <2>1, <2>3, <2>4
<1>13. reports' \in [Messages -> {0, 1}]
  <2>1. stage[o] = "acking" /\ Report(o)
    BY DEF CommitReceipt
  <2>2. CASE o \notin turned \ lost
    BY <1>2, <2>1, <2>2 DEF Report
  <2>3. CASE o \in turned \ lost
    <3>1. status[m] # READ
      BY <2>1, <2>3 DEF ReceiptInv, Acking
    <3>2. reports[m] = 0
      BY <1>1, <1>2, <3>1 DEF ReceiptInv
    <3>3. reports' = [reports EXCEPT ![m] = reports[m] + 1]
      BY <2>1, <2>3 DEF Report
    <3>4. reports[m] + 1 = 1
      BY SMTT(30), <3>2
    <3> QED BY <1>2, <3>3, <3>4
  <2> QED BY <2>2, <2>3
<1>14. Positions'
  BY <1>2, <1>4, <1>8, <1>10, <1>12, <1>13 DEF Positions
<1>15. Grows
  BY <1>10, <1>11, <1>12 DEF Grows
<1>16. Op[o].kind = "read" => readTo'[c][u] >= n
  BY <1>6, <1>9 DEF NewStatus
<1> QED BY <1>10, <1>14, <1>15, <1>16

\* A receipt is stored: what it decided when it began is still so, as it held
\* the row of its conversation.
LEMMA CommitPositions ==
    ASSUME Inductive, ReceiptInv, NEW o \in ReceiptOps, CommitReceipt(o), UNCHANGED friendVars
    PROVE  ReceiptInv' /\ Grows
<1> DEFINE m == Op[o].message
           c == ConvOf(o)
           u == Op[o].actor
<1>1. /\ o \in Ops /\ m \in Messages /\ c \in Convs /\ u \in Users /\ c = Msg[m].conv
      /\ ConvRow(c) \in LockedRows /\ o # NoOp
  BY ReceiptIs
<1>2. /\ stage[o] = "acking" /\ Release(o) /\ End(o, "success") /\ Report(o) /\ turned' = turned \ {o}
      /\ UNCHANGED <<latest, joined, lost, seqOf, friends>>
  BY DEF CommitReceipt, friendVars
<1>3. Acking(o)
  BY <1>2 DEF ReceiptInv
<1>4. /\ stage \in [Ops -> Stages] /\ answer \in [Ops -> Answers]
      /\ seqOf \in [Messages -> Nat] /\ status \in [Messages -> {SENT, DELIVERED, READ}]
      /\ reports \in [Messages -> {0, 1}]
  BY DEF Inductive, Tables, ReceiptInv, Positions
<1>5. /\ Positions' /\ Grows /\ \A d \in Convs, v \in Users : readTo'[d][v] >= readTo[d][v]
      /\ Op[o].kind = "read" => readTo'[c][u] >= seqOf[m]
  BY CommitMoves
<1>6. /\ stage'[o] = "done" /\ \A q \in Ops \ {o} : stage'[q] = stage[q] /\ answer'[q] = answer[q]
  BY <1>1, <1>2, <1>4 DEF End, Goto
<1>7. \A q \in Messages \ {m} : status'[q] = status[q] /\ reports'[q] = reports[q] /\ (q \in silent' <=> q \in silent)
  <2>1. status' = IF DirectRecipient(o) THEN [status EXCEPT ![m] = Greatest(@, NewStatus(o))] ELSE status
    BY DEF CommitReceipt
  <2>2. reports' = IF o \in turned \ lost THEN [reports EXCEPT ![m] = @ + 1] ELSE reports
    BY <1>2 DEF Report
  <2>3. \A q \in Messages \ {m} : status'[q] = status[q]
    BY <1>4, <2>1
  <2>4. \A q \in Messages \ {m} : reports'[q] = reports[q]
    BY <1>4, <2>2
  <2>5. \A q \in Messages \ {m} : q \in silent' <=> q \in silent
    BY <1>2 DEF Report
  <2> QED BY <2>3, <2>4, <2>5
<1>8. ASSUME NEW r \in ReceiptOps, stage'[r] = "acking" PROVE Acking(r)'
  <2>1. r \in Ops /\ r # o /\ stage[r] = "acking" /\ Op[r].message \in Messages
    BY <1>6, <1>8, ReceiptIs
  <2>2. Acking(r)
    BY <2>1 DEF ReceiptInv
  <2>3. ConvOf(r) # c
    BY <1>3, <2>1, <2>2 DEF Acking
  <2>4. Op[r].message # m
    BY <2>3 DEF ConvOf
  <2>5. status'[Op[r].message] = status[Op[r].message]
    BY <1>7, <2>1, <2>4
  <2>6. lock'[ConvRow(ConvOf(r))] = r
    BY <1>2, <2>1, <2>2, ReceiptIs DEF Acking, Release
  <2>7. r \in turned' <=> r \in turned
    BY <1>2, <2>1
  <2> QED BY <1>2, <2>2, <2>5, <2>6, <2>7 DEF Acking
<1>9. /\ \A q \in Messages : seqOf'[q] # 0 /\ Msg[q].conv \notin Groups => Msg[q].sender \in Msg[q].conv
      /\ \A q \in Ops : stage'[q] = "new" => q \notin turned'
  BY <1>1, <1>2, <1>6 DEF ReceiptInv
<1>10. ASSUME NEW q \in Ops, q \in lost' PROVE answer'[q] = "failed"
  <2>1. q \in lost /\ answer[q] = "failed"
    BY <1>2, <1>10 DEF ReceiptInv
  <2>2. CASE q = o
    BY <1>2, <2>1, <2>2 DEF End
  <2>3. CASE q # o
    BY <1>6, <2>1, <2>3
  <2> QED BY <2>2, <2>3
<1>11. /\ status' = (IF DirectRecipient(o) THEN [status EXCEPT ![m] = Greatest(status[m], NewStatus(o))] ELSE status)
       /\ reports' = (IF o \in turned \ lost THEN [reports EXCEPT ![m] = reports[m] + 1] ELSE reports)
       /\ silent' = (IF o \in turned \cap lost THEN silent \cup {m} ELSE silent)
  <2>1. status' = IF DirectRecipient(o) THEN [status EXCEPT ![m] = Greatest(@, NewStatus(o))] ELSE status
    BY DEF CommitReceipt
  <2>2. /\ reports' = IF o \in turned \ lost THEN [reports EXCEPT ![m] = @ + 1] ELSE reports
        /\ silent' = IF o \in turned \cap lost THEN silent \cup {m} ELSE silent
    BY <1>2 DEF Report
  <2> QED BY <2>1, <2>2
<1>12. /\ READ \in Nat /\ DELIVERED \in Nat /\ READ # DELIVERED
       /\ \A k \in {SENT, DELIVERED, READ} : k \in Nat /\ (k >= READ => k = READ)
  BY SMTT(30) DEF SENT, DELIVERED, READ
<1>13. status[m] \in {SENT, DELIVERED, READ} /\ status'[m] \in {SENT, DELIVERED, READ}
  BY <1>1, <1>4, <1>5 DEF Positions
\* It is the one that turns the message.
<1>14. ASSUME o \in turned PROVE status'[m] = READ /\ ReadIs(m)'
  <2>1. /\ DirectRecipient(o) /\ Op[o].kind = "read" /\ status[m] # READ /\ seqOf[m] # 0
    BY <1>3, <1>14 DEF Acking
  <2>2. c \notin Groups /\ u # Msg[m].sender
    BY <2>1 DEF DirectRecipient
  <2>3. c \in friends /\ u \in c /\ c \in Pairs /\ Msg[m].sender \in c
    BY <1>1, <1>3, <2>1, <2>2, ConvKinds DEF Acking, ReceiptInv
  <2>4. PICK a \in c, b \in c : c = {a, b}
    BY <2>3 DEF Pairs
  <2>5. \A v \in c : v # Msg[m].sender => v = u
    BY <2>2, <2>3, <2>4
  <2>6. reports[m] = 0 /\ m \notin silent
    BY <1>1, <1>4, <2>1 DEF ReceiptInv
  <2>7. (reports'[m] = 1 /\ m \notin silent') \/ (o \in lost /\ reports'[m] = 0 /\ m \in silent')
    <3>1. CASE o \in lost
      BY <1>11, <1>14, <2>6, <3>1
    <3>2. CASE o \notin lost
      <4>1. reports' = [reports EXCEPT ![m] = reports[m] + 1]
        BY <1>11, <1>14, <3>2
      <4>2. reports'[m] = reports[m] + 1
        BY <1>1, <1>4, <4>1
      <4>3. reports'[m] = 1
        BY SMTT(30), <2>6, <4>2
      <4>4. m \notin silent'
        BY <1>11, <2>6, <3>2
      <4> QED BY <4>3, <4>4
    <3> QED BY <3>1, <3>2
  <2>8. status'[m] = READ
    <3>1. NewStatus(o) = READ
      BY <2>1 DEF NewStatus
    <3>2. Greatest(status[m], READ) >= READ /\ Greatest(status[m], READ) \in {status[m], READ}
      BY <1>12, <1>13, GreatestIs
    <3>3. status'[m] = Greatest(status[m], READ)
      BY <1>1, <1>4, <1>11, <2>1, <3>1
    <3> QED BY <1>12, <1>13, <3>2, <3>3
  <2>9. \A v \in Msg[m].conv : v # Msg[m].sender => readTo'[Msg[m].conv][v] >= seqOf'[m]
    BY <1>1, <1>2, <1>5, <2>1, <2>5
  <2>10. \E r \in ReceiptOps : Op[r].message = m /\ r = o
    OBVIOUS
  <2>11. /\ reports'[m] = 1 \/ m \in silent'
         /\ m \in silent' => reports'[m] = 0 /\ \E r \in ReceiptOps : Op[r].message = m /\ r \in lost'
    BY <1>2, <2>7, <2>10
  <2> QED BY <1>1, <1>2, <2>1, <2>2, <2>3, <2>8, <2>9, <2>11 DEF ReadIs
\* The message was read before.
<1>15. ASSUME NEW q \in Messages, status[q] = READ PROVE status'[q] = READ /\ ReadIs(q)'
  <2>1. o \notin turned \/ q # m
    BY <1>3, <1>15 DEF Acking
  <2>2. ReadIs(q)
    BY <1>15 DEF ReceiptInv
  <2>3. reports'[q] = reports[q] /\ (q \in silent' <=> q \in silent)
    BY <1>7, <1>11, <2>1
  <2>4. status'[q] = READ
    <3>1. status'[q] \in {SENT, DELIVERED, READ} /\ status'[q] >= status[q]
      BY <1>5 DEF Positions, Grows
    <3> QED BY <1>12, <1>15, <3>1
  <2>5. ASSUME NEW v \in Msg[q].conv, v # Msg[q].sender
        PROVE  readTo'[Msg[q].conv][v] >= seqOf'[q]
    <3>1. readTo[Msg[q].conv][v] >= seqOf[q]
      BY <2>2, <2>5 DEF ReadIs
    <3>2. Msg[q].conv \in Convs /\ Msg[q].conv \in Pairs
      BY <2>2, ConvKinds, ReceiptConstants DEF ReadIs
    <3>3. v \in Users
      BY <3>2 DEF Pairs
    <3>4. /\ readTo[Msg[q].conv][v] \in Nat /\ readTo'[Msg[q].conv][v] \in Nat /\ seqOf[q] \in Nat
          /\ readTo'[Msg[q].conv][v] >= readTo[Msg[q].conv][v] /\ seqOf'[q] = seqOf[q]
      BY <1>2, <1>4, <1>5, <3>2, <3>3 DEF ReceiptInv, Positions
    <3> QED BY SMTT(30), <3>1, <3>4
  <2> QED BY <1>2, <2>2, <2>3, <2>4, <2>5 DEF ReadIs
\* It does not turn it, and it stays as it was.
<1>16. ASSUME o \notin turned, status[m] # READ
       PROVE  status'[m] # READ /\ reports'[m] = reports[m] /\ silent' = silent
  <2>1. ~(DirectRecipient(o) /\ Op[o].kind = "read")
    BY <1>3, <1>16 DEF Acking
  <2>2. reports' = reports /\ silent' = silent
    BY <1>11, <1>16
  <2>3. CASE ~DirectRecipient(o)
    BY <1>11, <1>16, <2>2, <2>3
  <2>4. CASE DirectRecipient(o)
    <3>1. NewStatus(o) = DELIVERED
      BY <2>1, <2>4 DEF NewStatus
    <3>2. Greatest(status[m], DELIVERED) \in {status[m], DELIVERED}
      BY <1>12, <1>13, GreatestIs
    <3>3. status'[m] = Greatest(status[m], DELIVERED)
      BY <1>1, <1>4, <1>11, <2>4, <3>1
    <3> QED BY <1>12, <1>16, <2>2, <3>2, <3>3
  <2> QED BY <2>3, <2>4
<1>17. ASSUME NEW q \in Messages
       PROVE  (reports'[q] = 1 \/ q \in silent' => status'[q] = READ) /\ (status'[q] = READ => ReadIs(q)')
  <2>1. CASE status[q] = READ
    BY <1>15, <2>1
  <2>2. CASE status[q] # READ /\ q # m
    BY <1>7, <2>2 DEF ReceiptInv
  <2>3. CASE status[q] # READ /\ q = m /\ o \in turned
    BY <1>14, <2>3
  <2>4. CASE status[q] # READ /\ q = m /\ o \notin turned
    BY <1>16, <2>4 DEF ReceiptInv
  <2> QED BY <2>1, <2>2, <2>3, <2>4
<1>18. Friendly'
  BY <1>2, FriendsOnly
<1>19. ReceiptInv'
  BY <1>5, <1>8, <1>9, <1>10, <1>17, <1>18 DEF ReceiptInv
<1> QED BY <1>5, <1>19

LEMMA InitReceipts == Init => ReceiptInv
<1> SUFFICES ASSUME Init PROVE ReceiptInv
  OBVIOUS
<1>1. /\ seqOf = [m \in Messages |-> 0] /\ status = [m \in Messages |-> SENT]
      /\ persisted = [c \in Convs |-> [d \in Devices |-> 0]]
      /\ turned = {} /\ reports = [m \in Messages |-> 0] /\ silent = {} /\ lost = {} /\ friends = {}
      /\ latest = [c \in Convs |-> 0] /\ joined = [c \in Convs |-> [u \in Users |-> 0]]
      /\ delivered = [c \in Convs |-> [u \in Users |-> 0]] /\ readTo = [c \in Convs |-> [u \in Users |-> 0]]
      /\ \A o \in Ops : stage[o] \in {"new", "done"}
  BY DEF Init, ReceiptInit, FriendInit, TablesInit, RequestInit
<1>2. 0 \in Nat /\ 0 <= 0 /\ 0 # 1 /\ SENT # READ
  BY SMTT(30) DEF SENT, READ
<1>3. Positions
  BY <1>1, <1>2, ReceiptConstants DEF Positions
<1>4. Friendly
  BY <1>1, ConvKinds DEF Friendly
<1>5. \A o \in ReceiptOps : stage[o] # "acking"
  BY <1>1 DEF ReceiptOps
<1>6. \A m \in Messages : seqOf[m] = 0 /\ reports[m] # 1 /\ status[m] # READ
  BY <1>1, <1>2
<1> QED BY <1>1, <1>3, <1>4, <1>5, <1>6 DEF ReceiptInv

LEMMA NextReceipts == Inductive /\ ReceiptInv /\ [Next]_vars => ReceiptInv' /\ (Grows \/ UNCHANGED vars)
<1> SUFFICES ASSUME Inductive, ReceiptInv, [Next]_vars PROVE ReceiptInv' /\ (Grows \/ UNCHANGED vars)
  OBVIOUS
<1>1. ASSUME NEW o \in Ops, ReceiptStep(o), UNCHANGED friendVars PROVE ReceiptInv' /\ Grows
  <2>1. o \in ReceiptOps
    BY <1>1 DEF ReceiptStep, OpenReceipt, CommitReceipt
  <2> QED BY <1>1, <2>1, OpenPositions, CommitPositions DEF ReceiptStep
<1>2. ASSUME NEW o \in Ops, Step(o) PROVE ReceiptInv' /\ Grows
  <2>1. CASE FriendStep(o) /\ UNCHANGED <<groupVars, receiptVars>>
    BY <2>1, FriendPositions
  <2>2. CASE GroupStep(o) /\ UNCHANGED <<friendVars, receiptVars>>
    BY <2>2, GroupPositions
  <2>3. CASE ReceiptStep(o) /\ UNCHANGED <<friendVars, groupVars>>
    BY <1>1, <2>3
  <2> QED BY <1>2, <2>1, <2>2, <2>3 DEF Step
<1>3. ASSUME NEW o \in Ops, Settle(o) \/ Fault(o) PROVE ReceiptInv' /\ Grows
  BY <1>3, FaultPositions
<1>4. ASSUME NEW m \in Messages, StoreMessage(m), UNCHANGED friendVars PROVE ReceiptInv' /\ Grows
  BY <1>4, MessagePositions
<1>5. CASE UNCHANGED vars
  <2>1. UNCHANGED <<latest, joined, delivered, readTo, lock, stage, lost, answer, friends,
                    seqOf, status, persisted, turned, reports, silent>>
    BY <1>5 DEF vars, tables, requestVars, friendVars, receiptVars
  <2>2. Positions' /\ Friendly'
    BY <2>1 DEF ReceiptInv, Positions, Friendly
  <2>3. /\ \A o \in ReceiptOps : Acking(o)' <=> Acking(o)
        /\ \A m \in Messages : ReadIs(m)' <=> ReadIs(m)
    BY <2>1 DEF Acking, ReadIs
  <2> QED BY <1>5, <2>1, <2>2, <2>3 DEF ReceiptInv
<1> QED BY <1>2, <1>3, <1>4, <1>5 DEF Next

\* A direct message is reported as read at most once, when it is stored as read
\* and within what the recipient read, and is reported unless the one receipt
\* that turned it lost its answer; for any number of users, devices, receipts
\* and shards.
THEOREM ReadReportedOnceAlways == Spec => []ReadReportedOnce
<1>1. ReceiptInv => ReadReportedOnce
  <2> SUFFICES ASSUME ReceiptInv, NEW m \in Messages
               PROVE  /\ reports[m] <= 1
                      /\ status[m] = READ <=> reports[m] = 1 \/ m \in silent
                      /\ m \in silent =>
                            reports[m] = 0 /\ \E o \in ReceiptOps : Op[o].message = m /\ answer[o] = "failed"
                      /\ status[m] = READ =>
                            readTo[Msg[m].conv][CHOOSE u \in Msg[m].conv : u # Msg[m].sender] >= seqOf[m]
    BY DEF ReadReportedOnce
  <2>1. reports[m] \in {0, 1} /\ (reports[m] = 1 \/ m \in silent => status[m] = READ)
    BY DEF ReceiptInv, Positions
  <2>2. reports[m] <= 1
    BY SMTT(30), <2>1
  <2>3. ASSUME status[m] = READ
        PROVE  /\ readTo[Msg[m].conv][CHOOSE u \in Msg[m].conv : u # Msg[m].sender] >= seqOf[m]
               /\ reports[m] = 1 \/ m \in silent
               /\ m \in silent =>
                     reports[m] = 0 /\ \E o \in ReceiptOps : Op[o].message = m /\ answer[o] = "failed"
    <3>1. ReadIs(m)
      BY <2>3 DEF ReceiptInv
    <3>2. Msg[m].conv \in Pairs
      BY <3>1, ConvKinds, ReceiptConstants DEF ReadIs
    <3>3. \E u \in Msg[m].conv : u # Msg[m].sender
      BY <3>2 DEF Pairs
    <3>4. (CHOOSE u \in Msg[m].conv : u # Msg[m].sender) \in Msg[m].conv
          /\ (CHOOSE u \in Msg[m].conv : u # Msg[m].sender) # Msg[m].sender
      BY <3>3
    <3>5. readTo[Msg[m].conv][CHOOSE u \in Msg[m].conv : u # Msg[m].sender] >= seqOf[m]
      BY <3>1, <3>4 DEF ReadIs
    <3>6. /\ reports[m] = 1 \/ m \in silent
          /\ m \in silent =>
                reports[m] = 0 /\ \E o \in ReceiptOps : Op[o].message = m /\ answer[o] = "failed"
      BY <3>1, ReceiptIs DEF ReadIs, ReceiptInv
    <3> QED BY <3>5, <3>6
  <2> QED BY <2>1, <2>2, <2>3
<1>2. Init => Inductive /\ ReceiptInv
  BY InitInductive, InitReceipts
<1>3. Inductive /\ ReceiptInv /\ [Next]_vars => Inductive' /\ ReceiptInv'
  BY NextInductive, NextReceipts
<1> QED BY <1>1, <1>2, <1>3, PTL DEF Spec

\* No receipt, join or departure moves a position, a device or a status back
\* while a user stays in a conversation, and nothing is read before it is
\* delivered; for any number of users, devices, receipts and shards.
THEOREM PositionsOnlyGrowAlways == Spec => PositionsOnlyGrow
<1>1. Init => Inductive /\ ReceiptInv
  BY InitInductive, InitReceipts
<1>2. Inductive /\ ReceiptInv /\ [Next]_vars => Inductive' /\ ReceiptInv'
  BY NextInductive, NextReceipts
<1> DEFINE Moves ==
        /\ \A c \in Convs, u \in Users :
              /\ joined[c][u] # 0 /\ joined'[c][u] # 0 =>
                    delivered'[c][u] >= delivered[c][u] /\ readTo'[c][u] >= readTo[c][u]
              /\ readTo'[c][u] <= delivered'[c][u] /\ delivered'[c][u] <= latest'[c]
        /\ \A c \in Convs, d \in Devices : persisted'[c][d] >= persisted[c][d]
        /\ \A m \in Messages : status'[m] >= status[m]
<1>3. Inductive /\ ReceiptInv /\ [Next]_vars => [Moves]_<<tables, receiptVars>>
  <2> SUFFICES ASSUME Inductive, ReceiptInv, [Next]_vars PROVE Moves \/ UNCHANGED <<tables, receiptVars>>
    OBVIOUS
  <2>1. ReceiptInv' /\ (Grows \/ UNCHANGED vars)
    BY NextReceipts
  <2>2. CASE Grows
    BY <2>1, <2>2 DEF Grows, ReceiptInv, Positions
  <2>3. CASE UNCHANGED vars
    BY <2>3 DEF vars
  <2> QED BY <2>1, <2>2, <2>3
<1> QED BY <1>1, <1>2, <1>3, PTL DEF Spec, PositionsOnlyGrow

-----------------------------------------------------------------------------
(* Why requests end.                                                       *)

\* The next call of a request that has begun does not wait for another request.
CanMove(o) ==
    \/ o \in lost /\ stage[o] # "done"
    \/ Op[o].kind = "befriend" /\ stage[o] = "first"
    \/ Op[o].kind = "accept" /\ stage[o] = "befriending"
    \/ Op[o].kind = "accept" /\ stage[o] = "mark" /\ SlotFree(o)
    \/ Op[o].kind \in {"accept", "refuse"} /\ stage[o] = "marked"
    \/ Op[o].kind \in {"create", "join", "reject"} /\ stage[o] = "locked"
    \/ Op[o].kind \in {"admit", "quit"} /\ stage[o] = "locked" /\ StatesFree(o)
    \/ Op[o].kind = "kick" /\ stage[o] = "locked" /\ StatesFree(o) /\ Op[o].target # master[Op[o].group]
    \/ o \in ReceiptOps /\ stage[o] = "acking"

\* While requests are under way one of them can move.
NobodyStuck == (\E o \in Ops : stage[o] \notin {"new", "done"}) => \E p \in Ops : CanMove(p)

\* Every request is in a stage of its kind, and only a receipt that will be
\* committed next holds the row of a conversation.
Placed(o) ==
    \/ stage[o] \in {"new", "done"}
    \/ stage[o] = "first" /\ Op[o].kind = "befriend"
    \/ stage[o] \in {"befriending", "mark"} /\ Op[o].kind = "accept"
    \/ stage[o] = "marked" /\ Op[o].kind \in {"accept", "refuse"}
    \/ stage[o] = "locked" /\ o \in GroupOps
    \/ stage[o] = "acking" /\ o \in ReceiptOps
ConvHolder(c) ==
    LET p == lock[ConvRow(c)] IN p # NoOp => p \in ReceiptOps /\ stage[p] = "acking"
WaitInv == (\A o \in Ops : Placed(o)) /\ \A c \in Convs : ConvHolder(c)

\* How far a stage is from the beginning.
Rank == [s \in Stages |-> CASE s = "new" -> 0
                            [] s \in {"first", "befriending", "locked", "acking"} -> 1
                            [] s = "mark" -> 2
                            [] s = "marked" -> 3
                            [] s = "done" -> 4]

\* Every call takes its request further, and none takes another one back.
RequestsAdvance ==
    [][\A o \in Ops : /\ Step(o) \/ Settle(o) => Rank[stage'[o]] > Rank[stage[o]]
                      /\ Rank[stage'[o]] >= Rank[stage[o]]]_vars

\* The ways of a request.
Way(o, s, t) ==
    \/ s = "new" /\ t = "first" /\ Op[o].kind = "befriend"
    \/ s = "new" /\ t = "befriending" /\ Op[o].kind = "accept"
    \/ s = "befriending" /\ t = "mark" /\ Op[o].kind = "accept"
    \/ s \in {"new", "mark"} /\ t = "marked" /\ Op[o].kind \in {"accept", "refuse"}
    \/ s = "new" /\ t = "locked" /\ o \in GroupOps
    \/ s = "new" /\ t = "acking" /\ o \in ReceiptOps
    \/ s # "done" /\ t = "done"
Goes(o) == \E t \in Stages : stage' = [stage EXCEPT ![o] = t] /\ Way(o, stage[o], t)

LEMMA GotoGoes ==
    ASSUME NEW o, NEW t \in Stages, Goto(o, t), Way(o, stage[o], t), stage[o] # "done"
    PROVE  Goes(o)
<1>1. CASE o \in lost
  <2>1. stage' = [stage EXCEPT ![o] = "done"]
    BY <1>1 DEF Goto
  <2> QED BY <2>1 DEF Goes, Way, Stages
<1>2. CASE o \notin lost
  BY <1>2 DEF Goes, Goto
<1> QED BY <1>1, <1>2

LEMMA EndGoes ==
    ASSUME NEW o, NEW a, End(o, a), stage[o] # "done"
    PROVE  Goes(o)
<1>1. stage' = [stage EXCEPT ![o] = "done"]
  BY DEF End, Goto
<1> QED BY <1>1 DEF Goes, Way, Stages

LEMMA CallGoes == ASSUME NEW o \in Ops, Step(o) \/ Settle(o) PROVE Goes(o)
<1> USE DEF Begins, Way, Stages
<1>1. CASE StoreApplication(o) \/ StoreSecondCopy(o)
  BY <1>1, GotoGoes, EndGoes DEF StoreApplication, StoreSecondCopy
<1>2. CASE OpenFriendship(o) \/ CommitFriendship(o)
  BY <1>2, GotoGoes, EndGoes DEF OpenFriendship, CommitFriendship
<1>3. CASE MarkFirstCopy(o) \/ MarkSecondCopy(o)
  BY <1>3, GotoGoes, EndGoes DEF MarkFirstCopy, MarkSecondCopy
<1>4. ASSUME o \in GroupOps, NEW allowed, OpenGroup(o, allowed) PROVE Goes(o)
  BY <1>4, GotoGoes, EndGoes DEF OpenGroup
<1>5. ASSUME NEW kinds, Commits(o, kinds) PROVE Goes(o)
  BY <1>5, EndGoes DEF Commits
<1>6. CASE GroupStep(o)
  BY <1>4, <1>5, <1>6 DEF GroupStep, Create, Apply, Reply, Quit, Kick, CreateGroup, RequestJoin, AdmitMember,
                          RejectApplicant, DissolveGroup, RemoveMember, GroupOps, GroupKinds
<1>7. CASE ReceiptStep(o)
  BY <1>7, GotoGoes, EndGoes DEF ReceiptStep, OpenReceipt, CommitReceipt
<1>8. CASE Settle(o)
  BY <1>8 DEF Settle, Rollback, Drop, Goes
<1> QED BY <1>1, <1>2, <1>3, <1>6, <1>7, <1>8 DEF Step, FriendStep

\* What a call does to the rows of the conversations.
Kept(o) == stage[o] # "acking" /\ \A c \in Convs : lock'[ConvRow(c)] = lock[ConvRow(c)]
Freed(o) == \A c \in Convs : lock'[ConvRow(c)] = IF lock[ConvRow(c)] = o THEN NoOp ELSE lock[ConvRow(c)]
Taken(o) ==
    /\ o \in ReceiptOps /\ stage'[o] = "acking"
    /\ \A c \in Convs : lock'[ConvRow(c)] \in {o, lock[ConvRow(c)]}

LEMMA CallLocks ==
    ASSUME Tables, Remembered, NEW o \in Ops, Step(o) \/ Settle(o)
    PROVE  Kept(o) \/ Freed(o) \/ Taken(o)
<1>1. \A c \in Convs : ConvRow(c) \in LockedRows /\ \A d : ConvRow(c) # GroupRow(d) /\ ConvRow(c) # FriendRow(d)
  BY ConvRows DEF LockedRows
<1>2. ASSUME Release(o) PROVE Freed(o)
  BY <1>1, <1>2 DEF Release, Freed
<1>3. ASSUME NEW x, Take(o, {GroupRow(x)}) \/ Take(o, {FriendRow(x)}) \/ UNCHANGED lock, stage[o] # "acking" PROVE Kept(o)
  BY <1>1, <1>3 DEF Take, Kept
<1>4. CASE StoreApplication(o) \/ StoreSecondCopy(o) \/ MarkFirstCopy(o) \/ MarkSecondCopy(o)
  BY <1>3, <1>4 DEF StoreApplication, StoreSecondCopy, MarkFirstCopy, MarkSecondCopy, Begins
<1>5. CASE OpenFriendship(o)
  BY <1>3, <1>5 DEF OpenFriendship, Begins
<1>6. CASE CommitFriendship(o)
  BY <1>2, <1>6 DEF CommitFriendship
<1>7. ASSUME NEW allowed, OpenGroup(o, allowed) PROVE Kept(o)
  BY <1>3, <1>7 DEF OpenGroup, Begins
<1>8. ASSUME NEW kinds, Commits(o, kinds) PROVE Freed(o)
  BY <1>2, <1>8 DEF Commits
<1>9. CASE GroupStep(o)
  BY <1>7, <1>8, <1>9 DEF GroupStep, Create, Apply, Reply, Quit, Kick, CreateGroup, RequestJoin, AdmitMember,
                          RejectApplicant, DissolveGroup, RemoveMember
<1>10. CASE OpenReceipt(o)
  <2>1. stage[o] = "new" /\ o \in ReceiptOps /\ o \notin lost /\ stage \in [Ops -> Stages]
    BY <1>10 DEF OpenReceipt, Begins, Remembered, Waiting, Tables
  <2>2. CASE UNCHANGED lock
    BY <1>3, <2>1, <2>2
  <2>3. CASE Take(o, {ConvRow(ConvOf(o))}) /\ Goto(o, "acking")
    <3>1. stage'[o] = "acking"
      BY <2>1, <2>3 DEF Goto
    <3>2. \A c \in Convs : lock'[ConvRow(c)] \in {o, lock[ConvRow(c)]}
      BY <1>1, <2>3 DEF Take
    <3> QED BY <2>1, <3>1, <3>2 DEF Taken
  <2> QED BY <1>10, <2>2, <2>3 DEF OpenReceipt
<1>11. CASE CommitReceipt(o) \/ Settle(o)
  BY <1>2, <1>11 DEF CommitReceipt, Settle, Rollback
<1> QED BY <1>4, <1>5, <1>6, <1>9, <1>10, <1>11 DEF Step, FriendStep, ReceiptStep

LEMMA CallWaits ==
    ASSUME Tables, Remembered, WaitInv, NEW o \in Ops, Step(o) \/ Settle(o)
    PROVE  WaitInv'
<1>1. stage \in [Ops -> Stages] /\ NoOp \notin Ops
  BY TablesConstants DEF Tables
<1>2. PICK t \in Stages : stage' = [stage EXCEPT ![o] = t] /\ Way(o, stage[o], t)
  BY CallGoes DEF Goes
<1>3. stage'[o] = t /\ \A p \in Ops \ {o} : stage'[p] = stage[p]
  BY <1>1, <1>2
<1>4. ASSUME NEW p \in Ops PROVE Placed(p)'
  <2>1. CASE p = o
    BY <1>2, <1>3, <2>1 DEF Placed, Way
  <2>2. CASE p # o
    BY <1>3, <2>2 DEF Placed, WaitInv
  <2> QED BY <2>1, <2>2
<1>5. ASSUME NEW c \in Convs PROVE ConvHolder(c)'
  <2>1. lock[ConvRow(c)] # NoOp => /\ lock[ConvRow(c)] \in ReceiptOps /\ lock[ConvRow(c)] \in Ops
                                   /\ stage[lock[ConvRow(c)]] = "acking"
    BY DEF WaitInv, ConvHolder, ReceiptOps
  <2>2. CASE lock'[ConvRow(c)] = NoOp
    BY <2>2 DEF ConvHolder
  <2>3. CASE lock'[ConvRow(c)] = lock[ConvRow(c)] /\ lock[ConvRow(c)] # o
    BY <1>3, <2>1, <2>3 DEF ConvHolder
  <2>4. CASE Kept(o)
    BY <2>1, <2>2, <2>3, <2>4 DEF Kept
  <2>5. CASE Freed(o)
    BY <2>2, <2>3, <2>5 DEF Freed
  <2>6. CASE Taken(o)
    <3>1. CASE lock'[ConvRow(c)] = o
      BY <2>6, <3>1 DEF Taken, ConvHolder
    <3> QED BY <2>3, <2>6, <3>1 DEF Taken
  <2> QED BY <2>4, <2>5, <2>6, CallLocks
<1> QED BY <1>4, <1>5 DEF WaitInv

LEMMA FaultWaits ==
    ASSUME Tables, WaitInv, NEW o \in Ops, Fault(o)
    PROVE  WaitInv'
<1>1. /\ stage \in [Ops -> Stages] /\ UNCHANGED lock
      /\ UNCHANGED stage \/ (stage[o] \in Waiting /\ stage' = [stage EXCEPT ![o] = "done"])
  <2>1. Abort(o)
    BY DEF Fault, FriendGiveUp
  <2>2. CASE stage[o] \in Waiting
    BY <2>1, <2>2 DEF Abort, GiveUp, Tables
  <2>3. CASE stage[o] \notin Waiting
    BY <2>1, <2>3 DEF Abort, GiveUp, Tables
  <2> QED BY <2>2, <2>3
<1>2. CASE UNCHANGED stage
  BY <1>1, <1>2 DEF WaitInv, Placed, ConvHolder
<1>3. CASE stage[o] \in Waiting /\ stage' = [stage EXCEPT ![o] = "done"]
  <2>1. stage'[o] = "done" /\ stage[o] # "acking" /\ \A p \in Ops \ {o} : stage'[p] = stage[p]
    BY <1>1, <1>3 DEF Waiting
  <2>2. \A p \in Ops : Placed(p)'
    BY <2>1 DEF WaitInv, Placed
  <2>3. ASSUME NEW c \in Convs PROVE ConvHolder(c)'
    BY <1>1, <2>1 DEF WaitInv, ConvHolder, ReceiptOps
  <2> QED BY <2>2, <2>3 DEF WaitInv
<1> QED BY <1>1, <1>2, <1>3

LEMMA WaitAlways == Spec => [](Inductive /\ CopiesInv /\ WaitInv)
<1>1. Init => Inductive /\ CopiesInv /\ WaitInv
  <2> SUFFICES ASSUME Init PROVE WaitInv
    BY InitInductive, InitCopies
  <2>1. (\A o \in Ops : stage[o] \in {"new", "done"}) /\ \A k \in LockedRows : lock[k] = NoOp
    BY DEF Init, TablesInit, RequestInit
  <2>2. \A c \in Convs : ConvRow(c) \in LockedRows
    BY DEF LockedRows
  <2> QED BY <2>1, <2>2 DEF WaitInv, Placed, ConvHolder
<1>2. Inductive /\ CopiesInv /\ WaitInv /\ [Next]_vars => Inductive' /\ CopiesInv' /\ WaitInv'
  <2> SUFFICES ASSUME Inductive, CopiesInv, WaitInv, [Next]_vars PROVE WaitInv'
    BY NextInductive, NextCopies
  <2>1. Tables /\ Remembered
    BY DEF Inductive, CopiesInv
  <2>2. CASE UNCHANGED <<stage, lock>>
    BY <2>2 DEF WaitInv, Placed, ConvHolder
  <2>3. CASE \E o \in Ops : Step(o) \/ Settle(o) \/ Fault(o)
    BY <2>1, <2>3, CallWaits, FaultWaits
  <2> QED BY <2>2, <2>3 DEF Next, StoreMessage, requestVars, vars
<1> QED BY <1>1, <1>2, PTL DEF Spec

\* The transactions of groups, friends and receipts never all wait for each
\* other: create_group, reply_group_join and remove_group_member take the row of
\* the group and then those of its conversation, acknowledge_conversation_message
\* only the latter, and a shard's connection is kept by none that waits for it.
THEOREM NobodyStuckAlways == Spec => []NobodyStuck
<1>1. Inductive /\ WaitInv => NobodyStuck
  <2> SUFFICES ASSUME Inductive, WaitInv, NEW o \in Ops, stage[o] \notin {"new", "done"}
               PROVE  \E p \in Ops : CanMove(p)
    BY DEF NobodyStuck
  <2>1. ASSUME NEW p \in Ops, stage[p] \notin {"new", "mark", "done"} PROVE \E q \in Ops : CanMove(q)
    <3>1. Placed(p)
      BY DEF WaitInv
    <3>2. CASE stage[p] # "locked"
      BY <2>1, <3>1, <3>2 DEF Placed, CanMove
    <3>3. CASE stage[p] = "locked" /\ StatesFree(p)
      <4>1. p \in GroupOps
        BY <3>1, <3>3 DEF Placed
      <4>2. Op[p].kind = "kick" => Op[p].target # master[Op[p].group]
        BY <3>3, <4>1 DEF Inductive, Decided, Granted
      <4> QED BY <3>3, <4>1, <4>2 DEF GroupOps, GroupKinds, CanMove
    <3>4. CASE ~StatesFree(p) /\ stage[p] = "locked"
      <4>1. p \in GroupOps
        BY <3>1, <3>4 DEF Placed
      <4>2. Op[p].group \in Convs /\ lock[ConvRow(Op[p].group)] \notin {NoOp, p}
        BY <3>4, <4>1, GroupConstants DEF StatesFree, Free, Convs
      <4>3. PICK q \in ReceiptOps : stage[q] = "acking"
        BY <4>2 DEF WaitInv, ConvHolder
      <4> QED BY <4>3 DEF CanMove, ReceiptOps
    <3> QED BY <3>2, <3>3, <3>4
  <2>2. CASE stage[o] = "mark"
    <3>1. CASE SlotFree(o)
      BY <2>2, <3>1 DEF CanMove, WaitInv, Placed
    <3>2. CASE ~SlotFree(o)
      <4>1. PICK p \in Ops : stage[p] \notin Waiting \cup {"done"}
        BY <3>2 DEF SlotFree
      <4> QED BY <2>1, <4>1 DEF Waiting
    <3> QED BY <3>1, <3>2
  <2> QED BY <2>1, <2>2
<1> QED BY <1>1, WaitAlways, PTL

\* A way leads forward.
LEMMA WayForward ==
    ASSUME NEW o, NEW s \in Stages, NEW t \in Stages, Way(o, s, t)
    PROVE  Rank[t] > Rank[s] /\ Rank[t] >= Rank[s]
BY SMTT(30) DEF Way, Rank, Stages

LEMMA CallForward ==
    ASSUME Tables, NEW o \in Ops, Step(o) \/ Settle(o)
    PROVE  /\ Rank[stage'[o]] > Rank[stage[o]] /\ Rank[stage'[o]] >= Rank[stage[o]]
           /\ \A p \in Ops \ {o} : stage'[p] = stage[p]
<1>1. stage \in [Ops -> Stages]
  BY DEF Tables
<1>2. PICK t \in Stages : stage' = [stage EXCEPT ![o] = t] /\ Way(o, stage[o], t)
  BY CallGoes DEF Goes
<1>3. stage[o] \in Stages /\ stage'[o] = t /\ \A p \in Ops \ {o} : stage'[p] = stage[p]
  BY <1>1, <1>2
<1> QED BY <1>2, <1>3, WayForward

\* The calls of a request follow each other to its end, and none is repeated
\* after a failure.  With NobodyStuckAlways and the fairness of the calls this is
\* why the requests end.
THEOREM RequestsAdvanceAlways == Spec => RequestsAdvance
<1> DEFINE Forward(o) == /\ Step(o) \/ Settle(o) => Rank[stage'[o]] > Rank[stage[o]]
                         /\ Rank[stage'[o]] >= Rank[stage[o]]
<1>1. ASSUME Inductive, [Next]_vars PROVE [\A o \in Ops : Forward(o)]_vars
  <2>1. Tables /\ stage \in [Ops -> Stages]
    BY <1>1 DEF Inductive, Tables
  <2>2. ASSUME NEW o \in Ops, stage'[o] = stage[o] PROVE Rank[stage'[o]] >= Rank[stage[o]]
    <3>1. stage[o] \in Stages
      BY <2>1
    <3>2. ASSUME NEW s \in Stages PROVE Rank[s] >= Rank[s]
      BY SMTT(30) DEF Rank, Stages
    <3> QED BY <2>2, <3>1, <3>2
  <2>3. ASSUME NEW o \in Ops, NEW p \in Ops, Fault(p) PROVE Rank[stage'[o]] >= Rank[stage[o]]
    <3>1. Abort(p)
      BY <2>3 DEF Fault, FriendGiveUp
    <3>2. stage' = stage \/ (stage[p] # "done" /\ stage' = [stage EXCEPT ![p] = "done"])
      BY <3>1 DEF Abort, GiveUp
    <3>3. CASE stage'[o] = stage[o]
      BY <2>2, <3>3
    <3>4. CASE o = p /\ stage[p] # "done" /\ stage' = [stage EXCEPT ![p] = "done"]
      <4>1. stage'[o] = "done" /\ stage[o] \in Stages /\ "done" \in Stages /\ Way(o, stage[o], "done")
        BY <2>1, <3>4 DEF Way, Stages
      <4> QED BY <4>1, WayForward
    <3> QED BY <2>1, <3>2, <3>3, <3>4
  <2>4. ASSUME NEW o \in Ops, Next PROVE Rank[stage'[o]] >= Rank[stage[o]]
    <3>1. CASE \E p \in Ops : Step(p) \/ Settle(p)
      BY <2>1, <2>2, <3>1, CallForward
    <3>2. CASE UNCHANGED stage
      BY <2>2, <3>2
    <3> QED BY <2>3, <2>4, <3>1, <3>2 DEF Next, StoreMessage, requestVars
  <2> QED BY <1>1, <2>1, <2>4, CallForward
<1> QED BY <1>1, InductiveAlways, PTL DEF Spec, RequestsAdvance

=============================================================================
