---------------------------- MODULE MCConversations ----------------------------
(***************************************************************************)
(* Instances of ConversationService.  u1 creates the group g and answers   *)
(* u2 from two devices; u1 and u2 become friends; m1 and m3 are direct     *)
(* messages of u1 to u2, m2 is one of u1 in the group.                     *)
(***************************************************************************)
EXTENDS ConversationService, TLC

CONSTANTS u1, u2, g1, m1, m2, m3, d1, d2

Request(k, a, t, g, m, d) ==
    [kind |-> k, actor |-> a, target |-> t, group |-> g, message |-> m, device |-> d]
GroupRequest(k, a, t) == Request(k, a, t, g1, m2, d1)
FriendRequest(k, a, t) == Request(k, a, t, g1, m1, d1)
Receipt(k, a, m, d) == Request(k, a, a, g1, m, d)

MCOp ==
    [o \in Ops |->
        CASE o = "create" -> GroupRequest("create", u1, u1)
          [] o = "join"   -> GroupRequest("join", u2, u2)
          [] o = "rejoin" -> GroupRequest("join", u2, u2)
          [] o = "admit"  -> GroupRequest("admit", u1, u2)
          [] o = "admit2" -> GroupRequest("admit", u1, u2)
          [] o = "reject" -> GroupRequest("reject", u1, u2)
          [] o = "kick"   -> GroupRequest("kick", u1, u2)
          [] o = "leave"  -> GroupRequest("quit", u2, u2)
          [] o = "end"    -> GroupRequest("quit", u1, u1)
          [] o = "apply"  -> FriendRequest("befriend", u1, u2)
          [] o = "cross"  -> FriendRequest("befriend", u2, u1)
          [] o = "accept" -> FriendRequest("accept", u2, u1)
          [] o = "refuse" -> FriendRequest("refuse", u2, u1)
          [] o = "seen"   -> Receipt("delivered", u2, m1, d2)
          [] o = "read1"  -> Receipt("read", u2, m1, d1)
          [] o = "read2"  -> Receipt("read", u2, m1, d2)
          [] o = "read3"  -> Receipt("read", u2, m3, d2)
          [] o = "gread"  -> Receipt("read", u2, m2, d1)]

MCOps == {"create", "join", "rejoin", "admit", "admit2", "reject", "kick",
          "leave", "end", "apply", "cross", "accept", "refuse", "seen", "read1", "read2", "read3", "gread"}

MCLoads ==
    { \* friends: crossing applications and contradicting replies
      {"apply", "cross", "accept", "refuse"},
      \* receipts of two devices on the message of a new friend
      {"apply", "accept", "seen", "read1", "read2"},
      \* receipts on two messages of one conversation, in any order
      {"apply", "accept", "seen", "read1", "read3"},
      \* a group: an applicant answered twice, removed, leaving, and the end of it
      {"create", "join", "rejoin", "admit", "reject", "kick", "leave", "end"},
      \* a member who is removed and admitted again while a receipt is on its way
      {"create", "join", "admit", "kick", "rejoin", "admit2", "gread"},
      \* friendship, group and receipts on the same two shards
      {"create", "join", "admit", "apply", "accept", "read1", "gread"} }

\* Requests of the first shard; the others run on the second one.
OnFirst == {"create", "join", "reject", "end", "apply", "accept", "read1"}
MCShard == [o \in Ops |-> IF o \in OnFirst THEN 1 ELSE 2]

MCMsg ==
    [m \in Messages |-> [sender |-> u1, conv |-> IF m = m2 THEN g1 ELSE {u1, u2}]]

=============================================================================
