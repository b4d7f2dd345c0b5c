--------------------------- MODULE MCMessageStore ---------------------------
(* Instances of MessageStore for model checking. *)
EXTENDS MessageStore, TLC

CONSTANTS a1, a2, b1, c1, c2, x1, d, g, r1, r2, s1, s2, s3

\* a1 and a2 are one direct command submitted twice; b1 is another message of
\* the conversation; c1 and c2 are one group command submitted twice; x1 uses
\* the key of a1 in the group.
MCKey == [a \in Sends |-> CASE a \in {a1, a2, x1} -> "k1" [] a = b1 -> "k2" [] OTHER -> "k3"]
MCConv == [a \in Sends |-> IF a \in {a1, a2, b1} THEN d ELSE g]
MCContent == [a \in Sends |-> IF a = b1 THEN "m2" ELSE "m1"]
MCShard == [a \in Sends |-> CASE a \in {a1, c1} -> s1 [] a \in {a2, c2} -> s2 [] OTHER -> s3]
MCReads == [r \in Readers |-> IF r = r1 THEN d ELSE g]

\* Two group messages and a direct command that is retried, one key used in
\* both, and a member who joins; two direct messages, one retried, and a friend
\* who reads; a group command that is retried, and its member.
MCLoads == {{a1, a2, c1, x1, r2}, {a1, a2, b1, r1}, {c1, c2, x1, r2}}
=============================================================================
