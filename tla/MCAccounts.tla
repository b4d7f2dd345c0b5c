------------------------------- MODULE MCAccounts -------------------------------
(***************************************************************************)
(* Instances of Accounts: verification requests v1 and v2 of address e1    *)
(* and w1 of e2, whose codes are mailed, x1 of e1, whose code is in the    *)
(* answer, and z1 to a Gate that does neither; sign-ups for one name or    *)
(* with one address, two resets of the account of s1, and sign-ins with    *)
(* its first and its second password.                                      *)
(***************************************************************************)
EXTENDS Accounts

CONSTANTS e1, e2, n1, n2

MCMailing == {"v1", "v2", "w1"}
MCExposing == {"x1"}
MCOps == {"v1", "v2", "w1", "x1", "z1", "s1", "s2", "s3", "r1", "r2", "i1", "i2"}

Request(kind, email, name, with) == [kind |-> kind, email |-> email, name |-> name, with |-> with]

MCOp ==
    [o \in Ops |->
        CASE o \in {"v1", "v2", "x1", "z1"} -> Request("verify", e1, n1, o)
          [] o = "w1" -> Request("verify", e2, n1, o)
          [] o = "s1" -> Request("signup", e1, n1, o)
          [] o = "s2" -> Request("signup", e2, n1, o)
          [] o = "s3" -> Request("signup", e1, n2, o)
          [] o \in {"r1", "r2"} -> Request("reset", e1, n1, o)
          [] o = "i1" -> Request("signin", e1, n1, "s1")
          [] o = "i2" -> Request("signin", e1, n1, "r1")]

MCLoads ==
    { \* two codes of one address and two sign-ups with them
      {"v1", "v2", "s1", "s3"},
      \* two sign-ups for one name
      {"v1", "w1", "s1", "s2"},
      \* the password is reset while its owner signs in with the old one
      {"v1", "v2", "s1", "r1", "i1"},
      \* two resets, and a sign-in with the password of the first
      {"v1", "v2", "s1", "r1", "r2", "i2"},
      \* Gates that mail the code, give it in the answer, or do neither
      {"v1", "x1", "z1", "s1"} }

=============================================================================
