----------------------------- MODULE MCDelivery -----------------------------
(* Instances of Delivery for model checking. *)
EXTENDS Delivery, TLC

CONSTANTS k1, k2, t1, r1, q1, o1

\* k1 gets a message (t1), the read receipt of it (r1, the same number, larger)
\* and a response (q1); k2 a message (o1).
MCTo == [b \in Bodies |-> IF b = o1 THEN k2 ELSE k1]
MCSequence == [b \in Bodies |-> IF b = q1 THEN 0 ELSE 1]
MCSize == [b \in Bodies |-> CASE b \in {t1, q1} -> 1 [] b = o1 -> 2 [] OTHER -> 3]
=============================================================================
