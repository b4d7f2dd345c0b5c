--------------------------- MODULE MCFileTransfer ---------------------------
(* Instances of FileTransfer for model checking. *)
EXTENDS FileTransfer, TLC

CONSTANTS u1, u2, u3, me, you

\* u1 and u2 are uploads of one owner that differ in the last byte; u3 is another
\* owner's upload under the same id.
MCOwner == [u \in Uploads |-> IF u = u3 THEN you ELSE me]
MCContent == [u \in Uploads |-> IF u = u1 THEN <<"a", "b", "c">> ELSE <<"a", "b", "d">>]

Scenario(uploads, calls, faults0, disk) ==
    [uploads |-> uploads, calls |-> calls, faults |-> faults0, disk |-> disk]

\* One upload that loses two answers, with as many requests as it can then need;
\* two uploads of one owner that differ, and uploads of two owners, with a fault
\* of either kind.
MCScenarios ==
    { Scenario({u1}, 5, 2, 0), Scenario({u1, u2}, 3, 1, 1), Scenario({u1, u3}, 3, 1, 1) }

\* One upload whose write fails.
MCDiskFails == {Scenario({u1}, 3, 0, 1)}
=============================================================================
