----------------------------- MODULE MCIoQueue -----------------------------
(* Small instances of IoQueue for TLC.                                     *)
EXTENDS IoQueue, TLC

CONSTANTS j1, j2, j3, j4

\* Jobs of different weight: with Pending 2 and ByteLimit 4 every pair but
\* {j3, j4} fits, and three light jobs would fit the bytes but not the entries.
MCSize == (j1 :> 1) @@ (j2 :> 1) @@ (j3 :> 2) @@ (j4 :> 3)
=============================================================================
