---------------------------- MODULE MCGrpcEngine ----------------------------
(***************************************************************************)
(* GrpcEngine for TLC.  The parts of the engine meet only in the counters, *)
(* in the tasks their callbacks schedule and in the stop, so a load        *)
(* combines a few of them: attempts with a timer and a task, an attempt    *)
(* with a lookup, lookups with timers, the listener with an attempt.       *)
(***************************************************************************)
EXTENDS GrpcEngine

CONSTANTS c1, c2, e1, l1, l2, t1, t2, k1, k2, accepting

mcLoads == { {c1, t1, k1},
             {c1, c2},
             {c1, l1, k1},
             {l1, l2, t1, k1},
             {accepting, c1},
             {accepting, t1, k1, k2} }

=============================================================================
