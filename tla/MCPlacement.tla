----------------------------- MODULE MCPlacement -----------------------------
(***************************************************************************)
(* Two processes, trees of two files with two contents each, and the three *)
(* kinds of request that differ in what they share.                        *)
(***************************************************************************)
EXTENDS Placement, TLC

CONSTANTS p1, p2, f1, f2, v1, v2

MCProcs == {p1, p2}
MCFiles == {f1, f2}
MCVers  == {v1, v2}
MCRequests == {[source |-> "host", native |-> FALSE, same |-> FALSE],
               [source |-> "host", native |-> TRUE, same |-> FALSE],
               [source |-> "lab", native |-> TRUE, same |-> TRUE]}

Alike == Permutations(MCProcs) \cup Permutations(MCFiles) \cup Permutations(MCVers)
==============================================================================
