----------------------------- MODULE MCLiveSession -----------------------------
(* Small instances of LiveSession: two or three invocations after one open.   *)
EXTENDS LiveSession, TLC

CONSTANTS c1, c2, c3

TwoCmds   == {c1, c2}
ThreeCmds == {c1, c2, c3}

\* Invocations are interchangeable; steps.yaml is permuted with them.
Symmetry == Permutations(Cmds)
================================================================================
