----------------------------- MODULE MCVmLifecycle -----------------------------
(***************************************************************************)
(* Small labs for TLC.  The periods are scaled down (180 s, 300 s, 600 s,  *)
(* 900 s and 1800 s become 1, 2, 3, 2 and 4 periods).                      *)
(***************************************************************************)
EXTENDS VmLifecycle, TLC

Interchangeable == Permutations(Clients) \cup Permutations(Commands)
================================================================================
