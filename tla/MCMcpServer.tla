----------------------------- MODULE MCMcpServer -----------------------------
(***************************************************************************)
(* Two overlapping calls of any tools, on one run.                         *)
(***************************************************************************)
EXTENDS McpServer, TLC

CONSTANTS c1, c2, i1

MCTools    == AllTools
MCFailures == {"error", "killed", "mute"}

\* Calls are alike.
Alike == Permutations({c1, c2})
=============================================================================
