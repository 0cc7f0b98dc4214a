----------------------------- MODULE SessionLedger -----------------------------
(***************************************************************************)
(* What a live session promises its caller, with no files and no driver:   *)
(* every command that reports a bad step puts it in the ledger, and the    *)
(* verdict pronounced at close is the one the whole ledger calls for.      *)
(***************************************************************************)
CONSTANT Cmds

VARIABLES failed,    \* commands whose caller was told that the step failed
          nothing,   \* commands whose caller was told that it proved nothing
          verdict    \* "open" until the session is closed

ledger == <<failed, nothing, verdict>>

\* The rule of `close`: a failure outranks a step that proved nothing.
VerdictOf(f, n) == IF f # {} THEN "fail"
                   ELSE IF n # {} THEN "nothing_verified" ELSE "pass"

Init == failed = {} /\ nothing = {} /\ verdict = "open"

ReportFailed(i) == /\ verdict = "open" /\ i \notin failed \cup nothing
                   /\ failed' = failed \cup {i}
                   /\ UNCHANGED <<nothing, verdict>>

ReportNothing(i) == /\ verdict = "open" /\ i \notin failed \cup nothing
                    /\ nothing' = nothing \cup {i}
                    /\ UNCHANGED <<failed, verdict>>

Pronounce == /\ verdict = "open"
             /\ verdict' = VerdictOf(failed, nothing)
             /\ UNCHANGED <<failed, nothing>>

Next == \/ Pronounce
        \/ \E i \in Cmds : ReportFailed(i) \/ ReportNothing(i)

Spec == Init /\ [][Next]_ledger
================================================================================
