------------------------------- MODULE Verdicts -------------------------------
(***************************************************************************)
(* How a result travels: from what happened while a `ui-box` process ran,  *)
(* through its exit code and its one result line, to the status that a     *)
(* tool of ui-box-mcp reports.  The three-valued contract of the exit code *)
(* (0 passed, 1 the UI failed, 2 ui-box could not run) is written by one   *)
(* crate and read by another; "nothing was verified" has no code of its    *)
(* own and travels in the line only.                                       *)
(***************************************************************************)
EXTENDS Naturals

\* What can happen to a process: it did what was asked, the UI failed, nothing could
\* be proved, there was nothing to do, ui-box could not run, a panic, a signal, a
\* program that is not there, one that keeps no contract, one of another version.
Mishaps    == {"error", "panic", "killed", "absent", "mute"}
Happenings == {"pass", "fail", "nothing", "skipped", "odd"} \cup Mishaps

NoCode == 999

\* Summary::{ok, failed, nothing}, dispatch and report: the exit code.
ExitCode(h) == IF h \in {"pass", "nothing", "skipped", "odd"} THEN 0
               ELSE IF h \in {"fail", "mute"} THEN 1
               ELSE IF h = "error" THEN 2
               ELSE IF h = "panic" THEN 101 ELSE NoCode

\* The `status` and `verdict` of the result line; a panic or a signal leaves none.
Line(h) == IF h \in Mishaps \ {"error"} THEN "none" ELSE h

\* proved_nothing_reason and unknown_verdict: a line that claims no pass, or nothing known.
ProvedNothing(h) == Line(h) \in {"nothing", "skipped", "odd"}

\* Landing::from_code, and the two landings without a code.
Landing(h) == LET code == ExitCode(h)
              IN IF h = "absent" THEN "not_started"
                 ELSE IF code = NoCode THEN "signalled"
                 ELSE IF code = 0 THEN "passed"
                 ELSE IF code = 1 THEN "failed"
                 ELSE IF code = 2 THEN "unusable" ELSE "unexpected"

-----------------------------------------------------------------------------
(* A report: `failure` is the domain it blames, if any, and `vacuous` tells  *)
(* that something was inconclusive.  The first failure wins.                 *)

Domains == {"tooling", "under_test", "request"}
Report  == [failure : Domains \cup {"none"}, vacuous : BOOLEAN]

NewReport == [failure |-> "none", vacuous |-> FALSE]

FailedAnew(rep, domain) == [failure |-> domain, vacuous |-> rep.vacuous]

Failed(rep, domain) ==
  IF rep.failure = "none" THEN FailedAnew(rep, domain) ELSE rep

Vacuous(rep) == [failure |-> rep.failure, vacuous |-> TRUE]

AbsorbByCode(rep, h) ==
  IF Landing(h) = "passed" THEN rep
  ELSE IF Landing(h) = "failed" THEN Failed(rep, "under_test")
  ELSE Failed(rep, "tooling")

Absorb(rep, h) ==
  IF Landing(h) = "passed"
    THEN IF ProvedNothing(h) THEN Vacuous(rep) ELSE rep
  ELSE IF Landing(h) = "failed" /\ Line(h) # "none" THEN Failed(rep, "under_test")
  ELSE Failed(rep, "tooling")

\* Report::build: the `status` the client reads.
Statuses == {"passed", "nothing_verified", "ui_test_failed", "uibox_unusable",
             "invalid_request"}
Status(rep) == IF rep.failure = "under_test" THEN "ui_test_failed"
               ELSE IF rep.failure = "tooling" THEN "uibox_unusable"
               ELSE IF rep.failure = "request" THEN "invalid_request"
               ELSE IF rep.vacuous THEN "nothing_verified" ELSE "passed"
===============================================================================
