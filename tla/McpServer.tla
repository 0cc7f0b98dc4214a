------------------------------ MODULE McpServer ------------------------------
(***************************************************************************)
(* ui-box-mcp: the tools a coding agent calls.  Each call is a task of its *)
(* own; it runs one `ui-box` process after the other, adds what they said  *)
(* to a report, and ends by telling which console lines are new.  Calls    *)
(* overlap at every await.  They share the server's Memory (where runs     *)
(* are, and up to which line each run has been told of), whose mutex is    *)
(* held for one access at a time, and the sessions, which other programs   *)
(* use as well.                                                            *)
(*                                                                         *)
(* What a `ui-box` process does to a session happens in one step here;     *)
(* LiveSession looks inside.  A run has one log, of lines that are all     *)
(* worth telling: console.jsonl and network.jsonl are treated alike, each  *)
(* with its own counter.                                                   *)
(***************************************************************************)
EXTENDS Verdicts

CONSTANTS
  Calls,       \* calls of tools
  Ids,         \* ids of runs; a live session has the id of its run
  Tools,       \* the tools the agent uses
  MaxSteps,    \* the longest batch of ui_act
  MaxLines,    \* the longest log
  MaxEvents,   \* MAX_EVENTS: lines that one answer shows
  Failures     \* the mishaps that processes may meet

AllTools == {"prepare", "open", "act", "snap", "eval", "close", "record", "run",
             "verify", "runs", "show"}

NoId == "-"

ASSUME McpOK ==
  /\ Tools \subseteq AllTools /\ Failures \subseteq Mishaps
  /\ NoId \notin Ids
  /\ MaxSteps \in Nat \ {0} /\ MaxLines \in Nat /\ MaxEvents \in Nat \ {0}

VARIABLES
  life,      \* of each run's session: "none" (no such run), "open", "ended" (its
             \* driver is gone, its record is not), "closed" (or it never had one)
  counts,    \* its meta.json: has a step failed, has one proved nothing?  A failed
             \* step is counted, whatever failed it, which is remembered here only
  log,       \* how many lines its log has
  gone,      \* runs whose directory cannot be read (any more)
  run_dirs,  \* Memory: runs whose directory the server knows
  cursors,   \* Memory: lines told of, per run
  pc,        \* what each call is waiting for
  whole,     \* whether it tells of every line: `run` and `show` do, the others go on
  id,        \* which run it is about
  left,      \* steps of its batch still to make
  report,    \* its report
  from,      \* lines that had been told of when it looked, and
  upto,      \* lines it has read
  answer,    \* its status, "none" as long as it has not been answered
  met,       \* what its processes met in truth: "unwoken" for a `wake` that failed or
             \* broke off, "counted" for a `close` that found failed steps (history)
  told,      \* the lines that an answer has shown (a history variable)
  more,      \* those that an answer has only counted, as "and n more" (history)
  again,     \* lines told of twice (a history variable)
  muddled    \* runs with overlapping or failed reads (a history variable)

world   == <<life, counts, log, gone>>
memory  == <<run_dirs, cursors>>
request == <<whole, id>>
reading == <<from, upto>>
tale    == <<told, more, again, muddled>>
vars    == <<world, memory, pc, request, left, report, reading, answer, met, tale>>

\* A process a call waits for, by its subcommand; `doctor` follows `wake`, `capture`
\* is the snap of another tool, `locate` the `show` that looks for a directory.
Processes == {"wake", "doctor", "open", "step", "capture", "eval", "close", "record",
              "run", "verify", "runs", "show", "locate"}
Waiting   == Processes \cup {"read", "advance"}

Truths == {"ok", "ui", "nothing", "tool", "unwoken", "counted"}

TypeOK ==
  /\ life \in [Ids -> {"none", "open", "ended", "closed"}]
  /\ counts \in [Ids -> [failed : SUBSET {"ui", "tool"}, nothing : BOOLEAN]]
  /\ log \in [Ids -> 0 .. MaxLines] /\ gone \subseteq Ids
  /\ run_dirs \subseteq Ids /\ cursors \in [Ids -> 0 .. MaxLines]
  /\ pc \in [Calls -> Waiting \cup {"idle", "done"}]
  /\ whole \in [Calls -> BOOLEAN] /\ id \in [Calls -> Ids \cup {NoId}]
  /\ left \in [Calls -> 0 .. MaxSteps]
  /\ report \in [Calls -> Report]
  /\ from \in [Calls -> 0 .. MaxLines] /\ upto \in [Calls -> 0 .. MaxLines]
  /\ answer \in [Calls -> Statuses \cup {"none"}]
  /\ met \in [Calls -> SUBSET Truths]
  /\ {told, more, again} \subseteq [Ids -> SUBSET (1 .. MaxLines)]
  /\ muddled \subseteq Ids

Init ==
  /\ life \in [Ids -> {"none", "open"}]
  /\ counts = [i \in Ids |-> [failed |-> {}, nothing |-> FALSE]]
  /\ log = [i \in Ids |-> 0] /\ gone = {}
  /\ run_dirs = {} /\ cursors = [i \in Ids |-> 0]
  /\ pc = [r \in Calls |-> "idle"]
  /\ whole = [r \in Calls |-> FALSE] /\ id = [r \in Calls |-> NoId] /\ left = [r \in Calls |-> 0]
  /\ report = [r \in Calls |-> NewReport]
  /\ from = [r \in Calls |-> 0] /\ upto = [r \in Calls |-> 0]
  /\ answer = [r \in Calls |-> "none"]
  /\ met = [r \in Calls |-> {}]
  /\ told = [i \in Ids |-> {}] /\ more = told /\ again = told /\ muddled = {}

-----------------------------------------------------------------------------
TruthOf(h) == IF h = "pass" THEN "ok" ELSE IF h = "fail" THEN "ui"
              ELSE IF h \in Mishaps THEN "tool" ELSE "nothing"

MeetsAll(r, truths) == met' = [met EXCEPT ![r] = @ \cup truths]
Meets(r, truth)     == MeetsAll(r, {truth})

\* What a process may meet that needs a live session, or a run.
InSession(i, outcomes) == Failures \cup (IF life[i] = "open" THEN outcomes ELSE {"error"})
OnRun(i, outcomes)     == Failures \cup (IF life[i] # "none" /\ i \notin gone THEN outcomes
                                         ELSE {"error"})

Answer(r, rep) ==
  /\ report' = [report EXCEPT ![r] = rep]
  /\ answer' = [answer EXCEPT ![r] = Status(rep)]
  /\ pc' = [pc EXCEPT ![r] = "done"]

Reading(r, i) == pc[r] \in {"read", "advance"} /\ id[r] = i

StartReading(r, i) ==
  /\ pc' = [pc EXCEPT ![r] = "read"]
  /\ from' = [from EXCEPT ![r] = IF whole[r] THEN 0 ELSE cursors[i]]
  /\ muddled' = IF \E q \in Calls \ {r} : Reading(q, i) THEN muddled \cup {i} ELSE muddled

\* fresh_events up to its first await, with `dirs` in the memory.
SeekEvents(r, i, rep, dirs) ==
  /\ run_dirs' = dirs
  /\ report' = [report EXCEPT ![r] = rep]
  /\ IF i \in dirs THEN StartReading(r, i)
     ELSE pc' = [pc EXCEPT ![r] = "locate"] /\ UNCHANGED <<from, muddled>>
  /\ UNCHANGED <<cursors, upto, answer, told, more, again>>

-----------------------------------------------------------------------------
FirstOf(t) == IF t = "prepare" THEN "wake" ELSE IF t = "act" THEN "step"
              ELSE IF t = "snap" THEN "capture" ELSE t

AboutARun == {"act", "snap", "eval", "close", "record", "show"}

Ask(r) ==
  /\ pc[r] = "idle"
  /\ \E t \in Tools, i \in Ids :
       /\ whole' = [whole EXCEPT ![r] = t \in {"run", "show"}]
       /\ id' = [id EXCEPT ![r] = IF t \in AboutARun THEN i ELSE NoId]
       /\ pc' = [pc EXCEPT ![r] = FirstOf(t)]
       /\ \E n \in IF t = "act" THEN 1 .. MaxSteps ELSE {0} : left' = [left EXCEPT ![r] = n]
  /\ UNCHANGED <<world, memory, report, reading, answer, met, tale>>

\* The arguments cannot be decoded, or no step can be made of them.
AskBadly(r) ==
  /\ pc[r] = "idle"
  /\ Answer(r, Failed(NewReport, "request"))
  /\ UNCHANGED <<world, memory, request, left, reading, met, tale>>

\* What came of the wake is not asked, only whether it started: doctor decides.
WakeLands(r) ==
  /\ pc[r] = "wake"
  /\ \E h \in {"pass"} \cup Failures :
       IF Landing(h) = "not_started"
         THEN Answer(r, Failed(report[r], "tooling")) /\ Meets(r, "tool")
         ELSE /\ pc' = [pc EXCEPT ![r] = "doctor"] /\ UNCHANGED <<report, answer>>
              /\ Meets(r, IF h = "pass" THEN "ok" ELSE "unwoken")
  /\ UNCHANGED <<world, memory, request, left, reading, tale>>

\* A process after which the call is answered, and which changes no session.
Ends(r, p, outcomes) ==
  /\ pc[r] = p
  /\ \E h \in outcomes : Answer(r, Absorb(report[r], h)) /\ Meets(r, TruthOf(h))
  /\ UNCHANGED <<world, memory, request, left, reading, tale>>

\* doctor exits 2 when a check that is not advisory has failed.
DoctorLands(r) == Ends(r, "doctor", {"pass", "error"} \cup Failures)
EvalLands(r)   == Ends(r, "eval", InSession(id[r], {"pass", "nothing"}))
RecordLands(r) == Ends(r, "record", OnRun(id[r], {"pass", "error"}))
VerifyLands(r) == Ends(r, "verify", {"pass", "fail", "nothing", "skipped", "odd"} \cup Failures)
RunsLands(r)   == Ends(r, "runs", {"pass"} \cup Failures)

OpenLands(r) ==
  /\ pc[r] = "open"
  /\ \/ \E i \in Ids :
          /\ life[i] = "none"
          /\ life' = [life EXCEPT ![i] = "open"]
          /\ id' = [id EXCEPT ![r] = i]
          /\ run_dirs' = run_dirs \cup {i}
          /\ Meets(r, "ok")
          /\ \/ Answer(r, report[r])              \* snapshot: false
             \/ pc' = [pc EXCEPT ![r] = "capture"] /\ UNCHANGED <<report, answer>>
     \/ \E h \in Failures :
          /\ Answer(r, Absorb(report[r], h)) /\ Meets(r, TruthOf(h))
          /\ UNCHANGED <<life, id, run_dirs>>
  /\ UNCHANGED <<counts, log, gone, cursors, whole, left, reading, tale>>

\* A failure of the driver leaves a failed step in the run's record as well.
Counted(i, h) ==
  \/ counts' = [counts EXCEPT ![i] = [failed  |-> @.failed \cup ({"ui"} \cap {TruthOf(h)}),
                                      nothing |-> @.nothing \/ h = "nothing"]]
  \/ /\ h \in Failures /\ life[i] = "open"
     /\ counts' = [counts EXCEPT ![i] = [failed  |-> @.failed \cup {"tool"},
                                         nothing |-> @.nothing]]

\* One `act` of the batch: the loop goes on to the next step only after one that passed.
StepLands(r) ==
  /\ pc[r] = "step"
  /\ \E h \in InSession(id[r], {"pass", "fail", "nothing"}) :
       /\ Counted(id[r], h)
       /\ Meets(r, TruthOf(h))
       /\ \/ /\ h = "pass" /\ left[r] > 1
             /\ UNCHANGED <<memory, pc, report, reading, answer, tale>>
          \/ /\ h = "pass" /\ left[r] = 1
             /\ SeekEvents(r, id[r], report[r], run_dirs)
          \/ /\ h # "pass"
             /\ \/ Answer(r, Absorb(report[r], h))
                \/ /\ Landing(h) = "failed" \/ Line(h) = "nothing"
                   /\ report' = [report EXCEPT ![r] = Absorb(@, h)]
                   /\ pc' = [pc EXCEPT ![r] = "capture"]
                   /\ UNCHANGED answer
             /\ UNCHANGED <<memory, reading, tale>>
       /\ left' = [left EXCEPT ![r] = IF h = "pass" THEN @ - 1 ELSE @]
  /\ UNCHANGED <<life, log, gone, request>>

\* What `capture` makes of the files of a snapshot: its text is there, or empty, or the
\* file cannot be read.
Pages == {"drawn", "blank", "unread"}

\* merge_capture: an empty snapshot is the UI's failure, one that cannot be read is
\* nobody's.
MergeCapture(rep, page) == IF page = "blank" THEN Failed(rep, "under_test") ELSE rep

\* A capture that fails leaves an earlier failure as it is.
CaptureLands(r) ==
  /\ pc[r] = "capture"
  /\ \E h \in InSession(id[r], {"pass"}) :
       IF h = "pass"
         THEN \E page \in Pages :
                /\ Meets(r, IF page = "blank" THEN "ui" ELSE "ok")
                /\ SeekEvents(r, id[r], MergeCapture(report[r], page), run_dirs)
         ELSE /\ Answer(r, Absorb(report[r], h)) /\ Meets(r, TruthOf(h))
              /\ UNCHANGED <<memory, reading, tale>>
  /\ UNCHANGED <<world, request, left>>

\* `close` needs the record only, which `keep_channel` leaves behind.
Closable(i) == life[i] \in {"open", "ended"} /\ i \notin gone

\* It exits 0 whatever its session met, and tells of it in the result line.
CloseLands(r) ==
  /\ pc[r] = "close"
  /\ \E h \in Failures \cup (IF Closable(id[r]) THEN {"pass"} ELSE {"error"}) :
       LET i       == id[r]
           verdict == IF h # "pass" THEN h
                      ELSE IF counts[i].failed # {} THEN "fail"
                      ELSE IF counts[i].nothing THEN "nothing" ELSE "pass"
       IN /\ \E after \in IF Closable(i) THEN {life[i], "ended", "closed"} ELSE {life[i]} :
               /\ h = "pass" => after # "open"
               /\ life' = [life EXCEPT ![i] = after]
          /\ MeetsAll(r, IF verdict = "fail" THEN {"counted"} \cup counts[i].failed
                                             ELSE {TruthOf(verdict)})
          /\ Answer(r, IF verdict = "fail" THEN Failed(report[r], "under_test")
                       ELSE Absorb(report[r], verdict))
  /\ UNCHANGED <<counts, log, gone, memory, request, left, reading, tale>>

\* `run` replays a flow into a run of its own.
RunLands(r) ==
  /\ pc[r] = "run"
  /\ \/ \E i \in Ids, h \in {"pass", "fail", "nothing", "odd"}, n \in 0 .. MaxLines :
          /\ life[i] = "none"
          /\ life' = [life EXCEPT ![i] = "closed"]
          /\ log' = [log EXCEPT ![i] = n]
          /\ id' = [id EXCEPT ![r] = i]
          /\ Meets(r, TruthOf(h))
          /\ SeekEvents(r, i, Absorb(report[r], h), run_dirs \cup {i})
     \/ \E h \in Failures :
          /\ Answer(r, Absorb(report[r], h)) /\ Meets(r, TruthOf(h))
          /\ UNCHANGED <<life, log, id, memory, reading, tale>>
  /\ UNCHANGED <<counts, gone, whole, left>>

ShowLands(r) ==
  /\ pc[r] = "show"
  /\ \E h \in OnRun(id[r], {"pass"}) :
       /\ Meets(r, TruthOf(h))
       /\ SeekEvents(r, id[r], Absorb(report[r], h),
                     IF h = "pass" THEN run_dirs \cup {id[r]} ELSE run_dirs)
  /\ UNCHANGED <<world, request, left>>

-----------------------------------------------------------------------------
\* run_dir, when the server does not know the directory; without it, the answer says
\* that nothing is known of the console, and no cursor moves.
LocateLands(r) ==
  /\ pc[r] = "locate"
  /\ \E h \in OnRun(id[r], {"pass"}) :
       \/ /\ h = "pass"
          /\ run_dirs' = run_dirs \cup {id[r]}
          /\ StartReading(r, id[r])
          /\ UNCHANGED <<report, answer>>
       \/ /\ h # "pass"
          /\ Answer(r, report[r])
          /\ UNCHANGED <<run_dirs, from, muddled>>
  /\ UNCHANGED <<world, cursors, request, left, upto, met, told, more, again>>

\* events_since: what is in the file now.  A file that cannot be read (half of a
\* character at its end) counts as an empty one.
Read(r) ==
  /\ pc[r] = "read"
  /\ LET i == id[r]
     IN \/ i \notin gone /\ upto' = [upto EXCEPT ![r] = log[i]] /\ UNCHANGED muddled
        \/ upto' = [upto EXCEPT ![r] = 0] /\ muddled' = muddled \cup {i}
  /\ pc' = [pc EXCEPT ![r] = "advance"]
  /\ UNCHANGED <<world, memory, request, left, report, from, answer, met, told, more, again>>

\* Faulty variant: every answer begins with the first line of the log.
ToldFromStart(r) == {n \in 1 .. upto[r] : n <= MaxEvents}

\* What is new to this call.
New(r) == from[r] + 1 .. upto[r]

\* An answer shows the first MAX_EVENTS of them, and says how many more there are.
Told(r) == {n \in New(r) : n <= from[r] + MaxEvents}

\* The cursor moves to what was read, whatever it has become in the meantime.
CursorPast(r) == upto[r] + 1
CursorNow(r)  == log[id[r]]

CursorAfter(r) == upto[r]

Advance(r) ==
  /\ pc[r] = "advance"
  /\ LET i == id[r]
     IN /\ cursors' = [cursors EXCEPT ![i] = CursorAfter(r)]
        /\ told' = [told EXCEPT ![i] = @ \cup Told(r)]
        /\ more' = [more EXCEPT ![i] = @ \cup (New(r) \ Told(r))]
        /\ again' = [again EXCEPT ![i] = IF whole[r] THEN @
                                         ELSE @ \cup (told[i] \cap Told(r))]
  /\ Answer(r, report[r])
  /\ from' = [from EXCEPT ![r] = 0] /\ upto' = [upto EXCEPT ![r] = 0]
  /\ UNCHANGED <<world, run_dirs, request, left, met, muddled>>

-----------------------------------------------------------------------------
(* The page, the idle timer of the driver, and the lab's files.             *)

Emits(i) ==
  /\ life[i] = "open" /\ log[i] < MaxLines
  /\ log' = [log EXCEPT ![i] = @ + 1]
  /\ UNCHANGED <<life, counts, gone, memory, pc, request, left, report, reading, answer,
                 met, tale>>

Expires(i) ==
  /\ life[i] = "open"
  /\ life' = [life EXCEPT ![i] = "ended"]
  /\ UNCHANGED <<counts, log, gone, memory, pc, request, left, report, reading, answer,
                 met, tale>>

Vanishes(i) ==
  /\ life[i] \in {"ended", "closed"}
  /\ gone' = gone \cup {i}
  /\ UNCHANGED <<life, counts, log, memory, pc, request, left, report, reading, answer,
                 met, tale>>

Handles(r) ==
  \/ WakeLands(r) \/ DoctorLands(r) \/ OpenLands(r) \/ StepLands(r) \/ CaptureLands(r)
  \/ EvalLands(r) \/ CloseLands(r) \/ RecordLands(r) \/ RunLands(r) \/ VerifyLands(r)
  \/ RunsLands(r) \/ ShowLands(r) \/ LocateLands(r) \/ Read(r) \/ Advance(r)

Next ==
  \/ \E r \in Calls : Ask(r) \/ AskBadly(r) \/ Handles(r)
  \/ \E i \in Ids : Emits(i) \/ Expires(i) \/ Vanishes(i)

Spec == Init /\ [][Next]_vars

-----------------------------------------------------------------------------
(* Properties                                                               *)

\* Of a line of the console that the server counts as told of, an answer has told, or
\* has counted it: however the reads of overlapping calls, their advances and new lines
\* interleave, the cursor may fall back, but never passes over a line in silence
\* (fresh_events, cursor, advance).  And a line is only counted behind MAX_EVENTS lines
\* that were shown (events_since).
NoLineSwallowed ==
  \A i \in Ids :
    /\ 1 .. cursors[i] \subseteq told[i] \cup more[i]
    /\ \A n \in more[i] :
         \E m \in MaxEvents .. n - 1 : /\ m - MaxEvents + 1 .. m \subseteq told[i]
                                       /\ m + 1 .. n \subseteq more[i]

\* No line is told of twice, except to one who asks for all of them (`run`, `show`), as
\* long as no two reads of the run have overlapped and each has found its file.
ToldOnceInTurn == \A i \in Ids \ muddled : again[i] = {}

\* "passed" is earned: every process of the call did what it was asked, and a batch of
\* steps was made to its end (Report::absorb, and the loop of ui_act).  Only a `wake` may
\* have failed or broken off: the lab is ready if doctor finds it so.
PassIsEarned ==
  \A r \in Calls :
    answer[r] = "passed" => /\ "ok" \in met[r] /\ met[r] \subseteq {"ok", "unwoken"}
                            /\ left[r] = 0

\* The blame is fair: the application is blamed only when a process saw it fail, or when
\* `close` finds that steps of its session were counted as failed; ui-box only when a
\* process of it did, and arguments only when nothing was run; and what proved nothing
\* is called so only when something proved nothing, and nothing failed but a `wake`.
BlameIsFair ==
  \A r \in Calls :
    /\ answer[r] = "ui_test_failed"   => met[r] \cap {"ui", "counted"} # {}
    /\ answer[r] = "uibox_unusable"   => "tool" \in met[r]
    /\ answer[r] = "nothing_verified" => /\ "nothing" \in met[r]
                                        /\ met[r] \subseteq {"ok", "nothing", "unwoken"}
    /\ answer[r] = "invalid_request"  => met[r] = {}

\* "Never report 2 as a broken UI": the same without the exception for `close`, whose
\* session may count as failed a step that a dead driver failed.
OnlyTheUIIsBlamed == \A r \in Calls : answer[r] = "ui_test_failed" => "ui" \in met[r]

\* The first trouble decides: nothing that a later process meets (the snapshot of the
\* failed state, say) turns a failure of the application into one of ui-box or back.
FirstTroubleDecides ==
  [][\A r \in Calls : report[r].failure # "none" =>
       report'[r].failure = report[r].failure /\ left'[r] = left[r]]_vars
=============================================================================
