-------------------------------- MODULE Replay --------------------------------
(***************************************************************************)
(* `ui-box run` and `ui-box verify`: one invocation that replays flows,    *)
(* each in a run directory of its own and with a driver of its own, and    *)
(* compares the pictures of a verified flow with its golden.  Meanwhile    *)
(* others bind and free the port in the lab, and approve goldens; the      *)
(* invocation may be killed, and every file and every driver may fail it.  *)
(*                                                                         *)
(* A step is a "do" (click, type, key, wait_for), an "open" of the flow's  *)
(* target, an "assert", a "picture" (a snap with an image) or a "look" (a  *)
(* snap without).  A picture shows one of Looks, and has a golden.         *)
(***************************************************************************)
EXTENDS Preflight, Verdicts, Sequences, FiniteSets

CONSTANTS
  Looks,   \* what a picture can show
  Cases,   \* the invocations: command line, flows and world
  Faults   \* what may fail: files, the driver, uibox-vision, placing, being killed

StepKinds == {"do", "open", "assert", "picture", "look"}
FaultKinds == {"write", "driver", "vision", "place", "kill"}
NoGolden  == 0

\* What is said of an artifact to place, and of the tree it is built from.
Placing == [no_place : BOOLEAN, artifact : BOOLEAN,
            names    : BOOLEAN,    \* project, lab and target lab are known
            source   : {"lab", "given", "absent", "project", "git", "none"}]

Targets == {"url", "token", "other"}     \* a page, {{artifact}}, another page

Case == [world      : World,
         verb       : {"run", "verify"},
         since      : {"unset", "same", "moved", "unknown"},    \* verify --since
         flows      : Seq([valid : BOOLEAN, steps : Seq(StepKinds)]),
         goldens    : BOOLEAN,     \* a store and uibox-vision are configured
         keep_going : BOOLEAN,
         update     : BOOLEAN,     \* --update-goldens
         placing    : Placing,
         opens      : Targets,     \* the target that the flow and its opens name
         target     : Targets]     \* the one that is asked for (--target)

ASSUME ReplayOK ==
  /\ Looks \subseteq Nat \ {NoGolden} /\ IsFiniteSet(Looks)
  /\ Cases \subseteq Case /\ Faults \subseteq FaultKinds
  /\ \A c \in Cases : c.verb = "run" => Len(c.flows) <= 1     \* it is given one

VARIABLES
  case,       \* the invocation
  holder,     \* who has the port in the lab: "none", a "session", or a "foreign" process
  golden,     \* per flow and picture, what the golden shows
  pc,         \* what the invocation does next
  flow,       \* which flow it replays, and
  step,       \* which step of it is next
  shots,      \* the pictures of this flow that were written: at which step, and what they show
  count,      \* of this flow: steps that failed, and that proved nothing; pictures that
              \* differ from the golden, and pictures that were compared
  halted,     \* the steps ended early
  failure,    \* an error of ui-box ended them
  driver,     \* of its drivers that run: "up" (the one it calls), "orphan" (ones whose
              \* input has ended)
  meta,       \* the verdict in meta.json of each flow's run
  tally,      \* of verify: flows that failed, and that proved nothing
  outcome,    \* how the invocation ended
  met         \* what it met in truth, as in McpServer (a history variable)

vars == <<case, holder, golden, pc, flow, step, shots, count, halted, failure, driver,
          meta, tally, outcome, met>>

others  == <<case, holder, golden>>
running == <<step, shots, count, halted, failure>>

Flows  == case.flows

\* A flow has no two snaps of one name, and its own name stands before its goldens'.
Pictures == UNION {{f} \X {s \in DOMAIN Flows[f].steps : Flows[f].steps[s] = "picture"} :
                     f \in DOMAIN Flows}
Steps  == Flows[flow].steps
Verify == case.verb = "verify"
w      == case.world

NoCount  == [failed |-> 0, nothing |-> 0, differ |-> 0, compared |-> 0]
Verdicts4 == {"none", "open", "pass", "fail", "nothing", "error"}

TypeOK ==
  /\ case \in Case
  /\ holder \in {"none", "session", "foreign"}
  /\ golden \in [Pictures -> Looks \cup {NoGolden}]
  /\ pc \in {"start", "flow", "spawn", "steps", "compare", "finish", "next", "done"}
  /\ flow \in 1 .. Len(Flows) + 1
  /\ flow \in DOMAIN Flows => /\ step \in 1 .. Len(Steps) + 1
                              /\ Len(shots) < step
                              /\ count.failed + count.nothing < step
  /\ halted \in BOOLEAN /\ failure \in BOOLEAN
  /\ driver \subseteq {"up", "orphan"}
  /\ meta \in [DOMAIN Flows -> Verdicts4]
  /\ tally.failed + tally.nothing <=
       flow - (IF (pc = "next" /\ ~failure) \/ outcome = "killed" THEN 0 ELSE 1)
  /\ outcome \in Happenings \cup {"none"}
  /\ met \subseteq {"ui", "nothing", "tool"}

Assertions(f)  == Len(SelectSeq(f.steps, LAMBDA s : s = "assert"))
Loads(f)       == f.valid     \* it parses, is of version 1, and no two snaps have one name
ImageSnaps(f)  == Len(SelectSeq(f.steps, LAMBDA s : s = "picture"))

\* Who holds the port matters to who publishes it.
Init ==
  /\ case \in Cases
  /\ holder \in IF Publishes(w) THEN {"none", "session", "foreign"} ELSE {"none"}
  /\ golden \in [Pictures -> Looks \cup {NoGolden}]
  /\ pc = "start" /\ flow = 1 /\ step = 1 /\ shots = <<>> /\ count = NoCount
  /\ halted = FALSE /\ failure = FALSE /\ driver = {}
  /\ meta = [f \in DOMAIN Flows |-> "none"]
  /\ tally = [failed |-> 0, nothing |-> 0]
  /\ outcome = "none" /\ met = {}

-----------------------------------------------------------------------------
\* The driver's input ends: a driver that is here or in the lab finds that itself.
Drops == driver' = (driver \ {"up"}) \cup (IF "up" \in driver THEN {"orphan"} ELSE {})

\* close, and terminate(pid).  The process it ends is the driver, or the ssh to a driver
\* in the lab, whose input ends with it.
Closes == driver' = (driver \ {"up"}) \cup (IF Distant(w) THEN {"orphan"} ELSE {})

\* An error that keeps its connection.
ErrHolds(truths) ==
  /\ outcome' = "error" /\ pc' = "done"
  /\ met' = met \cup truths \cup {"tool"}
  /\ UNCHANGED driver

\* An error that `?` passes up: exit 2, and no summary but the error.
Err(truths) ==
  /\ outcome' = "error" /\ pc' = "done"
  /\ met' = met \cup truths \cup {"tool"}
  /\ Drops

\* An error that is passed up by hand, once its driver has been ended.
Broken == outcome' = "error" /\ pc' = "done" /\ met' = met \cup {"tool"}

End(h) == outcome' = h /\ pc' = "done"

\* verify looks first whether there is anything to replay.
MovedSince == case.since # "same"     \* a ref that git cannot compare with counts as one

Start ==
  /\ pc = "start"
  /\ IF Verify /\ (~MovedSince \/ Flows = <<>>)
       THEN End("skipped") /\ met' = met \cup {"nothing"} /\ UNCHANGED driver
     ELSE IF Flows = <<>> THEN Err({})
     ELSE pc' = "flow" /\ UNCHANGED <<outcome, met, driver>>
  /\ UNCHANGED <<others, flow, running, meta, tally>>

PinnedByGoldens(f) == Verify /\ case.goldens /\ ImageSnaps(f) > 0

\* resolve_source: the tree to sync, the lab's own checkout, or no answer.
ResolveSource == IF case.placing.source \in {"lab", "none"} THEN "lab"
                 ELSE IF case.placing.source = "absent" THEN "absent" ELSE "host"

\* place_artifact, up to the call of the pipeline.
PlaceArtifact ==
  IF case.placing.no_place \/ ~case.placing.artifact THEN "skip"
  ELSE IF ~case.placing.names \/ ResolveSource = "absent" THEN "incomplete" ELSE "place"

\* Why `execute` gives up before there is a run directory, in its order.
Refusal ==
  IF ~Loads(Flows[flow]) THEN "invalid"
  ELSE IF Assertions(Flows[flow]) = 0 /\ ~PinnedByGoldens(Flows[flow]) THEN "asserts_nothing"
  ELSE IF Guard(w) # "ok" THEN Guard(w)
  ELSE IF ~ProbeBackend(w) THEN "backend"
  ELSE IF PlaceArtifact = "incomplete" THEN "place"
  ELSE IF ~Resolved(w, w.surface) THEN Resolve(w, w.surface)
  ELSE IF ~w.artifacts THEN "artifacts" ELSE "none"

Begin ==
  /\ pc = "flow"
  /\ \/ /\ \/ Refusal # "none"
           \/ PlaceArtifact = "place" /\ "place" \in Faults
           \/ "write" \in Faults
        /\ Err({}) /\ UNCHANGED meta
     \/ /\ Refusal = "none"
        /\ pc' = "spawn"
        /\ meta' = [meta EXCEPT ![flow] = "open"]
        /\ UNCHANGED <<outcome, met, driver>>
  /\ UNCHANGED <<others, flow, running, tally>>

\* The verdict in meta.json, which may stay what it was.
Writes(verdict) ==
  \/ meta' = [meta EXCEPT ![flow] = verdict]
  \/ "write" \in Faults /\ UNCHANGED meta

\* Connection::spawn to open: a program that cannot be executed leaves an open meta.json,
\* everything later ends the driver, which in the lab may not have been started, and
\* writes the error down (or fails to).
CanOpen == Opens(w) /\ (Publishes(w) => holder = "none")

Spawn ==
  /\ pc = "spawn"
  /\ \/ ~w.program /\ Err({}) /\ UNCHANGED meta
     \/ /\ w.program
        /\ ~CanOpen \/ "driver" \in Faults
        /\ Broken /\ Writes("error")
        /\ Closes \/ UNCHANGED driver
     \/ /\ CanOpen
        /\ pc' = "steps" /\ driver' = driver \cup {"up"} /\ UNCHANGED <<outcome, met, meta>>
  /\ UNCHANGED <<others, flow, running, tally>>

-----------------------------------------------------------------------------
AtStep == pc = "steps" /\ ~halted /\ step <= Len(Steps)

\* The target that is opened, once an artifact has its path.
EffectiveTarget == IF case.target = "token" /\ PlaceArtifact = "place" THEN "placed"
                   ELSE case.target

\* The first open of that very target has been done by the driver's own open.
Opened == /\ Steps[step] = "open" /\ case.opens = EffectiveTarget
          /\ \A s \in 1 .. step - 1 : Steps[s] # "open"

SkipOpen ==
  /\ AtStep /\ Opened
  /\ \/ step' = step + 1 /\ UNCHANGED <<outcome, pc, met, driver>>
     \/ "write" \in Faults /\ Err({}) /\ UNCHANGED step
  /\ UNCHANGED <<others, flow, shots, count, halted, failure, meta, tally>>

\* What a driver can answer to a step: only an assertion proves nothing.
Answers(kind) == IF kind \in {"picture", "look"} THEN {"ok"}
                 ELSE IF kind = "assert" THEN {"ok", "fail", "nothing"} ELSE {"ok", "fail"}

\* Executor::perform, and what the loop of `execute` makes of it: a step that is not ok
\* halts the flow unless told otherwise.
Counts(failed, nothing) ==
  [failed   |-> count.failed + failed, nothing |-> count.nothing + nothing,
   compared |-> count.compared,        differ  |-> count.differ]

CountTwice(a) == Counts(IF a = "fail" THEN 2 ELSE 0, IF a = "nothing" THEN 1 ELSE 0)
CountStep(a)  == Counts(IF a = "fail" THEN 1 ELSE 0, IF a = "nothing" THEN 1 ELSE 0)

StepAfter(a) == step + 1

\* Executor::snapshot: a driver may answer that it wrote no image.
Snapshots == {shots} \cup (IF Steps[step] # "picture" THEN {}
                           ELSE {Append(shots, [at |-> step, look |-> look]) : look \in Looks})

Perform ==
  /\ AtStep /\ ~Opened
  /\ \E a \in Answers(Steps[step]) :
       /\ count' = CountStep(a)
       /\ halted' = (a # "ok" /\ ~case.keep_going)
       /\ step' = StepAfter(a)
       /\ met' = IF a = "fail" THEN met \cup {"ui"}
                 ELSE IF a = "nothing" THEN met \cup {"nothing"} ELSE met
  /\ shots' \in Snapshots
  /\ UNCHANGED <<others, pc, flow, failure, driver, meta, tally, outcome>>

\* The driver, or a file of the step, fails: the flow halts with an error.  The step is
\* counted as failed, unless only writing it down has failed.
PerformFails ==
  /\ AtStep /\ ~Opened
  /\ Faults \cap {"driver", "write"} # {}
  /\ count' \in {CountStep("fail")} \cup (IF "write" \in Faults THEN {count} ELSE {})
  /\ halted' = TRUE /\ failure' = TRUE
  /\ met' = met \cup {"tool"} /\ step' = step + 1
  /\ UNCHANGED <<others, pc, flow, shots, driver, meta, tally, outcome>>

Compares == Verify /\ ~failure /\ shots # <<>>

StepsOver ==
  /\ pc = "steps" /\ (halted \/ step > Len(Steps))
  /\ pc' = IF Compares THEN "compare" ELSE "finish"
  /\ UNCHANGED <<others, flow, running, driver, meta, tally, outcome, met>>

-----------------------------------------------------------------------------
\* compare_goldens, one picture after the other; the golden may move in between.  An
\* error of it closes the driver and is written down before it is passed up.
Missing(shot)  == golden[<<flow, shot.at>>] = NoGolden
Differs(shot)  == golden[<<flow, shot.at>>] \notin {NoGolden, shot.look}
Approves(shot) == case.update /\ (Missing(shot) \/ Differs(shot))

Compare ==
  /\ pc = "compare" /\ case.goldens
  /\ LET shot == Head(shots)
         bad  == Differs(shot) /\ ~Approves(shot)
     IN /\ golden' = IF Approves(shot) THEN [golden EXCEPT ![<<flow, shot.at>>] = shot.look]
                     ELSE golden
        /\ count' = [failed   |-> count.failed, nothing |-> count.nothing,
                     compared |-> count.compared + (IF Missing(shot) THEN 0 ELSE 1),
                     differ   |-> count.differ + (IF bad THEN 1 ELSE 0)]
        /\ met' = IF bad THEN met \cup {"ui"} ELSE met
  /\ shots' = Tail(shots)
  /\ pc' = IF Len(shots) = 1 THEN "finish" ELSE "compare"
  /\ UNCHANGED <<case, holder, flow, step, halted, failure, driver, meta, tally, outcome>>

CompareFails ==
  /\ pc = "compare" /\ (~case.goldens \/ "vision" \in Faults)
  /\ Broken /\ Closes
  /\ Writes("error")
  /\ UNCHANGED <<others, flow, running, tally>>

-----------------------------------------------------------------------------
VerdictOfSteps ==
  IF failure THEN "error"
  ELSE IF count.failed > 0 THEN "fail"
  ELSE IF count.nothing > 0 THEN "nothing" ELSE "pass"

Verdict ==
  IF failure THEN "error"
  ELSE IF count.failed + count.differ > 0 THEN "fail"
  ELSE IF count.nothing > 0 THEN "nothing" ELSE "pass"

\* The driver is closed, then meta.json gets its verdict.
Finish ==
  /\ pc = "finish"
  /\ Closes
  /\ \/ /\ meta' = [meta EXCEPT ![flow] = Verdict]
        /\ tally' = [failed  |-> tally.failed + (IF Verdict = "fail" THEN 1 ELSE 0),
                     nothing |-> tally.nothing + (IF Verdict = "nothing" THEN 1 ELSE 0)]
        /\ pc' = "next" /\ UNCHANGED <<outcome, met>>
     \/ "write" \in Faults /\ Broken /\ UNCHANGED <<meta, tally>>
  /\ UNCHANGED <<others, flow, running>>

\* The report of a verified flow is made, whatever comes of it; then an error is passed
\* up, or `verify` goes on to the next flow whatever this one's verdict was.  `finish` and
\* the end of `verify` are the same choice, over one flow or all.
SummedLast   == meta[flow]
SummedVacant == IF tally.nothing > 0 THEN "nothing" ELSE IF tally.failed > 0 THEN "fail" ELSE "pass"

Summed == IF tally.failed > 0 THEN "fail" ELSE IF tally.nothing > 0 THEN "nothing" ELSE "pass"

NextFlow ==
  /\ pc = "next"
  /\ \/ failure /\ End("error") /\ UNCHANGED <<flow, running>>
     \/ /\ ~failure
        /\ flow' = flow + 1
        /\ IF Verify /\ flow < Len(Flows) THEN pc' = "flow" /\ UNCHANGED outcome
           ELSE End(Summed)
        /\ step' = 1 /\ shots' = <<>> /\ count' = NoCount /\ halted' = FALSE /\ failure' = FALSE
  /\ UNCHANGED <<others, driver, meta, tally, met>>

-----------------------------------------------------------------------------
\* Killed, or a panic.  The driver finds its input at an end.
Killed ==
  /\ "kill" \in Faults /\ pc # "done"
  /\ End("killed")
  /\ Drops
  /\ met' = met \cup {"tool"}
  /\ UNCHANGED <<others, flow, running, meta, tally>>

\* The last of the drivers that lost their input stops (DriverEnds of DomDriver says when
\* one does; nothing here makes it).
DriverEnds ==
  /\ "orphan" \in driver
  /\ driver' = driver \ {"orphan"}
  /\ UNCHANGED <<others, pc, flow, running, meta, tally, outcome, met>>

\* Somebody binds or frees the port in the lab.
PortMoves ==
  /\ pc \in {"start", "flow", "spawn"} /\ Publishes(w)
  /\ holder' \in {"none", "session", "foreign"} \ {holder}
  /\ UNCHANGED <<case, golden, pc, flow, running, driver, meta, tally, outcome, met>>

\* Somebody approves a golden.
Approved ==
  /\ pc \in {"steps", "compare"}
  /\ \E p \in Pictures : \E look \in Looks \ {golden[p]} : golden' = [golden EXCEPT ![p] = look]
  /\ UNCHANGED <<case, holder, pc, flow, running, driver, meta, tally, outcome, met>>

Works == Start \/ Begin \/ Spawn \/ SkipOpen \/ Perform \/ PerformFails \/ StepsOver
           \/ Compare \/ CompareFails \/ Finish \/ NextFlow

Next == Works \/ Killed \/ DriverEnds \/ PortMoves \/ Approved

Spec == Init /\ [][Next]_vars

\* Where it waits for a program that nothing limits: git, the lab's shell and what is
\* synced and built there, the files of a snap that are fetched from it, uibox-vision.
Unlimited ==
  \/ pc = "start" /\ case.since # "unset"
  \/ pc = "flow" /\ (w.backend = "ssh" \/ PlaceArtifact = "place")
  \/ AtStep /\ Distant(w) /\ Steps[step] \in {"picture", "look"}
  \/ pc = "compare"
  \/ pc = "next" /\ Verify

\* Everything else ends: file operations, and the calls of the driver, which return or
\* time out.  A message that answers another call restarts the wait, but a driver writes
\* nothing besides one answer to each request (drivers/dom, rpc.ts).
FairSpec == Spec /\ WF_vars(Works /\ ~Unlimited)

-----------------------------------------------------------------------------
(* Properties                                                               *)

\* Exit 0 with a pass is everything: every flow has been replayed to its last step, and
\* nothing failed, proved nothing, differed or broke on the way (execute, verify, finish).
PassMeansAll ==
  /\ outcome = "pass" => met = {} /\ \A f \in DOMAIN Flows : meta[f] = "pass"
  /\ pc = "next" /\ meta[flow] = "pass" => /\ step > Len(Steps) /\ ~halted
                                           /\ Verify => shots = <<>>

\* The exit code and the verdicts in the run directories tell the same story, whatever
\* failed on the way: 1 when a flow failed, 0 with a verdict for each flow otherwise, and
\* 2 only over a last flow without a verdict on the UI.
LedgerMatchesExit ==
  pc = "done" =>
    /\ ExitCode(outcome) = 1 <=> outcome # "killed" /\ outcome # "error"
                                   /\ \E f \in DOMAIN Flows : meta[f] = "fail"
    /\ outcome \in {"pass", "nothing", "fail"} =>
         \A f \in DOMAIN Flows : meta[f] \in {"pass", "nothing", "fail"}
    /\ outcome = "nothing" => \E f \in DOMAIN Flows : meta[f] = "nothing"
    /\ outcome = "error" /\ Flows # <<>> =>
         /\ meta[flow] \in {"none", "open", "error"}
         /\ \A f \in DOMAIN Flows : f < flow => meta[f] \in {"pass", "nothing", "fail"}
         /\ \A f \in DOMAIN Flows : f > flow => meta[f] = "none"

\* The blame is fair: 1 only when the UI was asked and failed or looked different, and
\* nothing of ui-box broke; 2 only when something of ui-box broke.
BlameNeedsUi ==
  /\ outcome = "fail"    => "ui" \in met /\ "tool" \notin met
  /\ outcome = "error"   => "tool" \in met
  /\ outcome = "nothing" => met = {"nothing"}

\* doctor foretells: in a world that stays as it is, what it calls blocking keeps a
\* replay from a page, and once nothing is amiss a replay is refused for its flow, for a
\* port or a surface that doctor does not ask about, or for a port somebody holds.  What
\* it says of tauri holds for flows of the configured surface only: a web flow opens where
\* tauri is configured and broken, and a tauri flow fails where it is not configured.
DoctorForetells ==
  /\ "up" \in driver => Blocking(w) \subseteq {"sessions"} \cup
                         (IF w.tauri = "unsaid" \/ w.surface # w.configured
                            THEN {"driver.tauri"} ELSE {})
  /\ pc = "spawn" /\ Usable(w) =>
       \/ CanOpen \/ ~EnsureSurface(w) \/ holder # "none"
       \/ w.tauri = "broken" /\ w.surface = "tauri" /\ w.configured # "tauri"
  /\ pc = "flow" /\ Usable(w) /\ Advice(w, TRUE) = {} =>
       Refusal \in {"none", "invalid", "asserts_nothing", "place", "unsupported",
                    "forward_unsupported", "forward_missing"}

\* Every invocation ends, unless it waits for a program that nothing limits, and however
\* it ends no driver keeps an input to wait at.
EndsClean == <>[](Unlimited \/ (pc = "done" /\ "up" \notin driver))

-----------------------------------------------------------------------------
(* What the code does not promise (README, "Where the documents and the     *)
(* code part")                                                              *)

\* A pass has an assertion or a comparison behind it: not when a flow is let in for its
\* pictures and the driver writes none, or when there is no golden yet.
PassIsBacked ==
  pc = "next" /\ meta[flow] = "pass" => Assertions(Flows[flow]) > 0 \/ count.compared > 0

\* What doctor calls usable opens, whatever surface is asked for: it looks at the
\* configured surface, the flow names its own.
UsableOpens == pc = "spawn" /\ Usable(w) => CanOpen \/ ~EnsureSurface(w) \/ holder # "none"

\* A golden is approved only from a flow whose steps passed: compare_goldens runs for a
\* flow whose steps have failed, too.
ApprovedFromPasses ==
  [][golden' # golden /\ step' = step /\ shots' # shots => count.failed = 0 /\ ~halted]_vars
===============================================================================
