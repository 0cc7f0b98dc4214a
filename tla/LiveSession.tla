------------------------------ MODULE LiveSession ------------------------------
(***************************************************************************)
(* One live session of the ui-box CLI: `open`, then any number of          *)
(* `act`/`snap`/`eval` invocations and a `close`.  Every invocation is a   *)
(* process of its own.  Invocations meet only in files that nothing locks: *)
(*                                                                         *)
(*   record   <sessions>/<id>/session.json, what later invocations load    *)
(*   channel  the two FIFOs of the detached driver, in the same directory  *)
(*   meta     <artifacts>/<id>/meta.json, the counts and the verdict       *)
(*   steps    <artifacts>/<id>/steps.yaml, appended to                     *)
(*                                                                         *)
(* and in the driver process, which keeps the page and its own idle timer. *)
(* The driver runs on this machine, and then the pid of the record is its  *)
(* own; or on the host of the backend, and then the pid is that of the     *)
(* local `ssh -T` between the FIFOs and the driver's input and output.     *)
(* A counter of meta.json is represented by the set of invocations it has  *)
(* counted (each adds at most one); its value is the set's cardinality.    *)
(***************************************************************************)
EXTENDS Naturals, Sequences, FiniteSets

CONSTANTS
  Cmds,           \* the invocations that may follow `open`
  TTL,            \* UIBOX_SESSION_TTL, the same for the CLI and the driver
  MaxTime,        \* bound on the clock
  MaxConcurrent,  \* how many invocations the caller keeps in flight
  Crashes,        \* may an invocation be killed?
  DiskFaults,     \* may a write fail?
  DriverFaults    \* may the driver die by itself?

ASSUME ConstantsOK ==
  /\ IsFiniteSet(Cmds)
  /\ TTL \in Nat \ {0} /\ MaxTime \in Nat /\ MaxConcurrent \in Nat
  /\ {Crashes, DiskFaults, DriverFaults} \subseteq BOOLEAN

VARIABLES
  now,       \* seconds since `open`
  phase,     \* how far `open` has come
  remote,    \* does the driver run on another host, behind an ssh client?
  proc,      \* the driver process: "none", "up", "cut" (it works on without
             \* the ssh client that joined it to the FIFOs), "down"
  page,      \* the driver's session: "none", "open", "gone"
  touched,   \* when the driver last restarted its idle timer
  inbox,     \* requests in the request FIFO
  running,   \* requests whose handler the driver has started
  channel,   \* do the FIFOs exist?
  record, meta, steps,
  pc, kind,  \* of each invocation: where it is, and which command it runs
  seen,      \* the record it loaded
  answer,    \* what the driver answered it, "error" for no answer
  draft,     \* the meta.json it read back
  outcome,   \* what the page did with the step (a history variable)
  unlogged,  \* how many steps could not be appended to steps.yaml (history)
  told       \* what the caller was told (a history variable)

log     == <<steps, unlogged>>
disk    == <<channel, record, meta, log>>
driver  == <<remote, proc, page, touched, inbox, running>>
cli     == <<pc, kind, seen, answer, draft, told>>
vars    == <<now, phase, driver, disk, cli, outcome>>

Kinds   == {"act", "snap", "eval", "close"}
Answers == {"none", "ok", "failed", "nothing", "error", "unrecorded"}
Tolds   == {"none", "refused", "killed", "passed", "failed", "nothing",
            "error", "unwritten", "closed"}
PCs     == {"new", "loaded", "waiting", "answered", "save", "terminate",
            "readMeta", "writeMeta", "remove", "done"}
Phases  == {"new", "spawned", "answered", "saved", "announced", "failed",
            "abandoned"}
Verdicts == {"open", "pass", "fail", "nothing_verified"}
States  == {"absent", "torn", "ok"}

Records == [state : States, step_count : Nat, last_used : Nat]
Metas   == [state : States, verdict : Verdicts, ended : BOOLEAN,
            steps_total : Nat,
            steps_failed : SUBSET Cmds, steps_nothing : SUBSET Cmds]

BlankRecord(state) == [state |-> state, step_count |-> 0, last_used |-> 0]
BlankMeta(state)   == [state |-> state, verdict |-> "open", ended |-> FALSE,
                       steps_total |-> 0, steps_failed |-> {}, steps_nothing |-> {}]

NoRecord == BlankRecord("absent")
NoMeta   == BlankMeta("absent")

\* `fs::write` truncates before it writes: a writer stopped in between leaves
\* a file that no longer parses.
TornRecord == BlankRecord("torn")
TornMeta   == BlankMeta("torn")

OnRecord == {steps[n] : n \in DOMAIN steps}
Busy     == {i \in Cmds : pc[i] \notin {"new", "done"}}
Stepping(i) == kind[i] \in {"act", "snap"}

TypeOK ==
  /\ now \in Nat /\ touched \in Nat
  /\ phase \in Phases
  /\ remote \in BOOLEAN
  /\ proc \in {"none", "up", "cut", "down"}
  /\ page \in {"none", "open", "gone"}
  /\ inbox \subseteq Cmds /\ running \subseteq Cmds
  /\ channel \in BOOLEAN
  /\ record \in Records /\ meta \in Metas /\ steps \in Seq(Cmds)
  /\ unlogged \in Nat
  /\ pc \in [Cmds -> PCs]
  /\ kind \in [Cmds -> Kinds \cup {"none"}]
  /\ seen \in [Cmds -> Records]
  /\ draft \in [Cmds -> Metas]
  /\ answer \in [Cmds -> Answers]
  /\ outcome \in [Cmds -> {"none", "ok", "failed", "nothing", "error"}]
  /\ told \in [Cmds -> Tolds]

Init ==
  /\ now = 0 /\ touched = 0
  /\ remote \in BOOLEAN
  /\ phase = "new" /\ proc = "none" /\ page = "none"
  /\ inbox = {} /\ running = {}
  /\ channel = FALSE /\ record = NoRecord /\ meta = NoMeta /\ steps = <<>> /\ unlogged = 0
  /\ pc = [i \in Cmds |-> "new"]
  /\ kind = [i \in Cmds |-> "none"]
  /\ seen = [i \in Cmds |-> NoRecord]
  /\ draft = [i \in Cmds |-> NoMeta]
  /\ answer = [i \in Cmds |-> "none"]
  /\ outcome = [i \in Cmds |-> "none"]
  /\ told = [i \in Cmds |-> "none"]

--------------------------------------------------------------------------------
(***************************************************************************)
(* The end of a driver                                                     *)
(***************************************************************************)

\* process_alive(pid): the driver, or the ssh client that leads to it, runs.
PidAlive == proc = "up"

\* The driver itself runs, whether or not anyone can reach it.
AtWork == proc \in {"up", "cut"}

\* The driver and all it was doing is gone.
Gone == /\ proc' = "down" /\ page' = "gone" /\ inbox' = {} /\ running' = {}
        /\ UNCHANGED remote

\* The ssh client is gone: what it had passed on is still to be done, the rest
\* of the FIFO is lost, and no answer comes back.
CutOff == /\ proc' = "cut" /\ inbox' \in SUBSET inbox
          /\ UNCHANGED <<remote, page, running>>

\* SIGTERM, then SIGKILL, to the process the record names, if it lives.  A
\* driver that is told to stop closes its page first, as if it had been asked.
Signalled ==
  \/ PidAlive /\ ~remote /\ Gone
  \/ PidAlive /\ remote /\ CutOff
  \/ ~PidAlive /\ UNCHANGED <<remote, proc, page, inbox, running>>

--------------------------------------------------------------------------------
(***************************************************************************)
(* ui-box open                                                             *)
(***************************************************************************)

\* The session directory and the FIFOs are made, the driver is spawned on them.
OpenSpawn ==
  /\ phase = "new" /\ phase' = "spawned"
  /\ channel' = TRUE /\ proc' = "up"
  /\ UNCHANGED <<now, remote, page, touched, inbox, running, record, meta, log, cli,
                 outcome>>

\* `info` and `open` are answered: the page is ready and its idle timer runs.
OpenAnswer ==
  /\ phase = "spawned" /\ proc = "up" /\ phase' = "answered"
  /\ page' = "open" /\ touched' = now
  /\ UNCHANGED <<now, remote, proc, inbox, running, disk, cli, outcome>>

\* Faulty variant: the driver of a failed `open` is left running.
OpenFailsLeavesDriver ==
  /\ phase = "spawned" /\ phase' = "failed"
  /\ channel' = FALSE
  /\ UNCHANGED <<now, driver, record, meta, log, cli, outcome>>

\* The driver refuses, times out or exits: it is terminated, the directory goes.
OpenFails ==
  /\ phase = "spawned" /\ phase' = "failed"
  /\ Signalled /\ channel' = FALSE
  /\ UNCHANGED <<now, touched, record, meta, log, cli, outcome>>

OpenSave ==
  /\ phase = "answered" /\ phase' = "saved"
  /\ record' = [state |-> "ok", step_count |-> 0, last_used |-> now]
  /\ UNCHANGED <<now, driver, channel, meta, log, cli, outcome>>

\* Meta::new is written and the caller learns the id of the session.
OpenMeta ==
  /\ phase = "saved" /\ phase' = "announced"
  /\ meta' = BlankMeta("ok")
  /\ UNCHANGED <<now, driver, channel, record, log, cli, outcome>>

\* `open` is killed half way, or cannot write a file; what it made stays there.
OpenKilled ==
  /\ Crashes \/ (DiskFaults /\ phase \in {"answered", "saved"})
  /\ phase \in {"spawned", "answered", "saved"} /\ phase' = "abandoned"
  /\ UNCHANGED <<now, driver, disk, cli, outcome>>

Open == OpenSpawn \/ OpenAnswer \/ OpenFails \/ OpenSave \/ OpenMeta \/ OpenKilled

--------------------------------------------------------------------------------
(***************************************************************************)
(* Steps that the commands share                                           *)
(***************************************************************************)

\* The caller knows the id from the answer of `open`, or from the run directory.
Known == phase \in {"announced", "abandoned"}

\* The truncated file that another invocation is about to fill.
BeingSaved   == \E j \in Cmds : pc[j] = "save"
BeingWritten == \E j \in Cmds : pc[j] = "writeMeta"

Advance(i, where) == /\ pc' = [pc EXCEPT ![i] = where]
                     /\ UNCHANGED told

Goto(i, where) == Advance(i, where) /\ UNCHANGED <<seen, draft>>

\* The process exits: what it had read is gone with it.
Finish(i, what) == /\ pc' = [pc EXCEPT ![i] = "done"]
                   /\ told' = [told EXCEPT ![i] = what]
                   /\ seen' = [seen EXCEPT ![i] = NoRecord]
                   /\ draft' = [draft EXCEPT ![i] = NoMeta]

\* SessionStore::load finds a record that parses.
Load(i, k) ==
  /\ pc[i] = "new" /\ Known /\ Cardinality(Busy) < MaxConcurrent
  /\ record.state = "ok"
  /\ kind' = [kind EXCEPT ![i] = k]
  /\ seen' = [seen EXCEPT ![i] = record]
  /\ Advance(i, "loaded")
  /\ UNCHANGED <<now, phase, driver, disk, answer, draft, outcome>>

\* SessionStore::load finds no record, or one that does not parse.
LoadFails(i, k) ==
  /\ pc[i] = "new" /\ Known /\ Cardinality(Busy) < MaxConcurrent
  /\ record.state # "ok" \/ BeingSaved
  /\ kind' = [kind EXCEPT ![i] = k]
  /\ Finish(i, "refused")
  /\ UNCHANGED <<now, phase, driver, disk, answer, outcome>>

Expired(i) == now > seen[i].last_used + TTL

\* SessionRecord::ensure_usable
Usable(i) == ~Expired(i) /\ PidAlive

\* The request is written to the FIFO, whoever reads it.
Attach(i) ==
  /\ pc[i] = "loaded" /\ kind[i] # "close"
  /\ Usable(i) /\ channel
  /\ inbox' = inbox \cup {i}
  /\ Goto(i, "waiting")
  /\ UNCHANGED <<now, phase, remote, proc, page, touched, running, disk, kind, answer,
                 outcome>>

Refuse(i) ==
  /\ pc[i] = "loaded" /\ kind[i] # "close"
  /\ ~(Usable(i) /\ channel)
  /\ Finish(i, "refused")
  /\ UNCHANGED <<now, phase, driver, disk, kind, answer, outcome>>

\* recv_timeout elapses: Timeout if the driver lives, Exited if it does not.
\* The driver holds both ends of the FIFOs open, so no end of file ever comes.
Timeout(i) ==
  /\ pc[i] = "waiting"
  /\ answer' = [answer EXCEPT ![i] = "error"]
  /\ Goto(i, "answered")
  /\ UNCHANGED <<now, phase, driver, disk, kind, outcome>>

--------------------------------------------------------------------------------
(***************************************************************************)
(* act, snap, eval                                                         *)
(***************************************************************************)

\* Executor::perform appends the step whatever came of it.
AppendStep(i) ==
  /\ pc[i] = "answered" /\ Stepping(i)
  /\ steps' = Append(steps, i)
  /\ Goto(i, "save")
  /\ UNCHANGED <<now, phase, driver, channel, record, meta, unlogged, kind, answer, outcome>>

\* If the step cannot be appended, an answer is given up for that error and is
\* not counted; an error that was there already is, and is counted.
AppendFails(i) ==
  /\ DiskFaults
  /\ pc[i] = "answered" /\ Stepping(i)
  /\ answer' = [answer EXCEPT ![i] = IF @ = "error" THEN @ ELSE "unrecorded"]
  /\ unlogged' = unlogged + 1
  /\ Goto(i, "save")
  /\ UNCHANGED <<now, phase, driver, channel, record, meta, steps, kind, outcome>>

\* eval records nothing, and returns an error before it touches the record.
EvalAnswered(i) ==
  /\ pc[i] = "answered" /\ kind[i] = "eval"
  /\ \/ answer[i] = "error" /\ Finish(i, "error")
     \/ answer[i] # "error" /\ Goto(i, "save")
  /\ UNCHANGED <<now, phase, driver, disk, kind, answer, outcome>>

\* Faulty variant: a call is counted whether or not it is a step.
CallsAfter(i) == seen[i].step_count + 1

StepsAfter(i) == seen[i].step_count + (IF Stepping(i) THEN 1 ELSE 0)

\* Faulty variant: the record is touched and its step count forgotten.
SaveTouchOnly(i) ==
  /\ pc[i] = "save"
  /\ record' = [state |-> "ok", step_count |-> seen[i].step_count, last_used |-> now]
  /\ \/ Stepping(i) /\ Goto(i, "readMeta")
     \/ ~Stepping(i) /\ Finish(i, IF answer[i] = "nothing" THEN "nothing" ELSE "passed")
  /\ UNCHANGED <<now, phase, driver, channel, meta, log, kind, answer, outcome>>

\* What was loaded is written back, touched, with the new step count; the
\* directory is made again if it is gone.
Save(i) ==
  /\ pc[i] = "save"
  /\ record' = [state |-> "ok", step_count |-> StepsAfter(i), last_used |-> now]
  /\ \/ Stepping(i) /\ Goto(i, "readMeta")
     \/ ~Stepping(i) /\ Finish(i, IF answer[i] = "nothing" THEN "nothing" ELSE "passed")
  /\ UNCHANGED <<now, phase, driver, channel, meta, log, kind, answer, outcome>>

ReadMeta(i) ==
  /\ pc[i] = "readMeta" /\ meta.state = "ok"
  /\ draft' = [draft EXCEPT ![i] = meta]
  /\ Advance(i, "writeMeta")
  /\ UNCHANGED <<now, phase, driver, disk, kind, seen, answer, outcome>>

ReadMetaFails(i) ==
  /\ pc[i] = "readMeta"
  /\ meta.state # "ok" \/ BeingWritten
  /\ Finish(i, "error")
  /\ UNCHANGED <<now, phase, driver, disk, kind, answer, outcome>>

\* Faulty variant: whatever did not pass is a failure.
FailedUnlessOk(i) == IF answer[i] # "ok" THEN {i} ELSE {}

\* What the executor has counted: failed, or nothing (which snap leaves out).
Failed(i)  == IF answer[i] \in {"failed", "error"} THEN {i} ELSE {}
Nothing(i) == IF kind[i] = "act" /\ answer[i] = "nothing" THEN {i} ELSE {}

\* Faulty variant: the internal answer is passed on as it is.
ReportVerbatim(i) == answer[i]

Report(i) == IF answer[i] \in {"failed", "nothing"} THEN answer[i]
             ELSE IF answer[i] = "ok" THEN "passed" ELSE "error"

\* The file that was read back, with the counts of this step.
Counted(m, total, failed, nothing) ==
  [state |-> m.state, verdict |-> m.verdict, ended |-> m.ended,
   steps_total |-> total, steps_failed |-> failed, steps_nothing |-> nothing]

\* Faulty variant: the count of failures starts over at every step.
WriteMetaUncounted(i) ==
  /\ pc[i] = "writeMeta" /\ Stepping(i)
  /\ meta' = Counted(draft[i], StepsAfter(i), Failed(i),
                     draft[i].steps_nothing \cup Nothing(i))
  /\ Finish(i, Report(i))
  /\ UNCHANGED <<now, phase, driver, channel, record, log, kind, answer, outcome>>

\* The counts of the file that was read back, and this step's, are written.
WriteMeta(i) ==
  /\ pc[i] = "writeMeta" /\ Stepping(i)
  /\ meta' = Counted(draft[i], StepsAfter(i),
                     draft[i].steps_failed \cup Failed(i),
                     draft[i].steps_nothing \cup Nothing(i))
  /\ Finish(i, Report(i))
  /\ UNCHANGED <<now, phase, driver, channel, record, log, kind, answer, outcome>>

--------------------------------------------------------------------------------
(***************************************************************************)
(* close                                                                   *)
(***************************************************************************)

\* A live driver is asked to close; a refusal or a timeout is only noted.
CloseAsk(i) ==
  /\ pc[i] = "loaded" /\ kind[i] = "close" /\ PidAlive
  /\ \/ channel /\ page' = "gone"
     \/ UNCHANGED page
  /\ Goto(i, "terminate")
  /\ UNCHANGED <<now, phase, remote, proc, touched, inbox, running, disk, kind, answer,
                 outcome>>

CloseDead(i) ==
  /\ pc[i] = "loaded" /\ kind[i] = "close" /\ ~PidAlive
  /\ Goto(i, "readMeta")
  /\ UNCHANGED <<now, phase, driver, disk, kind, answer, outcome>>

\* Faulty variant: the driver is left to end by itself.
TerminateSkipped(i) ==
  /\ pc[i] = "terminate"
  /\ Goto(i, "readMeta")
  /\ UNCHANGED <<now, phase, driver, disk, kind, answer, outcome>>

\* `terminate`, whatever the driver said to being closed.
Terminate(i) ==
  /\ pc[i] = "terminate"
  /\ Signalled
  /\ Goto(i, "readMeta")
  /\ UNCHANGED <<now, phase, touched, disk, kind, answer, outcome>>

\* A failure outranks a step that proved nothing.
Verdict(m) == IF m.steps_failed # {} THEN "fail"
              ELSE IF m.steps_nothing # {} THEN "nothing_verified" ELSE "pass"

\* The file that was read back, with the count of the record and the verdict.
Ended(m, total) ==
  [state |-> m.state, verdict |-> Verdict(m), ended |-> TRUE, steps_total |-> total,
   steps_failed |-> m.steps_failed, steps_nothing |-> m.steps_nothing]

CloseWriteMeta(i) ==
  /\ pc[i] = "writeMeta" /\ kind[i] = "close"
  /\ meta' = Ended(draft[i], seen[i].step_count)
  /\ Goto(i, "remove")
  /\ UNCHANGED <<now, phase, driver, channel, record, log, kind, answer, outcome>>

\* The session directory goes, unless --keep-channel was given.
CloseRemove(i) ==
  /\ pc[i] = "remove"
  /\ \/ channel' = FALSE /\ record' = NoRecord
     \/ UNCHANGED <<channel, record>>
  /\ Finish(i, "closed")
  /\ UNCHANGED <<now, phase, driver, meta, log, kind, answer, outcome>>

--------------------------------------------------------------------------------
(***************************************************************************)
(* The driver, the clock and the faults                                    *)
(***************************************************************************)

\* An answer reaches an invocation that still waits, unless the way is cut.
Answered(i, r) ==
  IF pc[i] = "waiting" /\ proc = "up"
    THEN answer' = [answer EXCEPT ![i] = r] /\ Goto(i, "answered")
    ELSE UNCHANGED <<answer, pc, told, seen, draft>>

\* A handler starts: an unknown session is refused, a known one restarts its timer.
DriverBegin(i) ==
  /\ AtWork /\ i \in inbox
  /\ inbox' = inbox \ {i}
  /\ \/ /\ page = "open"
        /\ running' = running \cup {i} /\ touched' = now
        /\ UNCHANGED cli
     \/ /\ page # "open"
        /\ Answered(i, "error")
        /\ UNCHANGED <<running, touched, kind>>
  /\ UNCHANGED <<now, phase, remote, proc, page, disk, outcome>>

\* What the page can do with a request, and what is said of one whose page was
\* closed under it: act turns the exception into a failed step.
PageResults(k) == {"ok", IF k = "act" THEN "failed" ELSE "error"}
                    \cup IF k = "snap" THEN {} ELSE {"nothing"}
ClosedResult(k) == IF k = "act" THEN "failed" ELSE "error"

\* The handler ends, and what it did to the page is done whoever hears of it.
DriverEnd(i) ==
  /\ AtWork /\ i \in running
  /\ running' = running \ {i}
  /\ \E r \in IF page = "open" THEN PageResults(kind[i]) ELSE {ClosedResult(kind[i])} :
       /\ outcome' = IF page = "open" THEN [outcome EXCEPT ![i] = r] ELSE outcome
       /\ Answered(i, r)
  /\ UNCHANGED <<now, phase, remote, proc, page, touched, inbox, disk, kind>>

\* The idle timer of the session fires, whether or not a handler is running.
DriverExpire ==
  /\ AtWork /\ page = "open" /\ now >= touched + TTL
  /\ page' = "gone"
  /\ UNCHANGED <<now, phase, remote, proc, touched, inbox, running, disk, cli, outcome>>

\* Its input is over and its last handler has ended: it closes all and exits.
DriverLeaves ==
  /\ proc = "cut" /\ inbox = {} /\ running = {}
  /\ Gone
  /\ UNCHANGED <<now, phase, touched, disk, cli, outcome>>

\* The driver dies, and its ssh client with it; or only the ssh client does.
DriverDies ==
  /\ DriverFaults
  /\ \/ AtWork /\ Gone
     \/ PidAlive /\ remote /\ CutOff
  /\ UNCHANGED <<now, phase, touched, disk, cli, outcome>>

Tick ==
  /\ now < MaxTime /\ now' = now + 1
  /\ UNCHANGED <<phase, driver, disk, cli, outcome>>

\* A write that is killed or fails leaves the file as it was, or truncated.
Broken(i) ==
  /\ record' \in IF pc[i] = "save" THEN {record, TornRecord} ELSE {record}
  /\ meta' \in IF pc[i] = "writeMeta" THEN {meta, TornMeta} ELSE {meta}
  /\ UNCHANGED <<now, phase, driver, channel, log, kind, answer, outcome>>

Killed(i) == Crashes /\ i \in Busy /\ Broken(i) /\ Finish(i, "killed")

WriteFails(i) ==
  DiskFaults /\ pc[i] \in {"save", "writeMeta"} /\ Broken(i) /\ Finish(i, "unwritten")

--------------------------------------------------------------------------------
\* What an invocation does on its own once it has started.
Command(i) ==
  \/ Attach(i) \/ Refuse(i) \/ Timeout(i)
  \/ AppendStep(i) \/ AppendFails(i) \/ EvalAnswered(i) \/ Save(i)
  \/ ReadMeta(i) \/ ReadMetaFails(i) \/ WriteMeta(i)
  \/ CloseAsk(i) \/ CloseDead(i) \/ Terminate(i)
  \/ CloseWriteMeta(i) \/ CloseRemove(i)

Driver(i) == DriverBegin(i) \/ DriverEnd(i)

Next ==
  \/ Open \/ DriverExpire \/ DriverLeaves \/ DriverDies \/ Tick
  \/ \E i \in Cmds :
       \/ \E k \in Kinds : Load(i, k) \/ LoadFails(i, k)
       \/ Command(i) \/ Driver(i) \/ Killed(i) \/ WriteFails(i)

Spec == Init /\ [][Next]_vars

--------------------------------------------------------------------------------
(***************************************************************************)
(* Safety, whatever the caller overlaps, kills or loses                    *)
(***************************************************************************)

\* A count of meta.json never invents a step: what it counts as failed or as
\* proving nothing was answered so, and a step that the driver answered is in
\* steps.yaml by the time it is counted.  Overlapping invocations can lose
\* counts (each writes back the file it read) but can never inflate them.
CountsAreEarned ==
  /\ \A i \in meta.steps_failed :
       \/ answer[i] = "error"
       \/ answer[i] = "failed" /\ i \in OnRecord
  /\ \A i \in meta.steps_nothing : answer[i] = "nothing" /\ i \in OnRecord

\* Once a close is past ending the driver, the session takes in no more work:
\* no request reaches the driver that had not reached it before, no caller is
\* told that a step succeeded, failed or proved nothing on the page, and if the
\* driver ran on this machine no step lands on the page any more.  Behind an ssh
\* client, which is all that close can end, a handler may still finish: its step
\* lands, but nobody is told.  The property is about what close has done, not
\* about meta.json: an act that read it earlier can write the verdict away.
PastDriver(i) == kind[i] = "close" /\ (pc[i] \in {"readMeta", "writeMeta", "remove"}
                                       \/ told[i] = "closed")

SilentAfterClose ==
  /\ inbox' \subseteq inbox
  /\ \A i \in Cmds : answer'[i] \notin {"ok", "failed", "nothing"}
                        \/ answer'[i] = answer[i]
  /\ ~remote => outcome' = outcome

NothingHeardAfterClose ==
  [][(\E i \in Cmds : PastDriver(i)) => SilentAfterClose]_vars

\* The step count of the record never runs ahead of steps.yaml, and neither
\* does steps_total, but for the steps that could not be appended: so the default
\* name of the next snapshot (`step-NNN`) is never past the end of the log, and
\* what overlapping invocations overwrite can only fall behind it.
CountWithinLog ==
  /\ record.step_count <= Len(steps) + unlogged
  /\ meta.steps_total <= Len(steps) + unlogged

\* No driver runs that no session record leads to, once `open` is over: unless
\* somebody was killed or could not write, `close` can always find it.
Intact == phase # "abandoned" /\ \A i \in Cmds : told[i] \notin {"killed", "unwritten"}
NoOrphanDriver ==
  Intact /\ PidAlive /\ phase \notin {"spawned", "answered"} => record.state = "ok"

(***************************************************************************)
(* Safety of one invocation at a time                                      *)
(***************************************************************************)

\* At rest the record, the log and the verdict tell of the same steps.
LogMatchesCount ==
  Busy = {} =>
    /\ record.state = "ok" => record.step_count = Len(steps)
    /\ meta.ended => meta.steps_total = Len(steps)

\* The verdict is the one that everything the caller was told calls for.
ToldBad(what) == {i \in Cmds : Stepping(i) /\ told[i] \in what}

Ledger == INSTANCE SessionLedger WITH
  failed  <- ToldBad({"failed", "error"}),
  nothing <- ToldBad({"nothing"}),
  verdict <- meta.verdict

KeepsLedger == Ledger!Spec

(***************************************************************************)
(* What the documentation says and the code does not do                    *)
(***************************************************************************)

\* "A session lives UIBOX_SESSION_TTL seconds (900) from its last command": a
\* command sent strictly within that time, counted from when the last command
\* returned, finds the session open.  The driver counts from when the last
\* command reached it.
LivesFromLastCommand ==
  \A i \in Cmds :
    i \in inbox /\ pc[i] = "waiting" /\ now < record.last_used + TTL => page = "open"

\* "Never report 2 as a broken UI": a session is called failed only if the
\* page failed a step, not because the tool could not ask it.
FailBlamesThePage ==
  meta.verdict = "fail" => \E i \in Cmds : outcome[i] = "failed"

\* steps.yaml is "appended as each step lands, not written at the end, so it is
\* trustworthy even if the run died mid-flight".
LandedStepsAreLogged ==
  \A i \in Cmds : pc[i] = "done" /\ kind[i] = "act" /\ outcome[i] # "none"
                    => i \in OnRecord
================================================================================
