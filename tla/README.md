# A TLA+ development for ui-box

ui-box drives a user interface (a web page or a Tauri window) for agents and people:
a command line tool starts a driver on a lab machine, sends it steps, keeps what came
of them in a run directory, and says pass, fail, or nothing verified. This directory
holds TLA+ modules of the parts of it in which order, concurrency and failure matter,
the configurations under which TLC checks them, and proofs that TLAPS checks.

Contents: 1 inventory · 2 plan · 3 the modules and the code · 4 the runs and their
bounds · 5 fairness · 6 what is proved · 7 what is only model-checked · 8 where the
documents and the code part · 9 what is not modelled.

To parse, check and prove:

    tlasany LiveSession.tla
    tlc -workers 2 -config LiveOverlap.cfg MCLiveSession.tla
    tlapm LiveSessionProofs.tla

`PROJECT.json` lists the runs with their properties, the mutants that show each
property can fail, and for every definition the lines of code it stands for.

## 1 Inventory

| Part | Where | State | Operations | What makes it hard |
|---|---|---|---|---|
| Live sessions | `crates/ui-box/src/commands/live.rs`, `session.rs`, `run.rs`, `commands/executor.rs` | `session.json`, `meta.json`, `steps.yaml`, the driver's pid | `open`, `act`, `snap`, `eval`, `close`, each a process of its own | nothing is locked: overlapping invocations read, act for seconds and write back; any can be killed; a write truncates first; driver and CLI have an idle timer each; of a remote driver only the ssh client here can be signalled |
| Driver channel | `crates/ui-box/src/driver/client.rs`, `drivers/dom/src/rpc.ts` | two FIFOs, each client's reader thread and queue, the ids in flight | attach, call, answer, time out, fall back to a bare method name | all clients read one response FIFO; late answers; full FIFOs that block both sides |
| DOM driver | `drivers/dom/src/main.ts`, `session.ts`, `snapshot.ts`, `recorder.ts`, `backend/` | a registry of sessions, a browser, idle timer, console entries, page errors and snapshot names for each | open, act, snap, eval, close, expiry, signals, end of input | async handlers interleave at every await, and some may hang there for good; the page raises events at any time; sessions expire while opening |
| Lab lifecycle | `backend/bin/ui-box-wake`, `backend/bin/ui-box-idle-stop`, `backend/nixos/idle.nix`, `backend/justfile` | libvirt's domain, `$vm.lock`, the markers `alive`, `busy`, `keepalive` on a share | wake, connect, publish, hold, check, save, shut down | four programs on two machines with clocks; crash, kill, failed save or restore; markers that outlive the guest |
| Artifact pipeline | `crates/ui-box-pipeline` | cache record and its temporary file, staging directory, what a native build leaves, artifacts on lab and target | identify, load, stage, sync, build, hash, ship, save | overlapping placements share all of it; the tree is edited meanwhile; torn records; store paths are collected; a native build that breaks off over an artifact; a staging directory in, around or linked to the lab's checkout |
| Golden store | `tools/vision/.../gitstore.py` | a git repository and its clones | get, approve (commit, push, retry) | optimistic pushes of several writers; a lost answer to a push |
| Flows | `crates/ui-box/src/commands/flows.rs`, `output.rs` | step results, pictures, the verdict of each flow, a tally over flows, the driver | `run`, `verify` | verdict and exit code of partial failures; errors that leave at every point; goldens that move |
| MCP server | `crates/ui-box-mcp` | where each run is, and how much of its console each run's reader was told | eleven tools, each a sequence of `ui-box` processes | overlapping calls at every await; exit codes that do not say everything; processes that are killed |
| Preflight and `doctor` | `crates/ui-box/src/driver/forward.rs`, `commands/doctor.rs` | none | guard a forwarded port, choose a driver, check a machine | two programs that ask the same questions in different words |
| Others | selectors, image comparison, recording, configuration, backends, provisioning, adapters | none, or declarative | | see 9 |

How they meet: an agent, a hook or a person runs the CLI (perhaps through the MCP
server). The CLI may first run the pipeline to place a build on the lab. Every
connection to the lab goes through the wake proxy, which starts the lab's virtual
machine; a timer on the host stops it when the guest's markers say it is idle. `open`
spawns a driver on the lab over ssh and leaves it there with two FIFOs; `act`, `snap`,
`eval` and `close` find it by `session.json` and talk JSON-RPC over the FIFOs; the
driver serves them from one event loop. `run` and `verify` do the same with one client
and pipes, and compare snapshots with goldens.

What makes each part correct:

- **Live sessions.** A count or a verdict of `meta.json` is earned by answers; once a session
  is being closed nobody hears of a step any more (behind an ssh client one may still land);
  counts do not run ahead of the log; a running driver can be found and closed, unless somebody
  was killed or could not write; and used one command at a time, the files tell exactly what
  callers were told.
- **Driver channel.** A call returns its own answer or its own timeout, once; it is
  carried out at most once; a caller that stays is answered.
- **DOM driver.** A console entry goes to one answer at most, in order, and what goes to none is
  lost in ways that can be named; no snapshot that was taken alone is overwritten; a step that
  stays on its web page and had it to itself is not ok if the page threw; the browser of every
  session is closed, but for one whose time ran out before it was registered.
- **Lab lifecycle.** Nobody whom the guest has reported is cut off; whoever connects
  gets an sshd or an error; an unused lab stops.
- **Pipeline.** What the provenance says is what runs, and a cache hit is genuine, as long as no
  tree is edited under a placement and no native build breaks off over an artifact. The staging
  directory may not be, contain or be linked to the lab's checkout; it may lie in it.
- **Golden store.** No approval is lost or undone by another; what is reported as
  pushed is in the history.
- **Flows.** A pass means that every step of every flow was made and nothing failed; the exit
  code and the verdicts on disk agree, whatever broke on the way; `doctor` foretells.
- **MCP server.** A pass is earned by every process of a call, but for a wake, whose work doctor
  judges; the application is blamed only for what a process saw, or for what the counts of a
  session hold when it is closed; a console line is shown or, behind the number that one answer
  shows, counted.

`PROJECT.json` lists the hazards, each at its line, with the properties aimed at it.

## 2 Plan

Order of work, most important behaviour first. Modules 1-7 are written.

1. `LiveSession`, with `SessionLedger` as its abstract specification; `LiveSessionProofs`.
2. `DriverChannel`; `DriverChannelProofs`.
3. `DomDriver`; `DomDriverProofs`.
4. `VmLifecycle`; `VmLifecycleProofs`.
5. `McpServer`, over the pure module `Verdicts`; `McpServerProofs`.
6. `Replay`, over `Verdicts` and the pure module `Preflight`; `ReplayProofs`.
7. `Placement`; `PlacementProofs`.
8. `GoldenStore`: clones, commits, pushes that are rejected, fail or succeed unheard,
   three attempts; it implements `GoldenLedger`, in which an approval is one step. To
   prove: no retry loses or moves another golden; what is reported is in the history.
9. Every safety property that a run checks is a theorem. Still worth proving: for the lab, a bound
   on what a *period's* ends of commands cost instead of all of them, which takes a history variable;
   for the channel, that it implements one atomic exchange per call, which is what `LiveSession`
   takes it for; and what 8 brings.

How they compose: `DriverChannel` is the medium that `LiveSession` abstracts to one step
for the request and one for the answer; `OwnAnswer` and `OneAnswerEach` are what justifies that.
`DomDriver` is the process that `LiveSession` sees as a page that answers, or not, and an
idle timer. `VmLifecycle` is below all of it: a lab that is cut off is, one level up, a
driver that dies. `Verdicts` is the contract of exit codes and result lines that two programs
share: `Replay` writes it, `McpServer` reads it. To `McpServer` a `ui-box` process is one step with
an outcome; `LiveSession` and `Replay` look inside. `Replay` takes from `Placement` that placing
either gives a path, fails or never returns, and from the golden store that an approval is made or
fails. What becomes of a driver whose input has ended is `DomDriver`'s matter: `Replay` assumes
nothing of it.

## 3 The modules and the code

### LiveSession

One session. `open` is the variable `phase` and the actions `OpenSpawn` to `OpenKilled`;
each later invocation `i` is a process with a program counter `pc[i]`:

    new -Load-> loaded -Attach-> waiting -(answer, Timeout)-> answered
        -AppendStep-> save -Save-> readMeta -ReadMeta-> writeMeta -WriteMeta-> done
    close:  loaded -CloseAsk-> terminate -Terminate-> readMeta -> writeMeta -> remove -> done

Each action is one access to something others can see: a file, the FIFO, the driver.
`seen[i]` and `draft[i]` are the record and the meta file an invocation has read and will
write back. `record`, `meta` and `steps` are the files; `fs::write` truncates first, so a
write that is killed or fails may leave a torn file (`Broken`), and a reader may come upon
one being written (`BeingSaved`, `BeingWritten`). `inbox` and `running` are what the driver
has been sent and is doing; `page` and `touched` are its session and its idle timer. `remote` says
whether the pid of the record is the driver's, or that of an ssh client between the FIFOs and a driver
elsewhere. `Terminate` ends the one or the other. In the second case the driver is "cut": what is in
the FIFOs is gone, it finishes the handlers it has begun, nobody hears of that, and it leaves
(`DriverLeaves`) when they are through; the same happens if the ssh client dies by itself.
A count of `meta.json` is the set of invocations it has counted, so that "too many" and
"not mine" can be told; its value is the cardinality. `outcome`, `told` and `unlogged` are history.

`SessionLedger` is what a caller is promised: reports go into a ledger while the session is
open, and the verdict is the one the ledger calls for. `KeepsLedger` is the refinement:
`failed` and `nothing` are what callers were told, `verdict` is the file's. It holds if one
command runs at a time and none is killed, which is what the skill tells its reader to do.

### DriverChannel

Clients `c` with a reader thread each (`Read`, `ReadTorn`), a queue, and `call_raw` as
`Call`, `Send`, `Skip`, `Receive`, `GiveUp`; `DropPrefix` is the fall-back to bare method
names. The driver's event loop is `Dispatch`, `Finish` and `Flush`, the last being the
blocking write. An id is `Seed[c] + try`. That two clients never meet in their ids
(`seed_id` takes the nanoseconds of the clock) is the assumption `SeedsApart`.

### DomDriver

A handler runs from one await to the next; `at[r]` is the await that request `r` is at, and each
action is what runs between two. `surface[s]` is the backend a session was opened with: Playwright
tells the driver of page errors and console entries at once; a Tauri window keeps them in the page
until they are drained, and they go with the page. `StartClose` is `close` up to its await; whoever
closes a session that is gone has nothing to wait for. `backend[s]` is its browser; one that
outlives a failed `open` is an "orphan" that nobody can close. `overdue` are the sessions whose time
ran out before they were registered, `awaited` those that a signal waits for. Entries are numbered
in the order thrown, so a buffer is a sequence of numbers; `taken[r]` are the entries that the
answer to `r` carries, which a snap that fails does not: those are in `lost`. `page`, `noisy`,
`crowded`, `taken`, `lost` and `unseen` are history.

### VmLifecycle

`wake[c]` is where the proxy of connection `c` is, `stop` where the idle stop is, `pub` where
the guest's publisher is between touching `alive` (`PublishLook`) and `busy`
(`PublishMark`). Time is counted in publishing periods of 30 seconds, markers by their age,
capped at `Bound`, beyond which no comparison of the code can tell ages apart. The domain's
states are libvirt's; `managedsave` takes time and pauses the guest (`Save`, then `Saved` or
`SaveFails`), a shutdown goes through `halting` and `in shutdown`. `vouched` and `missed` say
whom a whole run of the publisher has met, or had met when it broke off, and `hit`
whom the last idle stop cut off; all three are history. The set `May` says what else can
go wrong.

### Verdicts and McpServer

`Verdicts` is pure. A *happening* is what became of a process: it passed, the UI failed, nothing
was proved, there was nothing to do, its verdict is one nobody knows, or one of the
mishaps (an error of ui-box, a panic, a signal, a program that is absent, or one that keeps no
contract). `ExitCode` and `Line` are what the CLI makes of it (`output.rs`), `Landing`,
`ProvedNothing` and `Absorb` what the MCP server makes of those (`uibox.rs`, `outcome.rs`), and
`Status` what the client reads. A report is its failure domain, if any, and whether something was
inconclusive.

`McpServer` has calls that overlap at every await. `pc[r]` is the process that call `r` waits
for, or where it is in telling of the console:

    wake -> doctor;   open -> capture;   step -> step -> ... -> capture;   run;   show; ...
    -SeekEvents-> locate -> read -Read-> advance -Advance-> done

One action is what happens between two awaits: a process lands (`WakeLands`, `StepLands`, ...),
its result is absorbed and the next one is started. `SeekEvents` is `fresh_events` up to its first
await (it reads the cursor), `Read` the reading of the file, `Advance` the setting of the
cursor. `run_dirs` and `cursors` are the server's `Memory`; its mutex is held for one access, so
each access is part of the step around it. `life`, `counts`, `log` and `gone` are what the
processes find: the sessions, their `meta.json`, their logs, run directories that have gone.
`Emits`, `Expires` and `Vanishes` are the page, the driver's idle timer, and somebody who removes
files. One answer shows `MaxEvents` lines and says how many more there are, and the cursor
passes over all of them: `told` are the lines shown, `more` those that were only counted. `met` is
what the processes of a call came to, as the program that ran them knows it: a wake that failed
or was killed is in it as "unwoken" although the server does not look, and a `close` that finds a
failed step in its session's counts as "counted", whoever failed it. `met`, `told`, `more`,
`again` and `muddled` are history.

### Preflight and Replay

`Preflight` is pure: a *world* is a machine, its configuration and its lab, and the operators are
the questions asked of it before a page is reached. Surface and target are there twice: as the flow
or its command line wants them, which is what a replay goes by, and as they are configured, which is
all that `doctor` sees. `Guard`, `Resolve`, `ProbeBackend`,
`EnsureSurface` and `Opens` are what a replay asks, `Blocking` and `Advice` what `doctor` reports,
each from its own lines of code.

`Replay` is one invocation of `run` or `verify`:

    start -Start-> flow -Begin-> spawn -Spawn-> steps -(SkipOpen, Perform)-> steps
        -StepsOver-> compare -Compare-> ... -> finish -Finish-> next -NextFlow-> flow or done

`driver` is what there is of one: "up" while it can be talked to, "orphan" for one that runs on with
an input that is at its end: because the invocation left it (`Drops`), or because all that could be
ended of it was the ssh client here (`Closes`). `Unlimited` is an invocation that waits for a
program which nothing limits (see 5). `Refusal` has the reasons for which `execute` gives up before
it has made a run directory, in its order. `Err` is every `?`: exit 2, and a driver that has lost
its input. `meta[f]` is the verdict in the `meta.json` of flow `f`'s run, which a failing write may
leave as it was. `count` and `tally` are the counters of a flow and of `verify`; `Verdict` and
`Summed` turn them into a verdict, and `ExitCode` of `Verdicts` into a code. `PortMoves` is another
session or a foreign process that takes the forwarded port between the guard and the driver,
`Approved` somebody who approves a golden, `Killed` a signal or a panic. `met` is history.

### Placement

Processes `p` that run `place` for one project:

    idle -Identify-> load -Load-> wake -Wake-> check -Hit-> idle
                              \-> stage -Stage-> sync -Sync-> build -Build-> hash -Hash->
        ship -Ship-> create -Create-> write -Write-> rename -Rename-> idle

At most `MaxTogether` of them overlap. They share everything else: `staging` and `trees["lab"]`,
which are the same directory when the `layout` is "linked"; the other layouts are "apart", "below"
(staging in the checkout, which the checks let pass) and "inside" (staging that is the checkout or
contains it, by its name), which they refuse, as they do "linked"; `out`, what a native build leaves
where it built; `remote`, the path on the target that native artifacts of a project go to; `stores`,
the store paths of both machines; and `cache` and `tmp`, the record and the one temporary file
beside it. `handle[p]` is what the open file of a writer has become: rename moves the file under it.
`Breaks` is a step that fails, or a kill; of a native build it leaves what was there, nothing, or
its own artifact (`Leaves`), in which case a record made before may name it. `Edit` changes a tree,
`Collect` removes a store path or a cached artifact. Artifacts are named by the tree they were built
from: builds are taken to be reproducible. `placed`, the records of all that was shipped, and
`disturbed`, whether a tree was edited under a placement or a native one broke off from its build
on, are history.

## 4 The runs and their bounds

| Run | Question | Bounds |
|---|---|---|
| `live_overlap` | does anything go wrong when invocations overlap, are killed, and writes fail? | 2 invocations after `open`, both in flight, 1 tick to the end of the TTL, a driver here or behind ssh that does not die by itself, kills and failing writes |
| `live_in_turn` | used in turn, is the session the ledger it promises? | 3 invocations one at a time (two steps and a close), 2 ticks, the driver, or its ssh client, may hang or die |
| `channel_shared` | can clients confuse each other's answers? | 2 clients, 2 calls each with a second try, FIFOs of 2 messages, timeouts, kills, a driver that dies |
| `channel_alone` | is a caller that stays always answered? | 4 clients in succession, FIFOs of 1 message, every call tried under both names |
| `dom_events` | are entries, errors and snapshots kept apart when handlers interleave? | 1 session, web or Tauri, `open` and 3 more requests at once, 2 errors, a buffer of 1, every fault |
| `dom_ends` | does the driver end, and do browsers? | 2 sessions, 3 requests, page code that may never settle, timers that may run out during an `open`, every fault, signals and end of input |
| `vm_shared` | is a connection that was reported ever cut off? | 2 connections, every event in `May`, the publisher may stop for good |
| `vm_held` | is a command under `uibox-keepalive`? | 1 connection, 2 commands, images that cannot be restored, a publisher that may break off |
| `vm_ends` | do wakes end, with an sshd, and does an unused lab stop? | 2 connections, refusals, images that cannot be restored |
| `mcp` | is each call's status earned and its blame fair, and is every console line told? | 2 overlapping calls of any tools on 1 run, batches of 2 steps, a log of 3 lines of which an answer shows 1, processes that fail, are killed or keep no contract |
| `replay` | do exit code, verdicts and what happened agree, does `doctor` foretell, does every invocation end? | every world (surface and target as wanted and as configured) under one plain flow; a sound world under flows of every kind, two of them for `verify`; pictures with 2 looks; every fault |
| `placement` | is a record backed, an answer genuine? | 2 placements that overlap and a third after them, by 2 processes, 3 kinds of request, trees of 2 files with 2 contents, 2 edits, 1 loss, 3 layouts, a failure or kill at every step |

Why they are enough. The hazards of the live session are between two invocations (a third only
repeats one of them), and in turn the shortest run with a lost verdict has two steps and a close. On
the channel an answer goes astray between two clients, and the first late answer comes with the
second call; a deadlock needs both FIFOs full and both writers blocked, which takes three messages
that nobody reads and a fourth client. In the driver, two handlers and an event of the page make
every conflict, and a third request is needed for names like `dup`, `dup`, `dup-2`; two errors
overflow a buffer of one and show order. What keeps a driver from ending needs an `open`, a handler
that hangs, and a second session to be closed meanwhile. On the lab, two wakes compete for the lock
and two commands for the hold.

The MCP server keys its memory by run and a call concerns one run, so calls on different runs
share nothing, and one run suffices; what two reads do to one cursor shows with two lines, one
before and one between, and what an answer leaves out with one line more than it shows (`MAX_EVENTS`,
20 in the code, is 1 here). A batch of two has a first step, after which it goes on, and a last.
In `replay` the two families of invocations separate what the code separates: what stands before
a page depends on the world, and what follows on the flow. Two flows are the least with one that
ends in an error after one that failed; flows are made of pieces with every kind of step, a
skipped `open`, a picture before and after an assertion. In `placement` a torn tree needs two
files, a record of another tree two contents, and a shared temporary file two processes; the
three requests are the ways in which a placement shares: only the record (nix), the path
on the target too (native), the lab's checkout (native, in place). An artifact that an earlier
placement has recorded, a later one has half replaced and a third is handed out takes three
placements, of which two overlap. Of the layouts, "apart" behaves as "below" does, which is why it
is left out of the run. Both properties are proved for any number of everything.

The lab's periods are scaled: 180 s, 300 s, 600 s, 900 s and 1800 s (`ALIVE_MAX`, a wake's
hold, a command's hold, `MARKER_FAULT_AFTER`, `idle.minutes`) become 1, 3, 3, 2 and 3 to 7
periods of 30 s, in an order that keeps what the code relies on: `AliveMax + 1 < Idle`,
`AliveMax < FaultAfter`, `RefreshEvery < CmdHold`. The proofs need no more than these.
`vm_held` takes 9 periods for `Idle`: a hold must end well before, and what the ends of two
commands cost must not reach it (`FewCommands` in 6).

`CHECK_DEADLOCK FALSE` is said for sessions, channel and driver: a session that is closed, a
channel whose clients have gone, a driver that has exited or hangs with nothing left to come, a replay
that has ended, calls that are answered and placements that are over do stop. The lab never stops,
and deadlock is checked there. Symmetry is used in runs without liveness, over invocations,
connections, calls, processes, files and contents, which the code does not tell apart.

Every property of a passing run has a mutant in `PROJECT.json`: a change to one definition such as a
plausible bug would make, under which TLC finds the property violated.

## 5 Fairness

- `DriverChannel!FairSpec`: threads and the event loop are scheduled (weak fairness of each
  reader, each client, `Dispatch` and `Flush`), and every handler ends. That a caller never
  leaves or that the driver lives is not assumed; in `channel_alone` the driver does not die.
- `DomDriver!FairSpec`: a handler goes on only where something limits its wait, which is what
  `Settles` names: navigations, WebDriver commands, files, closing. Nothing limits what runs in a page
  by `page.evaluate` (the readiness gate, the text of a snapshot, an eval, a click's lookup;
  `playwright.ts:196-212`, `265-266`), nor what follows a launch (`playwright.ts:89-118`): these
  may hang for good, but for the first kind once the browser is closed under it. Timers fire, and a
  browser that is told to close does. So a hanging handler is freed by the idle timer of its session,
  and the driver ends; the exceptions, an `open` that hangs before there is such a timer and a
  browser of no session, are in `DriverEnds` itself (`OpensReturn`, "orphan").
- `VmLifecycle!FairSpec`: a process that was started goes on (weak fairness of each of its
  steps), `flock` serves whoever waits (strong fairness of `TakeLock`: others may take the
  lock in between), timers fire (strong fairness of `Tick`, weak of the publisher and the
  check), a boot and a shutdown end. Nobody has to connect or to disconnect. In `vm_ends`
  the publisher is regular: without it no lab would ever be found idle, by design.

- `Replay!FairSpec`: the invocation goes on (weak fairness of its next step) except where it waits
  for a program that nothing limits, which is what `Unlimited` names: git, the lab's shell, what is
  synced and built there, the files that are fetched from it, and uibox-vision (`vision.rs:88-96`
  has no timeout). `EndsClean` is therefore: an invocation ends, or waits for one of these for good.
  The calls of the driver do time out (`rpc_timeout`): a message that is no answer restarts the wait
  (`client.rs:347`), but the DOM driver writes nothing but one answer to each request, and this
  invocation is its only client. That a driver whose input has ended ends is not assumed. Nobody has
  to free a port, approve or be killed.
- `McpServer` and `Placement` have no liveness: nothing limits how long a `ui-box` process, or a
  build, may take.

## 6 What is proved

All theorems hold for every set of invocations, clients, requests, connections, commands, calls,
flows and processes, every bound, and every choice of faults, from the named assumptions on
constants. Where one has a hypothesis of its own it is named here, with what it stands for; outside
it the property does not hold, and TLC shows how.

`LiveSessionProofs` (from `ConstantsOK`)

- `Typing`: `Spec => []TypeOK`, one lemma for each group of actions.
- `SilenceAfterClose`: `Spec => NothingHeardAfterClose`. The property is not inductive: `ClosedInv` adds
  that a close past `Terminate` has the driver down or cut off, and that it is never up again after
  that, since only a new `open` spawns it; a driver that is cut off has nothing in its FIFOs and
  nobody waits for what it still does.
- `EarnedCounts`: `Spec => []CountsAreEarned`. `EarnedInv` says the same of every draft, and that a
  step on its way to being counted is in the log already; this is where the order
  append, save, read, write matters.
- `CountsWithinLog`: `Spec => []CountWithinLog`. `LogInv` bounds every loaded record, every
  draft and every count about to be written by the log's length and the number of failed appends.
- `NoDriverIsOrphaned`: `Spec => []NoOrphanDriver`. `OrphanInv` adds that an `open` that
  fails has ended its driver; `PlacesInv` says who is where, so that only `open` makes a driver, and
  only a `close` that has seen its end takes the record away.
- `CountsAgreeInTurn`: `InTurn => (Spec => []LogMatchesCount)`, and `SessionKeepsLedger`:
  `InTurn => (Spec => KeepsLedger)`, the refinement of `SessionLedger`. `InTurn` is what the skill
  tells its reader to do: at most one invocation at a time, none killed, no write failing; the
  driver may die and calls may time out. `TurnInv` says what being alone gives: nobody else is
  between his start and his end, so what an invocation has read is what is on disk. `CountsInv` and
  the ledger's invariant say how far the log, the record and the counts of the one invocation under
  way have come. Every step is a step of the ledger or a stutter.

`DriverChannelProofs` (from `ChannelOK` and `SeedsApart`)

- `ChannelTyped`: `Spec => []TypeOK`. `TriesInv` bounds the ids a client has used by twice its
  calls, which is what keeps it within the distance that `SeedsApart` gives.
- `OwnAnswers`, `AnswersComeOnce`: `Spec => [](OwnAnswer /\ OneAnswerEach)`. `SoundInv` says that
  everything that can ever be read was written for an id its sender has used; `ReturnedInv` that
  what a call has returned has the number of that call and an id already used up. With `SeedsApart`
  an equal id is then the same client and the same try.
- `CallsRunOnce`: `OneName => (Spec => []ExecutedOnce)`. `OneName`: a driver has its methods under
  one name only, with the namespace or without, as the DOM driver has (`main.ts` registers
  `driver.*` alone). `OnceInv`: of the requests on their way that the driver has a handler for, each
  is for a call of its own, and not for one that has been carried out; a client whose call is spent
  can send another request for it only under a name that the driver does not know.

`DomDriverProofs` (from `DomOK`)

- `DomTyped`: `Spec => []TypeOK`. `Base` adds what a handler at each await has behind it (`Shape`),
  that it has a name for what it writes (`Naming`), and that every name in use was given to a
  request of that session (`UsedInv`). From the last and the pigeonhole (`SomeNumberIsFree`) it
  follows that the loop of `nextName` ends: fewer names are in use than there are numbers.
- `ThrowingStepsFail`: `Spec => []OkMeansQuiet`, for steps on web pages that do not navigate.
  `QuietInv` follows an error of the page from where it is raised: a step that has the driver to
  itself finds it in `fresh` when it is checked, since nobody else resets that; only a step that
  opens a page has it reset by the readiness gate (`session.ts:516`, and 8), which `QuietInv` says
  by name (`Forgiven`). `CrowdInv`: any two handlers that overlap are both marked as crowded.
- `EntriesGoToOne`: `Spec => []EntriesGoOnce`. `Placed` takes the counting of the property apart:
  every entry is in an answer, still to be drained, or lost in one of three ways (to a full buffer,
  with its page, or drained for a snap that then failed), none is in two places, and logs and
  answers rise.
- `SnapsAreKept`: `NoLookalike => (Spec => []SnapsKept)`. `NoLookalike`: nobody asks for a name that
  looks like a number, since a numbered snap does not look its name up (`snapshot.ts:33`, and 8).
  `PairsInv` says that two requests have one name only if they overlapped, or if one of them ended
  without writing; `FilesInv` that whatever is on disk has its name in use.

`VmLifecycleProofs` (from `VmOK`)

- `LabTyped`: `Spec => []TypeOK`, by groups of variables with a frame lemma for each.
- `MetConnectionsAreSpared`: `Spec => []ConnectionsAreSpared`. `SparedInv` ties the ages together:
  as long as a connection is among those a whole run has met, `busy` is at most a period older than
  `alive`, whose age is at most `AliveMax` when the check looks; since `AliveMax + 1 < Idle`, the
  second look at `busy` under the lock cannot find it idle. It also needs that a run which has
  looked has met every connection that was met before: one that breaks off then takes them all out
  of `vouched`. What becomes of those is `NeverOnABrokenRun`, which the code does not keep (8).
- `NcComesAfterSsh`: `LockIsKept => (Spec => []NcAfterSsh)`. `LockIsKept`: whoever starts or stops
  the lab takes its lock and lives to release it, and a stop saves the lab, that is: no `just up`,
  no wake that is killed, no shutdown. `LockInv` ties every place of a wake or of the idle stop to
  who holds the lock; `BootInv` says that a lab which runs and does not answer has somebody who
  started it, waits, and holds the lock.
- `HeldCommandsAreSpared`: `FewCommands => (Spec => []CommandsAreSpared)`. A command that ends
  removes the hold which all share (the EXIT trap of `uibox-keepalive`), and until the next refresh
  `busy` may age. `LateInv` bounds that age by a window of `RefreshEvery + 1` periods for each
  command that has ended, plus what has passed since the last refresh, plus the age of `alive` once
  the publisher is dead. `FewCommands` is therefore a bound: `AliveMax + 1 + (RefreshEvery + 1) * n
  < Idle` for `n` commands in all, and a refresh that comes before a wake's hold ends. With the
  code's 180 s, 60 s and 30 minutes it admits 17 commands. Without a bound the property is false:
  with a command ending in every window the publisher never sees the hold, and `busy` is not touched
  (TLC needs three commands, `Idle = 3`, holds of 2 and `RefreshEvery = 1`).

`McpServerProofs` (from `McpOK`)

- `McpTyped`: `Spec => []TypeOK`. `Started` adds that a call which waits for a process of a run
  knows that run, and that one which waits for a step has a step left.
- `LinesAreTold`: `Spec => []NoLineSwallowed`. The property is not inductive: `ToldInv` adds that a
  call which is about to set the cursor read on from a place up to which every line has been shown
  or counted, although the cursor may have moved since; it holds because `told` and `more` only
  grow.
- `LinesAreToldOnce`: `Spec => []ToldOnceInTurn`. `TurnInv` says of every run whose reads have kept
  to their turns that what was told of ends at the cursor, that at most one call reads it, from the
  cursor on, and that its log is no shorter; `UnreadInv`, that a run which does not exist yet has
  not been read, which is what a directory in the server's memory is evidence of.
- `PassesAreEarned`, `BlameIsEarned`: `Spec => []PassIsEarned`, `Spec => []BlameIsFair`. `FairInv`
  says at every moment, and not only of answers, that the report is true of what the processes of
  its call have met (`TrueOf`; a wake that did not wake is among what a pass may have met, and a
  failed step in a closed session's counts among what blames the application), that a call still
  making steps has a clean report, and that a clean report past them has none left. `AbsorbTrue` is
  the lemma about `Verdicts`: absorbing one more happening keeps a true report true, whatever its
  exit code and line.
- `FirstTroubleStays`: `Spec => FirstTroubleDecides`, from the same invariant: no step is made and
  no call begun with a report that has failed, and `Absorb` keeps the first failure.

`PlacementProofs` (from `PlacementOK`)

- `PlacementTyped`: `Spec => []TypeOK`. `Steady` adds that a process builds only after it has synced
  every file, that no synced file leaves the staging directory, and that a hash is of a whole tree:
  without it a record could name half a tree.
- `RecordsArePlaced`: `Spec => []RecordIsPlaced`. `SavedInv` adds that a process which is saving has
  shipped, with the very tree, hash and path it will write, and covers the temporary file as well:
  whoever's record is renamed into place is one that a placement made, whole.
- `GenuineAnswers`: `OneTree => (Spec => []AnswersAreGenuine)`. `OneTree`: requests that share a
  record, one of them native, are for one tree. Without it TLC finds a placement of the lab's own
  checkout that is handed what a native build of the host's tree has left at the path they share.
  `WorkInv` says what each process holds is of the tree it identified, `CacheInv` and `TmpInv` that
  the records do not lie, as long as `disturbed` is false; `ApartInv`, that whoever syncs writes no
  file of the lab's checkout, so that a tree changes by an edit only; nix records name a store path,
  which only its own source can have, and native ones a path that others overwrite, with the same
  tree under `OneTree`.

`ReplayProofs` (from `ReplayOK`, in which `run` takes one flow, `cli.rs:264`)

- `ReplayTyped`: `Spec => []TypeOK`. The counters are bounded by the steps behind a flow and by the
  flows behind the tally, which is what makes the arithmetic of `Verdict` and `Summed` total.
- `PassIsEverything`, `ExitMatchesLedger`, `BlameIsFair`: `Spec => []PassMeansAll`, `Spec =>
  []LedgerMatchesExit`, `Spec => []BlameNeedsUi`. `ReplayInv` says how the counters of a flow come
  from what was met in it, the verdict in each `meta.json` from the counters, the tally from the
  verdicts, and the outcome from the tally and from how the invocation ended; each of the three
  properties is then a matter of `ExitCode`, whatever `?` has cut short.
- `DoctorIsRight`: `Spec => []DoctorForetells`, from lemmas about `Preflight` that set `Blocking`
  beside `Guard`, `Resolve` and `Opens`, two programs' questions about one world; of tauri they
  agree only where the surface that is wanted is the one that is configured (8).

## 7 What is only model-checked

Liveness under fairness (`CallsReturn`, `DriverEnds`, `BrowsersEnd`, `WakesEnd`,
`UnusedLabStops`, `EndsClean`): it and everything with ENABLED is beyond the prover. Every invariant
and action property of the runs, and the refinement, is proved.

Conditions are of two kinds. Those in a property itself: `SnapsKept` and `OkMeansQuiet` speak of
requests that had the driver to themselves, the latter of web pages and of steps that do not
navigate; `NothingHeardAfterClose` of what is heard, and of what lands only if the driver runs here;
`NoOrphanDriver` of sessions of which nobody was killed or failed to write; `ToldOnceInTurn` of runs
whose reads have not overlapped and have each found their file; `AnswersAreGenuine` of placements
under which no tree was edited and no native one broke off from its build on; `DriverEnds` of
drivers that hold no browser of no session, where no `open` hangs before it is registered;
`BrowsersEnd` of sessions whose time did not run out before they were registered; `EndsClean` of
invocations that do not wait for a program without a limit. And those that are hypotheses of a
theorem, which the runs meet by their constants: `InTurn`, `OneName`, `NoLookalike`, `LockIsKept`,
`FewCommands`, `OneTree` (6).

## 8 Where the documents and the code part

None of these is a run of `PROJECT.json`, which holds what the code does keep. They were met while
modelling, and each configuration below reproduces TLC's counterexample.

| Configuration, property | The document | The code |
|---|---|---|
| `LiveBlame`, `FailBlamesThePage` | `skills/ui-testing/SKILL.md:156` "Never report 2 as a broken UI." | a driver that times out is counted as a failed step (`executor.rs:152`), and `close` says fail |
| `LiveTTL`, `LivesFromLastCommand` | `skills/ui-testing/references/how-do-i-drive-a-session.md:3` a session lives for the TTL "from its last command" | the driver counts from the arrival of a command (`session.ts:160`), the CLI from its end |
| `LiveMidFlight`, `LandedStepsAreLogged` | `skills/ui-testing/references/why-did-it-fail.md:7` steps.yaml is "trustworthy even if the run died mid-flight" | a step is appended when its answer has come back (`executor.rs:134`) |
| `ChannelWait`, `GivesUpInTime` | `README.md:32` "seconds to wait on the browser before giving up" | every other message restarts the wait (`client.rs:347`) |
| `ChannelNames`, `KeepsNamespace` | `docs/CONTRACTS.md:10` method names go on the wire "namespace included" | an error that mentions `unknown method` drops the namespace (`client.rs:558`) |
| `DomNames`, `SnapsKept` | `docs/CONTRACTS.md:68` "never an overwrite" | a numbered snap does not look its name up (`snapshot.ts:33`) |
| `DomTauri`, `ThrowsFailTheStep` | `drivers/dom/src/test/driver.test.ts:197` "uncaught exceptions during a step fail that step" | errors of a Tauri page become known in a drain only (`webdriver.ts:265`) |
| `DomForgiven`, `ThrowsFailTheStep` | the same | what the page throws while an `open` step reaches and renders it is discarded by the readiness gate (`session.ts:516`), and the step is ok |
| `DomVain`, `FailedSnapsTell` | `drivers/dom/src/test/driver.test.ts:176` "snaps carry console errors and failed requests since the previous snap" | a snap whose last check fails has drained the entries, and its answer has no snap (`session.ts:167-173`) |
| `DomBlank`, `SnapsOfRendered` | `docs/CONTRACTS.md:344` the gate prevents "a snapshot of a blank page" | a navigation that throws leaves the session ready (`session.ts:243`) |
| `DomExpiry`, `AbandonedBrowsersEnd` | `how-do-i-drive-a-session.md:5` a browser is open "until the TTL expires" | a TTL that elapses during `open` is spent for nothing (`main.ts:152`) |
| `McpBlame`, `OnlyTheUIIsBlamed` | `skills/ui-testing/SKILL.md:156`, as above | `ui_close` says that the page failed wherever a failed step was counted, and a step the driver failed is (`executor.rs:151-153`) |
| `ReplayDoctor`, `UsableOpens` | `skills/ui-testing/references/why-did-it-fail.md:34` doctor "exits 2 when the setup is unhealthy" | a broken tauri-driver blocks only where tauri is the configured surface (`doctor.rs:262`), a flow names its own (`flows.rs:137`) |
| `VmSave`, `TheNewAreSpared` | `backend/bin/ui-box-idle-stop:38` otherwise "a save could land on a connection being established" | the fast path takes no lock, and `keepalive` is read before it is taken (`ui-box-wake:204`) |
| `VmBroken`, `NeverOnABrokenRun` | `backend/bin/ui-box-idle-stop:69` "Never act on absent information" | `alive` is touched first, `busy` last, under errexit (`idle.nix:41`) |
| `VmInterrupted`, `NcAfterSsh` | `backend/bin/ui-box-wake:2` "wait for ssh, then become a nc" | a running domain is taken to be started (`ui-box-wake:150`) |
| `VmGrace`, `FaultsAfterGrace` | `backend/bin/ui-box-idle-stop:72` the grace clears a cold boot | the grace applies only while `alive` is missing, and the file outlives the guest (`ui-box-idle-stop:94`) |

Three more are stated and have no configuration of their own. To see a counterexample, add one to
`Replay.cfg` or `Placement.cfg`: `PassIsBacked` of `Replay` (a flow without assertions is let in for
its pictures, `flows.rs:352`, and passes when the driver writes none or there is no golden yet),
`ApprovedFromPasses` of `Replay` (`--update-goldens` approves the pictures of a flow whose steps
have failed as well, `flows.rs:675`), and `AnswersAreAlwaysGenuine` of `Placement` (a tree that is
edited between being identified and being synced is recorded under the identity it had, `lib.rs:67`;
and a native build that breaks off over the artifact of another tree leaves it under that tree's
record, `builder.rs:42`, which is handed out once the tree is that one again).

## 9 What is not modelled, and why

Within the modelled parts:

- *Live sessions*: pids, and their reuse by other programs; what a snapshot contains and where it is
  copied; one `write_all` on a full FIFO (that is in `DriverChannel`); several sessions, which share
  nothing.
- *Channel*: what the messages say, beyond what decides who takes them.
- *DOM driver*: network entries (recorded like console entries), patterns of benign messages, and
  what selectors match; a backend's launch is one await, which fails with a browser left behind or
  without one, or never comes back.
- *Lab*: load, disk and network traffic and login sessions as further reasons to count as busy (they
  only add to them); the arithmetic of memory, which is an outcome; libvirt's calls are atomic but
  for the save; the fall-back lock directories; many short commands under `uibox-keepalive` in one
  period.

- *MCP server*: what is in a request beyond which tool, run and how many steps it has; images, and
  the wording of answers; the second log file (`network.jsonl`), whose lines are shown and counted
  as those of the console are.
- *Replay*: what steps say and select, masks and thresholds, the report's text; that a port is
  forwarded for another reason than the target.
- *Preflight*: the words by which ssh's complaint about a forward is recognised and the port in it
  found; where settings come from (flags, environment, files) and which of them wins.
- *Placement*: the store references that go with a native artifact, the hop by which commands and
  copies travel, and what a project's build command does. A record does not know the build command
  it was made with (`cache.rs:20`), nor does the model. A build whose ssh was killed may go on in
  the lab; that is among what `disturbed` excludes. The host's tree is taken to be a repository of
  its own: below the lab's checkout, git would count a tree without one as part of that.

The golden store is not modelled yet (8 of the plan). Parts that will not be: selectors, steps,
targets and the injected runtime, image comparison and masks (functions on strings, pixels and the
DOM, without interaction); recording and the reading of configuration (text); backends (one command
or copy per call, whose failure is a failing step of the modules above); the share daemon,
provisioning, adapters and installation (launchers and declarations run by other programs).
