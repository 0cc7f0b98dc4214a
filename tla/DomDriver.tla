------------------------------- MODULE DomDriver -------------------------------
(***************************************************************************)
(* The DOM driver process: one event loop that serves JSON-RPC requests    *)
(* and keeps a browser (or a Tauri window) per session.                    *)
(*                                                                         *)
(* A handler is an async function: it runs from one await to the next, and *)
(* between two awaits other handlers, idle timers and events of the page   *)
(* run.  Each action below is what happens between two awaits.             *)
(***************************************************************************)
EXTENDS Naturals, Sequences, SequencesExt, FiniteSets

CONSTANTS
  Sessions,     \* session ids
  MaxRequests,  \* bound: requests that arrive
  Asks,         \* what they may ask: records [do, on, name]
  Surfaces,     \* what sessions are opened on: "web" (playwright), "tauri" (webdriver)
  Hasty,        \* may the TTL elapse while a handler is at work?
  Faults,       \* may a browser, a navigation, the readiness gate or a step fail?
  MaxErrors,    \* bound: uncaught errors that a page throws
  Buffered,     \* MAX_BUFFERED
  Stops         \* what may stop the process: "end" of its input, a "signal"

Requests == 1 .. MaxRequests
Kinds    == {"open", "goto", "click", "shoot", "snap", "eval", "close"}

\* A name is none, or a text with the numbers that have been appended to it.
IsName(n) ==
  n = <<>> \/ /\ Head(n) \in STRING /\ Tail(n) \in Seq(Nat)
              /\ n = <<Head(n)>> \o Tail(n)

ASSUME DomOK ==
  /\ MaxRequests \in Nat /\ MaxErrors \in Nat /\ Buffered \in Nat \ {0}
  /\ \A a \in Asks : a.do \in Kinds /\ a.on \in Sessions /\ IsName(a.name)
  /\ Surfaces \subseteq {"web", "tauri"} /\ {Hasty, Faults} \subseteq BOOLEAN
  /\ Stops \subseteq {"end", "signal"}

VARIABLES
  surface,   \* the surface of each session
  ask,       \* what each request asks
  at,        \* which await its handler is at
  answer,    \* "none", "ok", "failed" (ok: false) or "error"
  registry,  \* SessionRegistry.sessions
  backend,   \* "none", "up", "orphan" (up, but of no session), "disposing" or "disposed"
  ready, closed, timer,  \* fields of each Session
  page,      \* what its page shows (a ghost): "blank" or "rendered"
  log,       \* console entries nobody has drained
  fresh,     \* uncaught errors no step has been charged with
  raised,    \* how many errors the page has thrown
  taken,     \* the console entries a request was answered with (a history variable)
  lost,      \* entries pushed out of a full buffer, gone with a page, or drained for a
             \* snap whose step then failed and could not carry them (history)
  noisy,     \* steps during which the page threw (history)
  crowded,   \* requests that were not alone with the driver all the time (history)
  name,      \* the name a snap is taken under
  used, counter,   \* SnapWriter
  files,     \* the files written: names with the request that wrote them
  unseen,    \* snaps taken of a page that was not rendered (history)
  ended,     \* the request stream has ended
  proc,      \* "up", "ending" (after the requests), "stopping" (a signal came) or "gone"
  awaited,   \* the sessions that closeAll waits for
  overdue    \* sessions whose timer fired before they were registered, and that
             \* nobody has used since (history)

handlers == <<ask, at, answer, taken, noisy, crowded, name>>
events   == <<log, fresh, raised, lost>>
writer   == <<used, counter, files, unseen>>
life     == <<registry, backend, ready, closed, timer, page>>
process  == <<surface, ended, proc, awaited, overdue>>
vars     == <<handlers, events, writer, life, process>>

NoAsk   == [do |-> "none", on |-> "none", name |-> <<>>]
Awaits  == {"launching", "navigating", "gating", "undoing", "acting", "reaching",
            "regating", "shooting", "writing", "draining", "locating", "closing"}
Pending == {r \in Requests : at[r] \in Awaits}
Came    == {r \in Requests : at[r] # "out"}
On(r)   == ask[r].on
IsStep(r) == ask[r].do \in {"goto", "click", "shoot"}

TypeOK ==
  /\ surface \in [Sessions -> Surfaces]
  /\ ask \in [Requests -> Asks \cup {NoAsk}]
  /\ at \in [Requests -> Awaits \cup {"out", "done"}]
  /\ answer \in [Requests -> {"none", "ok", "failed", "error"}]
  /\ registry \subseteq Sessions
  /\ backend \in [Sessions -> {"none", "up", "orphan", "disposing", "disposed"}]
  /\ {ready, closed, timer} \subseteq [Sessions -> BOOLEAN]
  /\ page \in [Sessions -> {"blank", "rendered"}]
  /\ \A s \in Sessions : /\ log[s] \in Seq(1 .. MaxErrors) /\ Len(log[s]) <= Buffered
                         /\ fresh[s] \subseteq 1 .. MaxErrors /\ raised[s] \in 0 .. MaxErrors
                         /\ lost[s] \subseteq 1 .. MaxErrors
  /\ taken \in [Requests -> Seq(1 .. MaxErrors)]
  /\ noisy \subseteq Requests /\ crowded \subseteq Requests /\ unseen \subseteq Requests
  /\ counter \in [Sessions -> 0 .. MaxRequests]
  /\ ended \in BOOLEAN /\ proc \in {"up", "ending", "stopping", "gone"}
  /\ awaited \subseteq Sessions /\ overdue \subseteq Sessions

Init ==
  /\ surface \in [Sessions -> Surfaces]
  /\ ask = [r \in Requests |-> NoAsk]
  /\ at = [r \in Requests |-> "out"] /\ answer = [r \in Requests |-> "none"]
  /\ taken = [r \in Requests |-> <<>>] /\ name = [r \in Requests |-> <<>>]
  /\ noisy = {} /\ crowded = {} /\ unseen = {}
  /\ registry = {} /\ backend = [s \in Sessions |-> "none"]
  /\ ready = [s \in Sessions |-> FALSE] /\ closed = ready /\ timer = ready
  /\ page = [s \in Sessions |-> "blank"]
  /\ log = [s \in Sessions |-> <<>>] /\ fresh = [s \in Sessions |-> {}]
  /\ raised = [s \in Sessions |-> 0] /\ lost = fresh
  /\ used = [s \in Sessions |-> {}] /\ counter = raised /\ files = used
  /\ ended = FALSE /\ proc = "up" /\ awaited = {} /\ overdue = {}

--------------------------------------------------------------------------------
(***************************************************************************)
(* Sessions and their idle timers                                          *)
(***************************************************************************)

\* Faulty variant: the old timer is cleared and no new one is set.
TouchClears(s) == timer' = [timer EXCEPT ![s] = FALSE]

\* Session.touch: the idle timer starts over.
Touch(s) == timer' = [timer EXCEPT ![s] = TRUE]

\* SessionRegistry.drop and Session.close, up to the await of dispose.
Drop(s) ==
  /\ registry' = registry \ {s}
  /\ IF s \in registry /\ ~closed[s]
       THEN /\ closed' = [closed EXCEPT ![s] = TRUE]
            /\ timer' = [timer EXCEPT ![s] = FALSE]
            /\ backend' = [backend EXCEPT ![s] = "disposing"]
       ELSE UNCHANGED <<closed, timer, backend>>
  /\ UNCHANGED <<ready, page>>

\* onExpire: a session that is still opening is not registered, and is not closed.
Expire(s) ==
  /\ timer[s] /\ proc # "gone"
  /\ Hasty \/ \A r \in Pending : On(r) # s
  /\ IF s \in registry THEN Drop(s) /\ UNCHANGED overdue
     ELSE /\ timer' = [timer EXCEPT ![s] = FALSE]
          /\ overdue' = overdue \cup {s}
          /\ UNCHANGED <<registry, backend, ready, closed, page>>
  /\ UNCHANGED <<handlers, events, writer, surface, ended, proc, awaited>>

\* Backend.dispose has closed the browser.
Disposed(s) ==
  /\ backend[s] = "disposing" /\ proc # "gone"
  /\ backend' = [backend EXCEPT ![s] = "disposed"]
  /\ UNCHANGED <<handlers, events, writer, registry, ready, closed, timer, page, process>>

--------------------------------------------------------------------------------
(***************************************************************************)
(* Console entries and uncaught errors                                     *)
(***************************************************************************)

\* Faulty variant: the buffer has no limit.
PushAnyway(q, e) == Append(q, e)

\* EventRecorder.console: a full buffer loses its oldest entry.
Push(q, e) == Append(IF Len(q) >= Buffered THEN Tail(q) ELSE q, e)

\* The page of s throws.  Playwright reports it to the driver, which charges it
\* to a step; in a Tauri window it stays with the probe in the page.
Raise(s) ==
  /\ backend[s] = "up" /\ raised[s] < MaxErrors /\ proc = "up"
  /\ LET e == raised[s] + 1
     IN  /\ raised' = [raised EXCEPT ![s] = e]
         /\ log' = [log EXCEPT ![s] = Push(@, e)]
         /\ lost' = [lost EXCEPT ![s] = @ \cup (ToSet(log[s]) \ ToSet(Push(log[s], e)))]
         /\ fresh' = IF surface[s] = "web" THEN [fresh EXCEPT ![s] = @ \cup {e}] ELSE fresh
  /\ noisy' = noisy \cup {r \in Pending : On(r) = s /\ IsStep(r) /\ at[r] # "locating"}
  /\ UNCHANGED <<ask, at, answer, taken, crowded, name, writer, life, process>>

\* Faulty variant: entries stay in the buffer.
DrainKeeps(r) ==
  /\ taken' = [taken EXCEPT ![r] = log[On(r)]]
  /\ UNCHANGED log

\* drainQuietly: everything since the last drain goes to request r.
Drain(r) ==
  /\ taken' = [taken EXCEPT ![r] = log[On(r)]]
  /\ log' = [log EXCEPT ![On(r)] = <<>>]

\* The same, for a request whose answer will not carry what was drained.
DrainInVain(s) ==
  /\ log' = [log EXCEPT ![s] = <<>>]
  /\ lost' = [lost EXCEPT ![s] = @ \cup ToSet(log[s])]

\* The errors that fail a step: those the driver knows of and has charged to
\* none.  Those of a Tauri window become known when they are drained.
Known(r) ==
  fresh[On(r)] \cup
    IF surface[On(r)] = "tauri" /\ at[r] = "draining" THEN ToSet(log[On(r)]) ELSE {}

\* A Tauri page takes its probe, and what it has recorded, along when it goes.
Navigate(s) ==
  /\ page' = [page EXCEPT ![s] = "blank"]
  /\ IF surface[s] = "tauri"
       THEN /\ lost' = [lost EXCEPT ![s] = @ \cup ToSet(log[s])]
            /\ log' = [log EXCEPT ![s] = <<>>]
       ELSE UNCHANGED <<lost, log>>

--------------------------------------------------------------------------------
Finish(r, a) ==
  /\ at' = [at EXCEPT ![r] = "done"]
  /\ answer' = [answer EXCEPT ![r] = a]
  /\ UNCHANGED <<ask, name>>

Go(r, next) ==
  /\ at' = [at EXCEPT ![r] = next]
  /\ UNCHANGED <<ask, answer, name>>

\* act answers ok: false where snap and eval answer with an error.
Fault(r) == IF IsStep(r) THEN "failed" ELSE "error"

\* Faulty variant: errors thrown before the step began are all it looks at.
CheckSkipped(r) == Go(r, "locating") /\ UNCHANGED fresh

\* The end of an act that did what it was asked: it fails if there are errors
\* that no step has been charged with.
Check(r) ==
  /\ IF Known(r) = {} THEN Go(r, "locating") ELSE Finish(r, "failed")
  /\ fresh' = [fresh EXCEPT ![On(r)] = {}]

--------------------------------------------------------------------------------
(***************************************************************************)
(* Requests                                                                *)
(***************************************************************************)

\* A caller knows the id of a session from the answer to open.
Asked(a) ==
  IF a.do = "open" THEN \A r \in Came : ~(ask[r].do = "open" /\ On(r) = a.on)
  ELSE \E r \in Came : ask[r].do = "open" /\ On(r) = a.on /\ answer[r] = "ok"

\* Faulty variant: a name is not looked up.
NameAsAsked(s, n) == IF n = <<>> THEN <<"snap-", counter[s] + 1>> ELSE n

\* SnapWriter.nextName: `n`, or `n-2`, `n-3`...  A snap without a name is numbered,
\* and its number is not looked up.
NameFor(s, n) ==
  IF n = <<>> THEN <<"snap-", counter[s] + 1>>
  ELSE IF n \notin used[s] THEN n
  ELSE Append(n, CHOOSE k \in 2 .. MaxRequests + 1 :
                   /\ Append(n, k) \notin used[s]
                   /\ \A j \in 2 .. k - 1 : Append(n, j) \in used[s])

\* The first await of a handler that has found its session ready.
FirstAwait(a) ==
  IF a.do = "goto" THEN "reaching" ELSE IF a.do \in {"snap", "shoot"} THEN "shooting" ELSE "acting"

\* The handler of an act, a snap or an eval up to its first await.
Start(r, a) ==
  LET s == a.on
  IN  IF s \notin registry \/ closed[s]
        THEN /\ at' = [at EXCEPT ![r] = "done"] /\ answer' = [answer EXCEPT ![r] = "error"]
             /\ UNCHANGED <<life, name, counter>>
        ELSE /\ Touch(s)
             /\ UNCHANGED <<registry, backend, ready, closed, page>>
             /\ IF ~ready[s]
                  THEN /\ at' = [at EXCEPT ![r] = "done"]
                       /\ answer' = [answer EXCEPT ![r] =
                                       IF a.do \in {"snap", "eval"} THEN "error" ELSE "failed"]
                       /\ UNCHANGED <<name, counter>>
                  ELSE /\ UNCHANGED answer
                       /\ IF a.do \in {"snap", "shoot"}
                            THEN /\ name' = [name EXCEPT ![r] = NameFor(s, a.name)]
                                 /\ counter' = IF a.name = <<>> THEN [counter EXCEPT ![s] = @ + 1]
                                                                ELSE counter
                            ELSE UNCHANGED <<name, counter>>
                       /\ at' = [at EXCEPT ![r] = FirstAwait(a)]

\* SessionRegistry.close: of a session that is gone, or going, there is nothing to wait for.
StartClose(r, s) ==
  /\ IF s \in registry /\ ~closed[s]
       THEN at' = [at EXCEPT ![r] = "closing"] /\ UNCHANGED answer
       ELSE at' = [at EXCEPT ![r] = "done"] /\ answer' = [answer EXCEPT ![r] = "ok"]
  /\ Drop(s) /\ UNCHANGED <<name, counter>>

\* A line of the request stream is dispatched.
Arrive(r) ==
  /\ proc \in {"up", "stopping"} /\ ~ended /\ r = Cardinality(Came) + 1
  /\ crowded' = IF Pending = {} THEN crowded ELSE crowded \cup Pending \cup {r}
  /\ \E a \in Asks :
       /\ Asked(a)
       /\ ask' = [ask EXCEPT ![r] = a]
       /\ \/ a.do = "open" /\ at' = [at EXCEPT ![r] = "launching"]
             /\ UNCHANGED <<answer, life, name, counter>>
          \/ a.do = "close" /\ StartClose(r, a.on)
          \/ a.do \notin {"open", "close"} /\ Start(r, a)
  /\ overdue' = {s \in overdue : timer'[s] = FALSE}
  /\ UNCHANGED <<taken, noisy, events, used, files, unseen, surface, ended, proc, awaited>>

--------------------------------------------------------------------------------
(***************************************************************************)
(* Session.open                                                            *)
(***************************************************************************)

\* The browser is launched, and what is made in it, or the Session that holds it,
\* may still fail: nobody closes the browser then.
Launched(r) ==
  /\ at[r] = "launching"
  /\ LET s == On(r)
     IN  \/ /\ Go(r, "navigating")
            /\ backend' = [backend EXCEPT ![s] = "up"]
            /\ Touch(s)
         \/ /\ Faults /\ Finish(r, "error") /\ UNCHANGED timer
            /\ backend' \in {backend, [backend EXCEPT ![s] = "orphan"]}
  /\ UNCHANGED <<taken, noisy, crowded, events, writer, registry, ready, closed, page, process>>

\* The catch of Session.open: what was drained goes with the error, then the
\* browser is closed.
Undo(r) ==
  /\ Go(r, "undoing") /\ Drain(r)
  /\ backend' = [backend EXCEPT ![On(r)] = "disposing"]

Navigated(r) ==
  /\ at[r] = "navigating"
  /\ \/ Go(r, "gating") /\ Navigate(On(r)) /\ UNCHANGED <<taken, backend>>
     \/ Faults /\ Undo(r) /\ UNCHANGED <<lost, page>>
  /\ UNCHANGED <<noisy, crowded, fresh, raised, writer, registry, ready, closed, timer, process>>

\* gateOnReadiness has seen a rendered page: the errors so far are forgiven.
Rendered(s) ==
  /\ ready' = [ready EXCEPT ![s] = TRUE]
  /\ page' = [page EXCEPT ![s] = "rendered"]
  /\ fresh' = [fresh EXCEPT ![s] = {}]

Gated(r) ==
  /\ at[r] = "gating"
  /\ \/ /\ Rendered(On(r)) /\ registry' = registry \cup {On(r)} /\ Finish(r, "ok")
        /\ UNCHANGED <<taken, log, backend>>
     \/ Faults /\ Undo(r) /\ UNCHANGED <<ready, page, fresh, registry>>
  /\ UNCHANGED <<noisy, crowded, raised, lost, writer, closed, timer, process>>

Undone(r) ==
  /\ at[r] = "undoing" /\ backend[On(r)] = "disposed"
  /\ closed' = [closed EXCEPT ![On(r)] = TRUE]
  /\ timer' = [timer EXCEPT ![On(r)] = FALSE]
  /\ Finish(r, "error")
  /\ UNCHANGED <<taken, noisy, crowded, events, writer, registry, backend, ready, page, process>>

--------------------------------------------------------------------------------
(***************************************************************************)
(* Steps, snapshots and evaluations                                        *)
(***************************************************************************)

\* A call of the backend fails if its browser has been closed, or by itself.
Works(r) == backend[On(r)] = "up"
Fails(r) == Faults \/ ~Works(r)

Acted(r) ==
  /\ at[r] = "acting"
  /\ \/ Works(r) /\ IsStep(r) /\ Check(r)
     \/ Works(r) /\ ~IsStep(r) /\ Finish(r, "ok") /\ UNCHANGED fresh
     \/ Fails(r) /\ Finish(r, Fault(r)) /\ UNCHANGED fresh
  /\ UNCHANGED <<taken, noisy, crowded, log, raised, lost, writer, life, process>>

\* An `open` step.  A navigation that fails leaves the session ready, whatever
\* the page shows now.
Reached(r) ==
  /\ at[r] = "reaching"
  /\ \/ /\ Works(r) /\ Go(r, "regating") /\ Navigate(On(r))
        /\ ready' = [ready EXCEPT ![On(r)] = FALSE]
     \/ /\ Fails(r) /\ Finish(r, "failed") /\ UNCHANGED ready
        /\ Navigate(On(r)) \/ UNCHANGED <<page, lost, log>>
  /\ UNCHANGED <<taken, noisy, crowded, fresh, raised, writer, registry, backend, closed, timer,
                 process>>

Regated(r) ==
  /\ at[r] = "regating"
  /\ \/ Works(r) /\ Rendered(On(r)) /\ Go(r, "locating")
     \/ Fails(r) /\ Finish(r, "failed") /\ UNCHANGED <<ready, page, fresh>>
  /\ UNCHANGED <<taken, noisy, crowded, log, raised, lost, writer, registry, backend, closed, timer,
                 process>>

\* captureSnap has its text and pixels; SnapWriter.write notes the name.
Shot(r) ==
  /\ at[r] = "shooting"
  /\ LET s == On(r)
     IN  \/ /\ Works(r) /\ Go(r, "writing")
            /\ used' = [used EXCEPT ![s] = @ \cup {name[r]}]
            /\ unseen' = IF page[s] = "rendered" THEN unseen ELSE unseen \cup {r}
         \/ Fails(r) /\ Finish(r, Fault(r)) /\ UNCHANGED <<used, unseen>>
  /\ UNCHANGED <<taken, noisy, crowded, events, counter, files, life, process>>

\* The rest of a snap once the entries are drained, or could not be.  A step that
\* fails now is answered without its snap, and without the entries.
EndSnap(r) ==
  /\ IF ~(Works(r) \/ surface[On(r)] = "web") THEN UNCHANGED <<taken, log, lost>>
     ELSE IF IsStep(r) /\ Known(r) # {} THEN DrainInVain(On(r)) /\ UNCHANGED taken
     ELSE Drain(r) /\ UNCHANGED lost
  /\ IF IsStep(r) THEN Check(r)
     ELSE Go(r, "locating") /\ fresh' = [fresh EXCEPT ![On(r)] = Known(r)]

\* The files are written.  Playwright's recorder is drained at once, a Tauri
\* page has to be asked.
Wrote(r) ==
  /\ at[r] = "writing"
  /\ \/ /\ files' = [files EXCEPT ![On(r)] = @ \cup {<<name[r], r>>}]
        /\ IF surface[On(r)] = "web" THEN EndSnap(r)
           ELSE Go(r, "draining") /\ UNCHANGED <<taken, log, fresh, lost>>
     \/ Faults /\ Finish(r, Fault(r)) /\ UNCHANGED <<files, taken, log, fresh, lost>>
  /\ UNCHANGED <<noisy, crowded, raised, used, counter, unseen, life, process>>

Drained(r) ==
  /\ at[r] = "draining" /\ EndSnap(r)
  /\ UNCHANGED <<noisy, crowded, raised, writer, life, process>>

\* currentUrl, which may fail without harm.
Located(r) ==
  /\ at[r] = "locating" /\ Finish(r, "ok")
  /\ UNCHANGED <<taken, noisy, crowded, events, writer, life, process>>

Closed(r) ==
  /\ at[r] = "closing" /\ backend[On(r)] = "disposed" /\ Finish(r, "ok")
  /\ UNCHANGED <<taken, noisy, crowded, events, writer, life, process>>

--------------------------------------------------------------------------------
(***************************************************************************)
(* The process                                                             *)
(***************************************************************************)
InputEnds ==
  /\ "end" \in Stops /\ ~ended /\ proc = "up" /\ ended' = TRUE
  /\ UNCHANGED <<handlers, events, writer, life, surface, proc, awaited, overdue>>

\* Faulty variant: the sessions are forgotten and not closed.
CloseAllForgets ==
  /\ registry' = {} /\ awaited' = {}
  /\ UNCHANGED <<closed, timer, backend, ready, page>>

\* SessionRegistry.closeAll
CloseAll ==
  /\ registry' = {}
  /\ awaited' = {s \in registry : ~closed[s]}
  /\ closed' = [s \in Sessions |-> closed[s] \/ s \in registry]
  /\ timer' = [s \in Sessions |-> timer[s] /\ s \notin registry]
  /\ backend' = [s \in Sessions |-> IF s \in awaited' THEN "disposing" ELSE backend[s]]
  /\ UNCHANGED <<ready, page>>

\* RpcServer.start resolves: no request is left to come or to answer.
Idle == ended /\ Pending = {}

AllServed ==
  /\ proc = "up" /\ Idle
  /\ proc' = "ending" /\ CloseAll
  /\ UNCHANGED <<handlers, events, writer, surface, ended, overdue>>

Signal ==
  /\ "signal" \in Stops /\ proc \in {"up", "ending"}
  /\ proc' = "stopping" /\ CloseAll
  /\ UNCHANGED <<handlers, events, writer, surface, ended, overdue>>

\* After a signal: process.exit, as soon as closeAll is through.  Otherwise: when
\* no browser and no handler keeps the event loop busy.
Exit ==
  /\ \/ proc = "stopping" /\ \A s \in awaited : backend[s] = "disposed"
     \/ proc = "ending" /\ Pending = {} /\ \A s \in Sessions : backend[s] \in {"none", "disposed"}
  /\ proc' = "gone"
  /\ UNCHANGED <<handlers, events, writer, life, surface, ended, awaited, overdue>>

--------------------------------------------------------------------------------
Resume(r) ==
  /\ proc # "gone"
  /\ \/ Launched(r) \/ Navigated(r) \/ Gated(r) \/ Undone(r) \/ Acted(r) \/ Reached(r)
     \/ Regated(r) \/ Shot(r) \/ Wrote(r) \/ Drained(r) \/ Located(r) \/ Closed(r)

Next ==
  \/ \E r \in Requests : Arrive(r) \/ Resume(r)
  \/ \E s \in Sessions : Expire(s) \/ Disposed(s) \/ Raise(s)
  \/ InputEnds \/ AllServed \/ Signal \/ Exit

Spec == Init /\ [][Next]_vars

\* What a handler waits for comes, or is given up.  Navigations have a timeout, the
\* commands of a WebDriver a script timeout, and files are written.  What runs in a
\* web page by `page.evaluate` (probing readiness, taking text, an eval, what a click
\* looks up before and after) has none: it may never settle, until its browser is
\* closed.  Nor has all that follows the launch of a browser.
Settles(r) ==
  \/ at[r] \in {"navigating", "reaching", "writing", "draining", "locating", "undoing", "closing"}
  \/ at[r] \in {"gating", "acting", "regating", "shooting"} /\ backend[On(r)] # "up"

\* Timers fire, and a browser that is told to close does.
FairSpec ==
  /\ Spec
  /\ \A r \in Requests : WF_vars(Settles(r) /\ Resume(r))
  /\ \A s \in Sessions : WF_vars(Disposed(s)) /\ WF_vars(Expire(s))
  /\ WF_vars(AllServed) /\ WF_vars(Exit)

--------------------------------------------------------------------------------
\* "Snaps carry console errors since the previous snap": every entry is with one
\* request, or still to be drained, or was lost in one of the three ways that `lost`
\* names, and what is still to be drained is younger than all that was answered.
EntriesGoOnce ==
  \A s \in Sessions :
    LET mine      == {r \in Requests : On(r) = s}
        places(e) == {<<"taken", r>> : r \in {q \in mine : e \in ToSet(taken[q])}}
                       \cup {<<"log", d>> : d \in {e} \cap ToSet(log[s])}
                       \cup {<<"lost", d>> : d \in {e} \cap lost[s]}
    IN  /\ \A e \in 1 .. raised[s] : Cardinality(places(e)) = 1
        /\ \A r \in mine : \A e \in ToSet(taken[r]) : \A d \in ToSet(log[s]) : e < d

\* "A repeated name becomes <name>-2, never an overwrite": no two snaps of a
\* session are written to one file, unless they were taken at the same time.
SnapsKept ==
  \A s \in Sessions : \A f, g \in files[s] :
    f[1] = g[1] => f = g \/ {f[2], g[2]} \subseteq crowded

\* "Uncaught exceptions during a step fail that step", unless another request at
\* work was charged with them: for a web page, and a step that had it to itself.  An
\* `open` step is not among them: what the page throws while it is being reached and
\* rendered is forgiven by the readiness gate.
OkMeansQuiet ==
  \A r \in Requests :
    IsStep(r) /\ ask[r].do # "goto" /\ answer[r] = "ok" /\ surface[On(r)] = "web"
      => r \notin noisy \/ r \in crowded

\* The same said of every surface and every step, as the driver's own test says it.
ThrowsFailTheStep ==
  \A r \in Requests : IsStep(r) /\ answer[r] = "ok" => r \notin noisy \/ r \in crowded

\* What the page logs is told: it is only lost to a full buffer or with its page.
FailedSnapsTell ==
  \A r \in Requests :
    ask[r].do = "shoot" /\ answer[r] = "failed" /\ Buffered >= MaxErrors => lost[On(r)] = {}

\* No snapshot is taken of a page that has not passed the readiness gate.
SnapsOfRendered == unseen = {}

\* No `open` hangs for good before it is registered, where no idle timer ends it.
OpensReturn == \A r \in Requests : []<>(at[r] \notin {"launching", "gating"})

\* A driver told by a signal to stop ends, whatever hangs.  At the end of its requests
\* it ends too, once it has answered and closed its browsers: a handler that hangs is
\* freed by the idle timer of its session.  What may keep it is an `open` that never
\* returns, or a browser left by one that failed, which is of no session.
DriverEnds ==
  /\ proc = "stopping" ~> proc = "gone"
  /\ OpensReturn => (ended ~> (proc = "gone" \/ \E s \in Sessions : backend[s] = "orphan"))

\* "An abandoned session holds a browser open until the TTL expires": the browser of a
\* session is closed at last, even under a handler that hangs; unless the time ran out
\* before the session was registered, which stops its timer until it is next used.
BrowsersEnd ==
  \A s \in Sessions :
    backend[s] = "up" ~> (backend[s] = "disposed" \/ proc = "gone" \/ s \in overdue)

\* The same without the exception.
AbandonedBrowsersEnd ==
  \A s \in Sessions : backend[s] = "up" ~> (backend[s] = "disposed" \/ proc = "gone")
================================================================================
