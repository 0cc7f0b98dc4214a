------------------------------ MODULE VmLifecycle ------------------------------
(***************************************************************************)
(* The lab's virtual machine, which is started when somebody connects and  *)
(* stopped when nobody has used it for a while.                            *)
(*                                                                         *)
(*   ui-box-wake       the ssh ProxyCommand, one process per connection    *)
(*   ui-box-idle-stop  the host's timer job                                *)
(*   uibox-idle-mark   the guest's timer job, which publishes two markers  *)
(*   uibox-keepalive   wraps a command in the guest that must not be cut   *)
(*                                                                         *)
(* They meet in a lock file on the host, in libvirt's domain, and in three *)
(* files of a share: `alive`, `busy` (what matters is their age) and       *)
(* `keepalive` (what matters is how long it still holds).  The unit of     *)
(* time is the guest's publishing period, 30 seconds.                      *)
(***************************************************************************)
EXTENDS Naturals, FiniteSets

CONSTANTS
  Clients,       \* ssh connections to the lab
  Commands,      \* commands run under uibox-keepalive, once each
  AliveMax,      \* ALIVE_MAX
  FaultAfter,    \* MARKER_FAULT_AFTER
  Idle,          \* idle.minutes
  Hold,          \* the hold a wake takes
  CmdHold,       \* the hold uibox-keepalive takes, and
  RefreshEvery,  \* how often it takes it again
  StopBy,        \* idle.action: "managedsave" or "shutdown"
  Publisher,     \* "regular"; "mortal": may stop for good; "halfway": may break off in a run
  May            \* what else may happen, a subset of Events

Events == {"up", "down",     \* an operator runs `just up`, `just down`
           "kill",           \* a wake is killed
           "crash",          \* the guest crashes
           "unrestorable",   \* a saved image cannot be restored
           "unsavable",      \* a save fails, or does not fit
           "refuse"}         \* the host has no memory for the lab

ASSUME VmOK ==
  /\ {AliveMax, FaultAfter, Idle, Hold, CmdHold, RefreshEvery} \subseteq Nat \ {0}
  /\ AliveMax + 1 < Idle /\ AliveMax < FaultAfter /\ RefreshEvery < CmdHold
  /\ StopBy \in {"managedsave", "shutdown"}
  /\ Publisher \in {"regular", "mortal", "halfway"}
  /\ May \subseteq Events
  /\ Clients \cap Commands = {} /\ "idle-stop" \notin Clients /\ "free" \notin Clients

VARIABLES
  dom,      \* virsh domstate
  guest,    \* "none", "booting", "up" or "halting" (of a saved domain: as it was saved)
  image,    \* is there a managed save?
  lock,     \* who holds $vm.lock
  wake,     \* where each connection's ui-box-wake is
  heard,    \* connections whose wake has had an answer from sshd (a history variable)
  stop,     \* where ui-box-idle-stop is: "idle", "checked", "locked", "saving"
  unit,     \* how its last run ended: "ok" or "failed"
  alive, busy,    \* ages of the guest's markers
  keep,           \* how much longer `keepalive` holds
  unpublished,    \* age of $vm.unpublished-since
  pub,      \* the publisher: "idle", "looked", "dead"
  mark,     \* will this run of it touch `busy`?
  met,      \* who it saw when it looked
  ran,      \* has it run in this period?
  command,  \* each command: "new", "running" or "done"
  refreshed,  \* periods since each command last took its hold
  vouched,  \* those the publisher has met, in a whole run (a history variable)
  missed,   \* those its last run met before it broke off (a history variable)
  upFor,    \* how long the domain has been running (a history variable)
  hit       \* whom the last idle stop cut off, by what the publisher knew (history)

host    == <<dom, guest, image>>
waking  == <<wake, heard>>
markers == <<alive, busy, keep>>
guard   == <<stop, unit, unpublished>>
publish == <<pub, mark, met, ran>>
held    == <<command, refreshed>>
history == <<vouched, missed, upFor, hit>>
vars    == <<host, lock, waking, guard, markers, publish, held, history>>

Bound  == FaultAfter + Idle   \* ages beyond this one are not told apart
Absent == Bound + 1           \* the age of a marker that was never written
Ages   == 0 .. Absent
Parties == Clients \cup Commands
Hits    == [seen : SUBSET Parties, new : SUBSET Parties]

WakePCs == {"out", "queued", "locked", "starting", "offwait", "started", "waiting",
            "nc", "connected"}
DomStates == {"running", "paused", "in shutdown", "shut off", "crashed"}

HostOK    == /\ dom \in DomStates /\ guest \in {"none", "booting", "up", "halting"}
             /\ image \in BOOLEAN
WakingOK  == /\ lock \in Clients \cup {"free", "idle-stop"}
             /\ wake \in [Clients -> WakePCs] /\ heard \subseteq Clients
GuardOK   == /\ stop \in {"idle", "checked", "locked", "saving"}
             /\ unit \in {"ok", "failed"} /\ unpublished \in Ages
MarkersOK == alive \in Ages /\ busy \in Ages /\ keep \in Nat
PublishOK == /\ pub \in {"idle", "looked", "dead"} /\ mark \in BOOLEAN /\ ran \in BOOLEAN
             /\ met \subseteq Parties
HeldOK    == /\ command \in [Commands -> {"new", "running", "done"}]
             /\ refreshed \in [Commands -> 0 .. RefreshEvery]
HistoryOK == /\ vouched \subseteq Parties /\ missed \subseteq Parties /\ upFor \in 0 .. Bound
             /\ hit \in Hits

TypeOK == /\ HostOK /\ WakingOK /\ GuardOK /\ MarkersOK
          /\ PublishOK /\ HeldOK /\ HistoryOK

\* The lab is down; markers of an earlier life may have stayed on the share.
Init ==
  /\ dom = "shut off" /\ image \in BOOLEAN
  /\ guest = IF image THEN "up" ELSE "none"
  /\ lock = "free" /\ wake = [c \in Clients |-> "out"] /\ heard = {}
  /\ stop = "idle" /\ unit = "ok" /\ unpublished = Absent
  /\ \/ alive = Absent /\ busy = Absent
     \/ alive = Bound /\ busy = Bound
  /\ keep = 0
  /\ pub = "idle" /\ mark = FALSE /\ met = {} /\ ran = FALSE
  /\ command = [k \in Commands |-> "new"] /\ refreshed = [k \in Commands |-> 0]
  /\ vouched = {} /\ missed = {} /\ upFor = 0
  /\ hit = [seen |-> {}, new |-> {}]

Running   == dom = "running"
Answers   == Running /\ guest = "up"    \* nc -z
Connected == {c \in Clients : wake[c] = "connected"}
Inside    == Connected \cup {k \in Commands : command[k] = "running"}

\* Whoever is connected loses the connection.
Cut ==
  /\ wake' = [c \in Clients |-> IF wake[c] = "connected" THEN "out" ELSE wake[c]]
  /\ heard' = heard \ Connected
  /\ met' = met \ Connected /\ vouched' = {} /\ missed' = {}

--------------------------------------------------------------------------------
(***************************************************************************)
(* Starting the domain                                                     *)
(***************************************************************************)

\* A cold boot: what ran in the guest before is gone.
Boot ==
  /\ dom' = "running" /\ guest' = "booting" /\ image' = FALSE /\ upFor' = 0
  /\ pub' = "idle" /\ mark' = FALSE /\ met' = {} /\ ran' = FALSE
  /\ command' = [k \in Commands |-> IF command[k] = "running" THEN "done" ELSE command[k]]
  /\ UNCHANGED refreshed

\* The guest goes on where it was.
Continue == dom' = "running" /\ UNCHANGED <<guest, publish, held>>

\* `virsh start`, with the recovery both callers have: an image that cannot be
\* restored is discarded and the domain boots.
StartDomain ==
  \/ (~image \/ "unrestorable" \in May) /\ Boot
  \/ image /\ image' = FALSE /\ upFor' = 0 /\ Continue

ByState ==
  \/ dom = "shut off" /\ StartDomain
  \/ dom = "crashed" /\ Boot
  \/ dom = "paused" /\ stop # "saving" /\ Continue /\ UNCHANGED <<image, upFor>>

--------------------------------------------------------------------------------
(***************************************************************************)
(* ui-box-wake                                                             *)
(***************************************************************************)

Go(c, where) == wake' = [wake EXCEPT ![c] = where]
Hear(c)      == heard' = heard \cup {c}
Forget(c)    == heard' = heard \ {c}
Release      == lock' = "free"
Aside        == UNCHANGED <<guard, vouched, missed, hit>>
Elsewhere    == Aside /\ UNCHANGED <<host, upFor, markers, publish, held>>

\* The first look, without the lock: a lab that answers is connected to at once.
Look(c) ==
  /\ wake[c] = "out"
  /\ IF Answers THEN Go(c, "nc") /\ Hear(c) ELSE Go(c, "queued") /\ UNCHANGED heard
  /\ UNCHANGED lock /\ Elsewhere

TakeLock(c) ==
  /\ wake[c] = "queued" /\ lock = "free"
  /\ lock' = c /\ Go(c, "locked")
  /\ UNCHANGED heard /\ Elsewhere

\* The second look, under the lock; a domain that runs is taken to be started.
LookAgain(c) ==
  /\ wake[c] = "locked"
  /\ IF Running THEN Release /\ Go(c, "nc") ELSE Go(c, "starting") /\ UNCHANGED lock
  /\ IF Answers THEN Hear(c) ELSE UNCHANGED heard
  /\ Elsewhere

\* Faulty variant: a lock that outlives its process.
DieKeepsLock(c) == UNCHANGED lock /\ Go(c, "out") /\ Forget(c) /\ Elsewhere

\* The process ends, and its lock goes with it.
Die(c) ==
  /\ lock' = IF lock = c THEN "free" ELSE lock
  /\ Go(c, "out") /\ Forget(c)
  /\ Elsewhere

\* preflight and budget_ok.
Refuse(c) == "refuse" \in May /\ wake[c] = "starting" /\ Die(c)

\* start_locked by the domain's state.  A domain that somebody else has started
\* meanwhile is "already active".
Start(c) ==
  /\ wake[c] = "starting"
  /\ \/ ByState /\ Go(c, "started")
     \/ Running /\ Go(c, "started") /\ UNCHANGED <<host, upFor, publish, held>>
     \/ dom = "in shutdown" /\ Go(c, "offwait") /\ UNCHANGED <<host, upFor, publish, held>>
  /\ UNCHANGED <<lock, heard, markers>> /\ Aside

\* The wait for a shutdown in progress: two minutes, then `virsh start`.
AfterShutdown(c) ==
  /\ wake[c] = "offwait"
  /\ IF dom = "shut off"
       THEN StartDomain /\ Go(c, "started") /\ UNCHANGED <<lock, heard, markers>> /\ Aside
       ELSE Die(c)

Keepalive(c) ==
  /\ wake[c] = "started" /\ Go(c, "waiting")
  /\ keep' = Hold
  /\ UNCHANGED <<lock, heard, host, upFor, alive, busy, publish, held>> /\ Aside

\* Faulty variant: the wait ends with the start of the domain.
NoWaitForSsh(c) ==
  /\ wake[c] = "waiting" /\ Release /\ Go(c, "nc")
  /\ IF Answers THEN Hear(c) ELSE UNCHANGED heard
  /\ Elsewhere

\* wait_for_ssh, for five minutes at most: a boot is over by then.
WaitForSsh(c) ==
  /\ wake[c] = "waiting" /\ ~(Running /\ guest = "booting")
  /\ IF Answers THEN Release /\ Go(c, "nc") /\ Hear(c) /\ Elsewhere ELSE Die(c)

\* exec nc: there is a connection if sshd answers it.
Nc(c) ==
  /\ wake[c] = "nc"
  /\ IF Answers THEN Go(c, "connected") /\ UNCHANGED heard ELSE Go(c, "out") /\ Forget(c)
  /\ UNCHANGED lock /\ Elsewhere

Disconnect(c) ==
  /\ wake[c] = "connected" /\ Go(c, "out") /\ Forget(c)
  /\ vouched' = vouched \ {c} /\ missed' = missed \ {c} /\ met' = met \ {c}
  /\ UNCHANGED <<lock, host, upFor, guard, markers, pub, mark, ran, held, hit>>

Kill(c) == "kill" \in May /\ wake[c] \notin {"out", "connected"} /\ Die(c)

--------------------------------------------------------------------------------
(***************************************************************************)
(* The guest                                                               *)
(***************************************************************************)

Up == Running /\ guest = "up"

BootDone ==
  /\ Running /\ guest = "booting" /\ guest' = "up"
  /\ UNCHANGED <<dom, image, lock, waking, guard, markers, publish, held, history>>

\* uibox-idle-mark, once every period: it touches `alive` and looks for reasons.
\* Load and traffic, which can only add to the reasons, are left out.
PublishLook ==
  /\ Up /\ pub = "idle" /\ ~ran /\ pub' = "looked"
  /\ alive' = 0
  /\ met' = Connected \cup (IF keep > 0 THEN Inside ELSE {})
  /\ mark' = (keep > 0 \/ Connected # {})
  /\ UNCHANGED <<busy, keep, ran, host, lock, waking, guard, held, history>>

\* And it touches `busy`, if it found a reason.
PublishMark ==
  /\ Up /\ pub = "looked" /\ pub' = "idle" /\ ran' = TRUE
  /\ busy' = IF mark \/ busy = Absent THEN 0 ELSE busy
  /\ vouched' = vouched \cup met /\ missed' = missed \ met
  /\ UNCHANGED <<alive, keep, mark, met, host, lock, waking, guard, held, upFor, hit>>

\* It ends on the first command that fails, `alive` touched and `busy` not.
PublishBreaks ==
  /\ Publisher = "halfway"
  /\ Up /\ pub = "looked" /\ pub' = "idle" /\ ran' = TRUE
  /\ vouched' = vouched \ met /\ missed' = missed \cup met
  /\ UNCHANGED <<markers, mark, met, host, lock, waking, guard, held, upFor, hit>>

\* It stops for good: a share that has gone, a timer that is off.
PublishDies ==
  /\ Publisher = "mortal"
  /\ Up /\ pub # "dead" /\ pub' = "dead"
  /\ UNCHANGED <<markers, mark, met, ran, host, lock, waking, guard, held, history>>

\* uibox-keepalive: it holds the lab, again and again while its command runs, and
\* its EXIT trap removes the one `keepalive` that all share.
CommandStarts(k) ==
  /\ Up /\ Connected # {} /\ command[k] = "new"
  /\ command' = [command EXCEPT ![k] = "running"]
  /\ refreshed' = [refreshed EXCEPT ![k] = 0] /\ keep' = CmdHold
  /\ UNCHANGED <<alive, busy, publish, host, lock, waking, guard, history>>

\* Faulty variant: the hold is taken once.
RefreshNothing(k) ==
  /\ Up /\ command[k] = "running" /\ refreshed[k] = RefreshEvery
  /\ refreshed' = [refreshed EXCEPT ![k] = 0]
  /\ UNCHANGED <<markers, publish, command, host, lock, waking, guard, history>>

Refresh(k) ==
  /\ Up /\ command[k] = "running" /\ refreshed[k] = RefreshEvery
  /\ refreshed' = [refreshed EXCEPT ![k] = 0] /\ keep' = CmdHold
  /\ UNCHANGED <<alive, busy, publish, command, host, lock, waking, guard, history>>

CommandEnds(k) ==
  /\ Up /\ command[k] = "running"
  /\ command' = [command EXCEPT ![k] = "done"] /\ keep' = 0
  /\ vouched' = vouched \ {k} /\ missed' = missed \ {k} /\ met' = met \ {k}
  /\ UNCHANGED <<alive, busy, pub, mark, ran, refreshed, host, lock, waking, guard, upFor, hit>>

Crash ==
  /\ "crash" \in May /\ Running
  /\ dom' = "crashed" /\ guest' = "none" /\ Cut
  /\ UNCHANGED <<image, lock, guard, markers, pub, mark, ran, held, upFor, hit>>

\* The guest of a domain that was told to shut down has stopped its services,
\* and then it is off.
PowersOff ==
  /\ \/ Running /\ guest = "halting" /\ dom' = "in shutdown" /\ UNCHANGED guest
     \/ dom = "in shutdown" /\ dom' = "shut off" /\ guest' = "none"
  /\ UNCHANGED <<image, lock, waking, guard, markers, publish, held, history>>

--------------------------------------------------------------------------------
(***************************************************************************)
(* ui-box-idle-stop                                                        *)
(***************************************************************************)

Ends(result) == stop' = "idle" /\ unit' = result
Unmoved      == UNCHANGED <<host, waking, markers, publish, held, history>>

\* The domain does not run.
CheckDown ==
  /\ stop = "idle" /\ ~Running
  /\ unpublished' = Absent /\ Ends("ok")
  /\ UNCHANGED lock /\ Unmoved

\* The guest has never published.
CheckSilent ==
  /\ stop = "idle" /\ Running /\ alive = Absent
  /\ unpublished' = IF unpublished = Absent THEN 0 ELSE unpublished
  /\ Ends(IF unpublished' > FaultAfter THEN "failed" ELSE "ok")
  /\ UNCHANGED lock /\ Unmoved

\* Its last word is old.
CheckStale ==
  /\ stop = "idle" /\ Running /\ alive # Absent /\ alive > AliveMax
  /\ unpublished' = Absent
  /\ Ends(IF alive > FaultAfter THEN "failed" ELSE "ok")
  /\ UNCHANGED lock /\ Unmoved

\* It lives: is it held, or has it been busy?
CheckIdle ==
  /\ stop = "idle" /\ Running /\ alive <= AliveMax
  /\ unpublished' = Absent
  /\ IF keep > 0 \/ busy = Absent \/ busy < Idle
       THEN Ends("ok")
       ELSE stop' = "checked" /\ UNCHANGED unit
  /\ UNCHANGED lock /\ Unmoved

\* `flock -w 5`.
AskLock ==
  /\ stop = "checked"
  /\ IF lock = "free" THEN lock' = "idle-stop" /\ stop' = "locked" /\ UNCHANGED unit
                      ELSE Ends("ok") /\ UNCHANGED lock
  /\ UNCHANGED unpublished /\ Unmoved

\* Faulty variant: only the domain is looked at again.
StillRunning == Running

\* The checks that are made again under the lock.
StillIdle == Running /\ busy >= Idle

\* Faulty variant: the lock stays taken.
BackOffWithLock ==
  /\ stop = "locked" /\ ~StillIdle
  /\ Ends("ok")
  /\ UNCHANGED <<lock, unpublished>> /\ Unmoved

BackOff ==
  /\ stop = "locked" /\ ~StillIdle
  /\ Release /\ Ends("ok")
  /\ UNCHANGED unpublished /\ Unmoved

\* Who is cut off, by what the publisher knew of them.
Strike ==
  /\ hit' = [seen |-> Inside \cap vouched, new |-> Inside \ (vouched \cup missed)]
  /\ Cut

Halts == guest' = IF guest = "up" THEN "halting" ELSE guest

\* managedsave pauses the domain while it writes the image.
Save ==
  /\ stop = "locked" /\ StillIdle /\ StopBy = "managedsave"
  /\ stop' = "saving" /\ dom' = "paused" /\ Strike
  /\ UNCHANGED <<guest, image, lock, unit, unpublished, markers, pub, mark, ran, held, upFor>>

Saved ==
  /\ stop = "saving" /\ dom' = "shut off" /\ image' = TRUE
  /\ Release /\ Ends("ok")
  /\ UNCHANGED <<guest, unpublished, waking, markers, publish, held, history>>

\* `virsh shutdown` returns at once.
SaveFails ==
  /\ "unsavable" \in May
  /\ stop = "saving" /\ dom' = "running" /\ Halts
  /\ Release /\ Ends("ok")
  /\ UNCHANGED <<image, unpublished, waking, markers, publish, held, history>>

\* By configuration, or because a save would not fit.
ShutDown ==
  /\ stop = "locked" /\ StillIdle /\ (StopBy = "shutdown" \/ "unsavable" \in May)
  /\ Halts /\ Strike /\ Release /\ Ends("ok")
  /\ UNCHANGED <<dom, image, unpublished, markers, pub, mark, ran, held, upFor>>

--------------------------------------------------------------------------------
(***************************************************************************)
(* The operator, who takes no lock, and time                               *)
(***************************************************************************)

JustUp ==
  /\ "up" \in May /\ ByState
  /\ UNCHANGED <<lock, waking, markers>> /\ Aside

JustDown ==
  /\ "down" \in May /\ Running /\ Cut
  /\ IF StopBy = "managedsave"
       THEN dom' = "shut off" /\ image' = TRUE /\ UNCHANGED guest
       ELSE Halts /\ UNCHANGED <<dom, image>>
  /\ UNCHANGED <<lock, guard, markers, pub, mark, ran, held, upFor, hit>>

\* Faulty variant: an age may pass the bound.
OlderUnbounded(age) == IF age # Absent THEN age + 1 ELSE age

Older(age) == IF age < Bound THEN age + 1 ELSE age

\* A period passes.  What ui-box-idle-stop and the publisher do is done in a moment,
\* but for the save; of a wake, all but the waiting.  The timers of a guest that is
\* up are on time.
Tick ==
  /\ stop \in {"idle", "saving"}
  /\ \A c \in Clients : wake[c] \notin {"locked", "started", "nc"}
  /\ Up => /\ pub = "dead" \/ (pub = "idle" /\ ran)
           /\ \A k \in Commands : command[k] = "running" => refreshed[k] < RefreshEvery
  /\ alive' = Older(alive) /\ busy' = Older(busy) /\ unpublished' = Older(unpublished)
  /\ keep' = IF keep > 0 THEN keep - 1 ELSE 0
  /\ upFor' = IF Running THEN Older(upFor) ELSE upFor
  /\ ran' = IF Up THEN FALSE ELSE ran
  /\ refreshed' = [k \in Commands |->
       IF Up /\ command[k] = "running" THEN refreshed[k] + 1 ELSE refreshed[k]]
  /\ UNCHANGED <<host, lock, waking, stop, unit, pub, mark, met, command,
                 vouched, missed, hit>>

WakeStep(c) == \/ LookAgain(c) \/ Refuse(c) \/ Start(c) \/ AfterShutdown(c)
               \/ Keepalive(c) \/ WaitForSsh(c) \/ Nc(c)

Wake(c)    == Look(c) \/ TakeLock(c) \/ WakeStep(c) \/ Disconnect(c) \/ Kill(c)
Check      == CheckDown \/ CheckSilent \/ CheckStale \/ CheckIdle
Stopping   == AskLock \/ BackOff \/ Save \/ Saved \/ SaveFails \/ ShutDown
Publishing == PublishLook \/ PublishMark \/ PublishBreaks \/ PublishDies
InCommand(k) == CommandStarts(k) \/ Refresh(k) \/ CommandEnds(k)

Next ==
  \/ \E c \in Clients : Wake(c)
  \/ \E k \in Commands : InCommand(k)
  \/ Check \/ Stopping \/ Publishing
  \/ BootDone \/ Crash \/ PowersOff \/ JustUp \/ JustDown \/ Tick

Spec == Init /\ [][Next]_vars

\* A process that was started goes on; flock serves whoever waits; timers fire.
\* Nobody has to connect, or to disconnect.
Fairness ==
  /\ SF_vars(Tick) /\ WF_vars(Publishing) /\ WF_vars(Check) /\ WF_vars(Stopping)
  /\ WF_vars(BootDone) /\ WF_vars(PowersOff)
  /\ \A c \in Clients : SF_vars(TakeLock(c)) /\ WF_vars(WakeStep(c))
  /\ \A k \in Commands : WF_vars(Refresh(k))

FairSpec == Spec /\ Fairness

--------------------------------------------------------------------------------
(***************************************************************************)
(* Properties                                                              *)
(***************************************************************************)

\* A connection that the publisher has met, in a run that went through, is never
\* cut off by an idle stop: not when the publisher has died since, nor when the
\* connection came while ui-box-idle-stop was at work.
ConnectionsAreSpared == hit.seen \cap Clients = {}

\* Nor is a command under uibox-keepalive, although nobody need be connected while
\* it runs and any other command that ends takes its hold away.
CommandsAreSpared == hit.seen \cap Commands = {}

\* "Never act on absent information: stopping a VM because its publisher broke is
\* worse than leaving it up" (ui-box-idle-stop): it does not find a lab idle whose
\* publisher, in its last run, broke off on somebody who is inside.
NeverOnABrokenRun ==
  [][stop = "idle" /\ stop' = "checked" => Inside \cap missed = {}]_vars

\* What the lock is there to prevent, by ui-box-idle-stop's comment: "a save
\* could land on a connection being established".
TheNewAreSpared == hit.new = {}

\* "start or restore the VM, wait for ssh, then become a nc to the guest" (the
\* first words of ui-box-wake): no wake becomes a nc before sshd has answered it.
NcAfterSsh == \A c \in Clients : wake[c] = "nc" => c \in heard

\* ui-box-idle-stop fails, for systemctl and `just doctor` to report, only when
\* the lab has been running, without publishing, for longer than the grace that
\* "has to clear a cold boot".
FaultsAfterGrace == [][unit = "ok" /\ unit' = "failed" => upFor > FaultAfter]_vars

\* A lab that nobody uses any more is stopped in the end, whatever markers and
\* holds were left on the share.
Unused == /\ \A c \in Clients : wake[c] = "out"
          /\ \A k \in Commands : command[k] # "running"
UnusedLabStops == <>[]Unused => <>[]~Running

\* Every wake ends: with a connection, or with an error.
WakesEnd == \A c \in Clients : wake[c] # "out" ~> wake[c] \in {"out", "connected"}
================================================================================
