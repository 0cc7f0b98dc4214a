----------------------------- MODULE ReplayProofs -----------------------------
(***************************************************************************)
(* Theorems about Replay, for all worlds, command lines and faults, and    *)
(* for any number of flows with steps of any number and kind.              *)
(***************************************************************************)
EXTENDS Replay, SequenceTheorems, TLAPS

\* What the invocation can be at, with a flow in hand.
Working == {"flow", "spawn", "steps", "compare", "finish", "next"}
Settled == {"pass", "nothing", "fail"}

Shot  == [at : Nat, look : Looks]
Count == [failed : Nat, nothing : Nat, differ : Nat, compared : Nat]
Tally == [failed : Nat, nothing : Nat]

CaseTyped  == case \in Cases /\ holder \in {"none", "session", "foreign"}
GoldTyped  == golden \in [Pictures -> Looks \cup {NoGolden}]
FlowTyped  == /\ pc \in Working \cup {"start", "done"}
              /\ flow \in 1 .. Len(Flows) + 1
              /\ pc \in Working => flow \in DOMAIN Flows
StepTyped  == /\ step \in Nat /\ shots \in Seq(Shot) /\ count \in Count
              /\ halted \in BOOLEAN /\ failure \in BOOLEAN
              /\ flow \in DOMAIN Flows => /\ step \in 1 .. Len(Steps) + 1
                                          /\ Len(shots) < step
                                          /\ count.failed + count.nothing < step
MetaTyped  == meta \in [DOMAIN Flows -> Verdicts4] /\ driver \subseteq {"up", "orphan"}
TallyTyped ==
  /\ tally \in Tally
  /\ tally.failed + tally.nothing <=
       flow - (IF (pc = "next" /\ ~failure) \/ outcome = "killed" THEN 0 ELSE 1)
EndTyped   == /\ met \subseteq {"ui", "nothing", "tool"}
              /\ outcome \in Settled \cup {"none", "skipped", "error", "killed"}
              /\ outcome = "none" <=> pc # "done"

TypeInv == /\ CaseTyped /\ GoldTyped /\ FlowTyped /\ StepTyped /\ MetaTyped /\ TallyTyped
           /\ EndTyped

\* How far the steps of a flow have come.
StepsInv ==
  /\ halted => failure \/ count.failed + count.nothing > 0
  /\ pc \in {"compare", "finish", "next"} => halted \/ step > Len(Steps)
  /\ pc = "compare" => Verify /\ ~failure /\ shots # <<>>
  /\ pc \in {"finish", "next"} /\ Verify /\ ~failure => shots = <<>>
  /\ failure => pc \in {"steps", "finish", "next", "done"}
  /\ pc \in {"start", "flow", "spawn"} => count = NoCount

\* The run directories: those of flows that are over, of this flow, and of those to come.
Counted(f) == f < flow \/ (f = flow /\ pc = "next" /\ ~failure)

MetaInv ==
  /\ \A f \in DOMAIN Flows : (f < flow => meta[f] \in Settled) /\ (f > flow => meta[f] = "none")
  /\ pc \in {"start", "flow"} => \A f \in DOMAIN Flows : f = flow => meta[f] = "none"
  /\ pc \in {"spawn", "steps", "compare", "finish"} => meta[flow] = "open"
  /\ pc = "next" => meta[flow] = Verdict
  /\ pc = "start" => flow = 1

TallyInv ==
  outcome # "killed" =>
    /\ tally.failed > 0 <=> \E f \in DOMAIN Flows : Counted(f) /\ meta[f] = "fail"
    /\ tally.nothing > 0 <=> \E f \in DOMAIN Flows : Counted(f) /\ meta[f] = "nothing"

\* What was met, as long as the invocation goes on.
MetInv ==
  pc # "done" =>
    /\ "tool" \in met <=> failure
    /\ ~failure => ("ui" \in met <=> tally.failed + count.failed + count.differ > 0)
    /\ "nothing" \in met => tally.failed + tally.nothing + count.nothing > 0
    /\ tally.nothing + count.nothing > 0 => "nothing" \in met

\* How it ended.
EndInv ==
  /\ outcome \in Settled => flow = Len(Flows) + 1 /\ outcome = Summed
  /\ outcome = "pass" => met = {}
  /\ outcome = "nothing" => met = {"nothing"}
  /\ outcome = "fail" => "ui" \in met /\ "tool" \notin met
  /\ outcome = "error" => /\ "tool" \in met
                          /\ Flows # <<>> => flow \in DOMAIN Flows /\
                                             meta[flow] \in {"none", "open", "error"}
  /\ outcome = "skipped" => \A f \in DOMAIN Flows : meta[f] = "none"

\* What stood before a page.
Cleared == Guard(w) = "ok" /\ ProbeBackend(w) /\ Resolved(w, w.surface) /\ w.artifacts

DoctorInv == /\ pc = "spawn" => Cleared
             /\ "up" \in driver => Cleared /\ Opens(w)

ReplayInv == StepsInv /\ MetaInv /\ TallyInv /\ MetInv /\ EndInv /\ DoctorInv

LEMMA Constants ==
  /\ Cases \subseteq Case /\ Looks \subseteq Nat
  /\ \A c \in Cases : c.verb = "run" => Len(c.flows) <= 1
BY ReplayOK

\* The flows of an invocation, and the steps of each.
Flow == [valid : BOOLEAN, steps : Seq(StepKinds)]

LEMMA FlowsTyped ==
  ASSUME CaseTyped
  PROVE  /\ Flows \in Seq(Flow) /\ Len(Flows) \in Nat /\ DOMAIN Flows = 1 .. Len(Flows)
         /\ \A f \in DOMAIN Flows :
              /\ Flows[f].steps \in Seq(StepKinds) /\ Len(Flows[f].steps) \in Nat
              /\ DOMAIN Flows[f].steps = 1 .. Len(Flows[f].steps)
         /\ case.verb = "run" => Len(Flows) <= 1
         /\ w \in World /\ case.verb \in {"run", "verify"}
<1>1. case \in Case
  BY Constants DEF CaseTyped
<1>2. Flows \in Seq(Flow) /\ w \in World /\ case.verb \in {"run", "verify"}
  BY <1>1 DEF Case, Flows, Flow, w
<1>3. Len(Flows) \in Nat /\ DOMAIN Flows = 1 .. Len(Flows)
  BY <1>2
<1>4. \A f \in DOMAIN Flows : Flows[f] \in Flow
  BY <1>2
<1>5. \A f \in DOMAIN Flows : Flows[f].steps \in Seq(StepKinds)
  BY <1>4 DEF Flow
<1>6. case.verb = "run" => Len(Flows) <= 1
  BY Constants DEF CaseTyped, Flows
<1> QED BY <1>2, <1>3, <1>5, <1>6

LEMMA TypeInvOK == TypeInv => TypeOK
<1> SUFFICES ASSUME TypeInv PROVE TypeOK
  OBVIOUS
<1>1. case \in Case /\ holder \in {"none", "session", "foreign"}
  BY Constants DEF TypeInv, CaseTyped
<1>2. outcome \in Happenings \cup {"none"}
  BY DEF TypeInv, EndTyped, Settled, Happenings, Mishaps
<1> QED BY <1>1, <1>2 DEF TypeInv, TypeOK, GoldTyped, FlowTyped, Working, StepTyped, MetaTyped,
           TallyTyped, EndTyped

-----------------------------------------------------------------------------
(* Types                                                                    *)

\* What is left alone keeps its type.
LEMMA Frames ==
  ASSUME TypeInv, case' = case
  PROVE  /\ holder' = holder => CaseTyped'
         /\ golden' = golden => GoldTyped'
         /\ flow' = flow /\ UNCHANGED running => StepTyped'
         /\ meta' = meta /\ driver' = driver => MetaTyped'
         /\ pc' \in Working \cup {"done"} /\ pc # "start" /\ pc # "done" /\ flow' = flow =>
              FlowTyped'
<1>1. holder' = holder => CaseTyped'
  BY DEF TypeInv, CaseTyped
<1>2. golden' = golden => GoldTyped'
  BY DEF TypeInv, GoldTyped, Pictures, Flows
<1>3. flow' = flow /\ UNCHANGED running => StepTyped'
  BY DEF TypeInv, StepTyped, running, Flows, Steps
<1>4. meta' = meta /\ driver' = driver => MetaTyped'
  BY DEF TypeInv, MetaTyped, Flows
<1>5. pc' \in Working \cup {"done"} /\ pc # "start" /\ pc # "done" /\ flow' = flow => FlowTyped'
  BY DEF TypeInv, FlowTyped, Flows
<1> QED BY <1>1, <1>2, <1>3, <1>4, <1>5

\* An error that ends the invocation.
LEMMA ErrTyped ==
  ASSUME TypeInv, NEW truths \in SUBSET {"ui", "nothing"}, Err(truths), pc # "next", pc # "done",
         tally' = tally, flow' = flow
  PROVE  EndTyped' /\ TallyTyped' /\ driver' \subseteq {"up", "orphan"}
<1>1. outcome = "none" /\ outcome' = "error" /\ pc' = "done"
  BY DEF TypeInv, EndTyped, Err
<1>2. EndTyped'
  BY <1>1 DEF TypeInv, EndTyped, Err
<1>3. TallyTyped'
  BY <1>1 DEF TypeInv, TallyTyped
<1>4. driver' \subseteq {"up", "orphan"}
  BY DEF TypeInv, MetaTyped, Err, Drops
<1> QED BY <1>2, <1>3, <1>4

\* The drivers, after the one of this flow was closed.
LEMMA ClosesTyped ==
  ASSUME TypeInv, Closes
  PROVE  driver' \subseteq {"up", "orphan"}
BY DEF TypeInv, MetaTyped, Closes

\* An invocation that goes on, and counts nothing.
LEMMA GoesTyped ==
  ASSUME TypeInv, pc \notin {"done", "next"}, pc' \notin {"done", "next"},
         UNCHANGED <<outcome, tally, flow>>, met' \subseteq {"ui", "nothing", "tool"}
  PROVE  EndTyped' /\ TallyTyped'
<1>1. outcome = "none"
  BY DEF TypeInv, EndTyped
<1> QED BY <1>1 DEF TypeInv, EndTyped, TallyTyped

\* An invocation that has ended without a sum.
LEMMA DoneTyped ==
  ASSUME TypeInv, pc \notin {"start", "done"}, pc' = "done",
         outcome' = "killed" \/ (outcome' = "error" /\ (pc = "next" => failure)),
         met' \in {met, met \cup {"tool"}}, UNCHANGED <<case, flow, tally>>
  PROVE  FlowTyped' /\ EndTyped' /\ TallyTyped'
<1>1. FlowTyped'
  BY Frames
<1>2. EndTyped'
  BY DEF TypeInv, EndTyped
<1>3. TallyTyped'
  <2>1. tally.failed \in Nat /\ tally.nothing \in Nat /\ flow \in Nat /\ outcome = "none"
    BY FlowsTyped DEF TypeInv, TallyTyped, Tally, FlowTyped, EndTyped
  <2> QED BY <2>1 DEF TypeInv, TallyTyped
<1> QED BY <1>1, <1>2, <1>3

LEMMA InitTyped == Init => TypeInv
<1> SUFFICES ASSUME Init PROVE TypeInv
  OBVIOUS
<1>1. CaseTyped /\ GoldTyped
  BY DEF Init, CaseTyped, GoldTyped
<1>2. flow = 1 /\ Len(Flows) \in Nat /\ flow \in 1 .. Len(Flows) + 1
  BY <1>1, FlowsTyped DEF Init
<1>3. FlowTyped
  BY <1>2 DEF Init, FlowTyped, Working
<1>4. StepTyped
  <2>1. shots \in Seq(Shot) /\ Len(shots) = 0 /\ count \in Count /\ count.failed + count.nothing = 0
    BY DEF Init, NoCount, Count
  <2>2. flow \in DOMAIN Flows => Len(Steps) \in Nat
    BY <1>1, FlowsTyped DEF Steps
  <2>3. step = 1 /\ halted \in BOOLEAN /\ failure \in BOOLEAN
    BY DEF Init
  <2> QED BY <2>1, <2>2, <2>3 DEF StepTyped
<1>5. MetaTyped /\ TallyTyped /\ EndTyped
  BY <1>2 DEF Init, MetaTyped, Verdicts4, TallyTyped, Tally, EndTyped
<1> QED BY <1>1, <1>3, <1>4, <1>5 DEF TypeInv

LEMMA StartTyped ==
  ASSUME TypeInv, StepsInv, MetaInv, Start
  PROVE  TypeInv'
<1>1. UNCHANGED <<case, holder, golden, flow, running, meta, tally>> /\ pc = "start"
  BY DEF Start, others
<1>2. Flows = <<>> \/ 1 \in DOMAIN Flows
  BY FlowsTyped DEF TypeInv
<1>3. FlowTyped' /\ EndTyped' /\ TallyTyped' /\ driver' \subseteq {"up", "orphan"}
  <2>1. CASE pc' = "flow" /\ Flows # <<>> /\ UNCHANGED <<outcome, met, driver>>
    <3>1. FlowTyped'
      BY <1>1, <1>2, <2>1 DEF TypeInv, FlowTyped, Flows, Working, MetaInv
    <3> QED BY <1>1, <2>1, <3>1, GoesTyped DEF TypeInv, EndTyped, MetaTyped
  <2>2. CASE End("skipped") /\ met' = met \cup {"nothing"} /\ UNCHANGED driver
    <3>1. FlowTyped'
      BY <1>1, <2>2 DEF TypeInv, FlowTyped, Flows, Working, End
    <3>2. EndTyped'
      BY <2>2 DEF TypeInv, EndTyped, End
    <3>3. TallyTyped'
      BY <1>1, <2>2 DEF TypeInv, TallyTyped, EndTyped, End
    <3> QED BY <2>2, <3>1, <3>2, <3>3 DEF TypeInv, MetaTyped
  <2>3. CASE Err({})
    <3>1. FlowTyped'
      BY <1>1, <2>3 DEF TypeInv, FlowTyped, Flows, Working, Err
    <3> QED BY <1>1, <2>3, <3>1, ErrTyped
  <2> QED BY <2>1, <2>2, <2>3 DEF Start
<1>4. MetaTyped'
  BY <1>1, <1>3 DEF TypeInv, MetaTyped, Flows
<1> QED BY <1>1, <1>3, <1>4, Frames DEF TypeInv

LEMMA BeginTyped ==
  ASSUME TypeInv, Begin
  PROVE  TypeInv'
<1>1. UNCHANGED <<case, holder, golden, flow, running, tally>> /\ pc = "flow"
  BY DEF Begin, others
<1>2. FlowTyped' /\ EndTyped' /\ TallyTyped' /\ MetaTyped'
  <2>1. CASE Err({}) /\ UNCHANGED meta
    <3>1. FlowTyped'
      BY <1>1, <2>1, Frames DEF Err
    <3> QED BY <1>1, <2>1, <3>1, ErrTyped DEF TypeInv, MetaTyped, Flows
  <2>2. CASE /\ pc' = "spawn" /\ meta' = [meta EXCEPT ![flow] = "open"]
             /\ UNCHANGED <<outcome, met, driver>>
    <3>1. FlowTyped'
      BY <1>1, <2>2, Frames DEF Working
    <3>2. MetaTyped'
      BY <1>1, <2>2 DEF TypeInv, MetaTyped, Flows, Verdicts4
    <3> QED BY <1>1, <2>2, <3>1, <3>2, GoesTyped DEF TypeInv, EndTyped
  <2> QED BY <2>1, <2>2 DEF Begin
<1> QED BY <1>1, <1>2, Frames DEF TypeInv

LEMMA WritesTyped ==
  ASSUME TypeInv, case' = case, Writes("error"), driver' \subseteq {"up", "orphan"}
  PROVE  MetaTyped'
BY DEF TypeInv, MetaTyped, Writes, Verdicts4, Flows

LEMMA SpawnTyped ==
  ASSUME TypeInv, Spawn
  PROVE  TypeInv'
<1>1. UNCHANGED <<case, holder, golden, flow, running, tally>> /\ pc = "spawn"
  BY DEF Spawn, others
<1>2. FlowTyped' /\ EndTyped' /\ TallyTyped' /\ MetaTyped'
  <2>1. CASE Err({}) /\ (meta' = meta \/ Writes("error"))
    <3>1. FlowTyped'
      BY <1>1, <2>1, Frames DEF Err
    <3>2. EndTyped' /\ TallyTyped' /\ driver' \subseteq {"up", "orphan"}
      BY <1>1, <2>1, ErrTyped
    <3>3. MetaTyped'
      BY <1>1, <2>1, <3>2, WritesTyped DEF TypeInv, MetaTyped, Flows
    <3> QED BY <3>1, <3>2, <3>3
  <2>2. CASE Broken /\ Writes("error") /\ (Closes \/ UNCHANGED driver)
    <3>1. driver' \subseteq {"up", "orphan"}
      BY <2>2, ClosesTyped DEF TypeInv, MetaTyped
    <3>2. MetaTyped'
      BY <1>1, <2>2, <3>1, WritesTyped
    <3> QED BY <1>1, <2>2, <3>2, DoneTyped DEF Broken
  <2>3. CASE pc' = "steps" /\ driver' = driver \cup {"up"} /\ UNCHANGED <<outcome, met, meta>>
    <3>1. FlowTyped'
      BY <1>1, <2>3, Frames DEF Working
    <3>2. MetaTyped'
      BY <1>1, <2>3 DEF TypeInv, MetaTyped, Flows
    <3> QED BY <1>1, <2>3, <3>1, <3>2, GoesTyped DEF TypeInv, EndTyped
  <2> QED BY <2>1, <2>2, <2>3 DEF Spawn
<1> QED BY <1>1, <1>2, Frames DEF TypeInv

\* What is in hand at a step.
LEMMA AtStepHas ==
  ASSUME TypeInv, AtStep
  PROVE  /\ pc = "steps" /\ flow \in DOMAIN Flows /\ Len(Steps) \in Nat /\ ~halted
         /\ step \in 1 .. Len(Steps) /\ Len(shots) \in Nat /\ Len(shots) < step
         /\ count.failed \in Nat /\ count.nothing \in Nat
         /\ count.differ \in Nat /\ count.compared \in Nat
         /\ count.failed + count.nothing < step
<1>1. flow \in DOMAIN Flows /\ Len(Steps) \in Nat
  BY FlowsTyped DEF TypeInv, AtStep, FlowTyped, Working, Steps
<1>2. /\ step \in 1 .. Len(Steps) + 1 /\ Len(shots) < step
      /\ count.failed + count.nothing < step /\ shots \in Seq(Shot) /\ count \in Count
  BY <1>1 DEF TypeInv, StepTyped
<1> QED BY <1>1, <1>2 DEF AtStep, Count

\* A step is one more, and counts once.
LEMMA CountedTyped ==
  ASSUME TypeInv, AtStep, NEW a
  PROVE  LET c == CountStep(a) IN
         /\ c \in Count /\ c.differ = count.differ
         /\ c.failed = count.failed + (IF a = "fail" THEN 1 ELSE 0)
         /\ c.nothing = count.nothing + (IF a = "nothing" THEN 1 ELSE 0)
         /\ c.failed + c.nothing < step + 1
<1>1. CountStep(a) = [failed |-> count.failed + (IF a = "fail" THEN 1 ELSE 0),
                      nothing |-> count.nothing + (IF a = "nothing" THEN 1 ELSE 0),
                      differ |-> count.differ, compared |-> count.compared]
  BY DEF CountStep, Counts
<1> QED BY <1>1, AtStepHas DEF Count

\* After a step the flow is at the next one.
LEMMA StepTypedAfter ==
  ASSUME TypeInv, AtStep, UNCHANGED <<case, flow>>, step' = step + 1,
         shots' \in Seq(Shot), Len(shots') <= Len(shots) + 1,
         count' \in Count, count'.failed + count'.nothing < step + 1,
         halted' \in BOOLEAN, failure' \in BOOLEAN
  PROVE  StepTyped'
<1>1. step' \in 1 .. Len(Steps) + 1 /\ Len(shots') < step' /\ Len(shots') \in Nat
  BY AtStepHas
<1>2. count'.failed + count'.nothing < step'
  OBVIOUS
<1>3. Steps' = Steps
  BY DEF Steps, Flows
<1> QED BY <1>1, <1>2, <1>3 DEF StepTyped

LEMMA SkipOpenTyped ==
  ASSUME TypeInv, SkipOpen
  PROVE  TypeInv'
<1>1. /\ UNCHANGED <<case, holder, golden, flow, shots, count, halted, failure, meta, tally>>
      /\ AtStep /\ pc = "steps"
  BY DEF SkipOpen, others, AtStep
<1>2. CASE step' = step + 1 /\ UNCHANGED <<outcome, pc, met, driver>>
  <2>1. shots \in Seq(Shot) /\ Len(shots) \in Nat /\ count \in Count
    BY DEF TypeInv, StepTyped
  <2>2. StepTyped'
    BY <1>1, <1>2, <2>1, StepTypedAfter, AtStepHas DEF TypeInv, StepTyped
  <2>3. FlowTyped'
    BY <1>1, <1>2, Frames DEF Working
  <2>4. EndTyped' /\ TallyTyped'
    BY <1>1, <1>2, GoesTyped DEF TypeInv, EndTyped
  <2> QED BY <1>1, <1>2, <2>2, <2>3, <2>4, Frames DEF TypeInv
<1>3. CASE Err({}) /\ UNCHANGED step
  <2>1. FlowTyped'
    BY <1>1, <1>3, Frames DEF Err
  <2>2. EndTyped' /\ TallyTyped' /\ driver' \subseteq {"up", "orphan"}
    BY <1>1, <1>3, ErrTyped
  <2>3. MetaTyped'
    BY <1>1, <2>2 DEF TypeInv, MetaTyped, Flows
  <2> QED BY <1>1, <1>3, <2>1, <2>2, <2>3, Frames DEF TypeInv, running
<1> QED BY <1>2, <1>3 DEF SkipOpen

LEMMA SnapshotsTyped ==
  ASSUME TypeInv, NEW s \in Snapshots, AtStep
  PROVE  s \in Seq(Shot) /\ Len(s) <= Len(shots) + 1
<1>1. shots \in Seq(Shot) /\ Len(shots) \in Nat /\ step \in Nat
  BY DEF TypeInv, StepTyped
<1>2. CASE s = shots
  BY <1>1, <1>2
<1>3. CASE \E look \in Looks : s = Append(shots, [at |-> step, look |-> look])
  <2>1. PICK look \in Looks : s = Append(shots, [at |-> step, look |-> look])
    BY <1>3
  <2>2. [at |-> step, look |-> look] \in Shot
    BY <1>1 DEF Shot
  <2> QED BY <1>1, <2>1, <2>2
<1> QED BY <1>2, <1>3 DEF Snapshots

LEMMA PerformTyped ==
  ASSUME TypeInv, Perform \/ PerformFails
  PROVE  TypeInv'
<1>1. /\ UNCHANGED <<case, holder, golden, pc, flow, driver, meta, tally, outcome>>
      /\ AtStep /\ pc = "steps" /\ step' = step + 1
      /\ met' \subseteq {"ui", "nothing", "tool"}
  BY DEF Perform, PerformFails, others, AtStep, StepAfter, TypeInv, EndTyped
<1>2. StepTyped'
  <2>1. shots \in Seq(Shot) /\ Len(shots) \in Nat /\ count \in Count
    BY DEF TypeInv, StepTyped
  <2>2. shots' \in Seq(Shot) /\ Len(shots') <= Len(shots) + 1
    BY <1>1, <2>1, SnapshotsTyped DEF Perform, PerformFails
  <2>3. count' \in Count /\ count'.failed + count'.nothing < step + 1
    <3>1. count' = count \/ \E a : count' = CountStep(a)
      BY DEF Perform, PerformFails
    <3> QED BY <1>1, <2>1, <3>1, CountedTyped, AtStepHas
  <2>4. halted' \in BOOLEAN /\ failure' \in BOOLEAN
    BY DEF Perform, PerformFails, TypeInv, StepTyped
  <2> QED BY <1>1, <2>2, <2>3, <2>4, StepTypedAfter
<1>3. FlowTyped'
  BY <1>1, Frames DEF Working
<1>4. EndTyped' /\ TallyTyped'
  BY <1>1, GoesTyped
<1> QED BY <1>1, <1>2, <1>3, <1>4, Frames DEF TypeInv

LEMMA StepsOverTyped ==
  ASSUME TypeInv, StepsOver
  PROVE  TypeInv'
<1>1. /\ UNCHANGED <<case, holder, golden, flow, running, driver, meta, tally, outcome, met>>
      /\ pc = "steps" /\ pc' \in {"compare", "finish"}
  BY DEF StepsOver, others
<1>2. FlowTyped'
  BY <1>1, Frames DEF Working
<1>3. EndTyped' /\ TallyTyped'
  BY <1>1, GoesTyped DEF TypeInv, EndTyped
<1> QED BY <1>1, <1>2, <1>3, Frames DEF TypeInv

\* The picture that is compared next.
LEMMA HeadTyped ==
  ASSUME TypeInv, StepsInv, pc = "compare"
  PROVE  /\ Head(shots) \in Shot /\ Tail(shots) \in Seq(Shot) /\ Len(shots) \in Nat \ {0}
         /\ Len(Tail(shots)) = Len(shots) - 1
BY DEF TypeInv, StepTyped, StepsInv

LEMMA CompareTyped ==
  ASSUME TypeInv, StepsInv, Compare
  PROVE  TypeInv'
<1>1. /\ UNCHANGED <<case, holder, flow, step, halted, failure, driver, meta, tally, outcome>>
      /\ pc = "compare" /\ pc' \in {"finish", "compare"} /\ shots' = Tail(shots)
      /\ met' \subseteq {"ui", "nothing", "tool"}
  BY DEF Compare, TypeInv, EndTyped
<1>2. PICK shot \in Shot :
        golden' = IF Approves(shot) THEN [golden EXCEPT ![<<flow, shot.at>>] = shot.look]
                  ELSE golden
  BY <1>1, HeadTyped DEF Compare
<1>3. GoldTyped'
  <2>1. Pictures' = Pictures
    BY <1>1 DEF Pictures, Flows
  <2>2. shot.look \in Looks
    BY DEF Shot
  <2>3. golden' \in [Pictures -> Looks \cup {NoGolden}]
    BY <1>2, <2>2 DEF TypeInv, GoldTyped
  <2> QED BY <2>1, <2>3 DEF GoldTyped
<1>4. /\ count' \in Count /\ count'.failed = count.failed /\ count'.nothing = count.nothing
  <2>1. PICK a \in {0, 1}, b \in {0, 1} :
          count' = [failed |-> count.failed, nothing |-> count.nothing,
                    compared |-> count.compared + a, differ |-> count.differ + b]
    BY DEF Compare
  <2> QED BY <2>1 DEF TypeInv, StepTyped, Count
<1>5. StepTyped'
  <2>1. Steps' = Steps /\ Flows' = Flows
    BY <1>1 DEF Steps, Flows
  <2>2. /\ shots' \in Seq(Shot) /\ Len(shots') \in Nat /\ Len(shots) \in Nat
        /\ Len(shots') < Len(shots)
    BY <1>1, HeadTyped
  <2>3. flow \in DOMAIN Flows
    BY <1>1 DEF TypeInv, FlowTyped, Working
  <2> QED BY <1>1, <1>4, <2>1, <2>2, <2>3 DEF TypeInv, StepTyped
<1>6. FlowTyped'
  BY <1>1, Frames DEF Working
<1>7. EndTyped' /\ TallyTyped'
  BY <1>1, GoesTyped
<1> QED BY <1>1, <1>3, <1>5, <1>6, <1>7, Frames DEF TypeInv

LEMMA CompareFailsTyped ==
  ASSUME TypeInv, CompareFails
  PROVE  TypeInv'
<1>1. /\ UNCHANGED <<case, holder, golden, flow, running, tally>>
      /\ Writes("error") /\ driver' \subseteq {"up", "orphan"}
  BY ClosesTyped DEF CompareFails, others
<1>2. FlowTyped' /\ EndTyped' /\ TallyTyped'
  BY <1>1, DoneTyped DEF CompareFails, Broken
<1> QED BY <1>1, <1>2, WritesTyped, Frames DEF TypeInv

LEMMA FinishTyped ==
  ASSUME TypeInv, Finish
  PROVE  TypeInv'
<1> DEFINE Sum == [failed  |-> tally.failed + (IF Verdict = "fail" THEN 1 ELSE 0),
                   nothing |-> tally.nothing + (IF Verdict = "nothing" THEN 1 ELSE 0)]
<1>1. /\ UNCHANGED <<case, holder, golden, flow, running>> /\ pc = "finish"
      /\ driver' \subseteq {"up", "orphan"}
  BY ClosesTyped DEF Finish, others
<1>2. \/ UNCHANGED <<meta, tally>> /\ Broken
      \/ /\ meta' = [meta EXCEPT ![flow] = Verdict] /\ tally' = Sum
         /\ pc' = "next" /\ UNCHANGED <<outcome, met>>
  BY DEF Finish
<1>3. MetaTyped'
  BY <1>1, <1>2 DEF TypeInv, MetaTyped, Flows, Verdict, Verdicts4
<1>4. CASE UNCHANGED <<meta, tally>> /\ Broken
  BY <1>1, <1>3, <1>4, DoneTyped, Frames DEF TypeInv, Broken
<1>5. CASE tally' = Sum /\ pc' = "next" /\ UNCHANGED <<outcome, met>>
  <2>1. FlowTyped'
    BY <1>1, <1>5, Frames DEF Working
  <2>2. EndTyped'
    BY <1>1, <1>5 DEF TypeInv, EndTyped
  <2>3. TallyTyped'
    <3>1. tally.failed \in Nat /\ tally.nothing \in Nat /\ flow \in Nat /\ outcome = "none"
      BY <1>1, FlowsTyped DEF TypeInv, TallyTyped, Tally, FlowTyped, EndTyped
    <3>2. tally.failed + tally.nothing <= flow - 1
      BY <1>1, <3>1 DEF TypeInv, TallyTyped
    <3>3. failure' = failure /\ (failure => Verdict = "error")
      BY <1>1 DEF running, Verdict
    <3>4. PICK a \in {0, 1}, b \in {0, 1} :
            /\ a + b <= (IF failure THEN 0 ELSE 1)
            /\ tally' = [failed |-> tally.failed + a, nothing |-> tally.nothing + b]
      BY <1>5, <3>3
    <3> QED BY <1>1, <1>5, <3>1, <3>2, <3>3, <3>4 DEF TallyTyped, Tally
  <2> QED BY <1>1, <1>3, <2>1, <2>2, <2>3, Frames DEF TypeInv
<1> QED BY <1>2, <1>4, <1>5

LEMMA SummedIn == Summed \in Settled
BY DEF Summed, Settled

LEMMA NextFlowTyped ==
  ASSUME TypeInv, NextFlow, ~failure
  PROVE  TypeInv'
<1>1. /\ UNCHANGED <<case, holder, golden, driver, meta, tally, met>> /\ pc = "next"
      /\ flow' = flow + 1 /\ step' = 1 /\ shots' = <<>> /\ count' = NoCount
      /\ halted' = FALSE /\ failure' = FALSE
  BY DEF NextFlow, others
<1>2. /\ flow \in Nat /\ flow \in 1 .. Len(Flows) /\ Len(Flows) \in Nat /\ outcome = "none"
      /\ tally.failed \in Nat /\ tally.nothing \in Nat /\ tally.failed + tally.nothing <= flow
  BY <1>1, FlowsTyped DEF TypeInv, FlowTyped, Working, EndTyped, TallyTyped, Tally
<1>3. \/ pc' = "flow" /\ flow < Len(Flows) /\ outcome' = outcome
      \/ pc' = "done" /\ outcome' = Summed
  BY DEF NextFlow, End
<1>4. FlowTyped'
  <2>1. Flows' = Flows
    BY <1>1 DEF Flows
  <2> QED BY <1>1, <1>2, <1>3, <2>1, FlowsTyped DEF TypeInv, FlowTyped, Working
<1>5. StepTyped'
  <2>1. /\ shots' \in Seq(Shot) /\ Len(shots') = 0 /\ count' \in Count
        /\ count'.failed + count'.nothing = 0
    BY <1>1 DEF NoCount, Count
  <2>2. flow' \in DOMAIN Flows' => Len(Steps)' \in Nat
    BY <1>1, FlowsTyped DEF TypeInv, Steps, Flows
  <2>3. flow' \in DOMAIN Flows' => 1 \in 1 .. Len(Steps)' + 1
    BY <2>2
  <2>4. step' \in Nat /\ halted' \in BOOLEAN /\ failure' \in BOOLEAN
    BY <1>1
  <2>5. Len(shots') < step' /\ count'.failed + count'.nothing < step'
    BY <1>1, <2>1
  <2>6. flow' \in DOMAIN Flows' => step' \in 1 .. Len(Steps)' + 1
    BY <1>1, <2>3
  <2> QED BY <2>1, <2>4, <2>5, <2>6 DEF StepTyped
<1>6. EndTyped'
  BY <1>1, <1>2, <1>3, SummedIn DEF TypeInv, EndTyped, Settled
<1>7. TallyTyped'
  <2>1. outcome' # "killed" /\ pc' # "next"
    BY <1>2, <1>3, SummedIn DEF Settled
  <2> QED BY <1>1, <1>2, <2>1 DEF TypeInv, TallyTyped
<1> QED BY <1>1, <1>4, <1>5, <1>6, <1>7, Frames DEF TypeInv

\* An error that is passed up after its flow was written down.
LEMMA NextFailsTyped ==
  ASSUME TypeInv, NextFlow, failure
  PROVE  TypeInv'
<1>1. /\ UNCHANGED <<case, holder, golden, driver, meta, tally, met, flow, running>> /\ pc = "next"
      /\ pc' = "done" /\ outcome' = "error"
  BY DEF NextFlow, others, End
<1>2. FlowTyped' /\ EndTyped' /\ TallyTyped'
  BY <1>1, DoneTyped
<1> QED BY <1>1, <1>2, Frames DEF TypeInv

LEMMA KilledTyped ==
  ASSUME TypeInv, MetaInv, Killed
  PROVE  TypeInv'
<1>1. /\ UNCHANGED <<case, holder, golden, flow, running, meta, tally>> /\ pc # "done"
      /\ outcome' = "killed" /\ pc' = "done" /\ met' = met \cup {"tool"}
      /\ driver' \subseteq {"up", "orphan"}
  BY DEF Killed, End, others, TypeInv, MetaTyped, Drops
<1>2. FlowTyped'
  BY <1>1 DEF TypeInv, FlowTyped, Flows, Working
<1>3. EndTyped'
  BY <1>1 DEF TypeInv, EndTyped
<1>4. TallyTyped'
  <2>1. tally.failed \in Nat /\ tally.nothing \in Nat /\ flow \in Nat
    BY FlowsTyped DEF TypeInv, TallyTyped, Tally, FlowTyped
  <2> QED BY <1>1, <2>1 DEF TypeInv, TallyTyped
<1>5. MetaTyped'
  BY <1>1 DEF TypeInv, MetaTyped, Flows
<1> QED BY <1>1, <1>2, <1>3, <1>4, <1>5, Frames DEF TypeInv

LEMMA WorldTyped ==
  ASSUME TypeInv, DriverEnds \/ PortMoves \/ Approved \/ UNCHANGED vars
  PROVE  TypeInv'
<1>1. UNCHANGED <<case, pc, flow, step, shots, count, halted, failure, meta, tally, outcome, met>>
  BY DEF DriverEnds, PortMoves, Approved, vars, others, running
<1>2. FlowTyped' /\ EndTyped' /\ TallyTyped'
  BY <1>1 DEF TypeInv, FlowTyped, EndTyped, TallyTyped, Flows
<1>3. CaseTyped' /\ MetaTyped'
  BY <1>1 DEF DriverEnds, PortMoves, Approved, vars, others, TypeInv, CaseTyped, MetaTyped, Flows
<1>4. GoldTyped'
  <2>1. Pictures' = Pictures
    BY <1>1 DEF Pictures, Flows
  <2>2. golden' \in [Pictures -> Looks \cup {NoGolden}]
    BY DEF DriverEnds, PortMoves, Approved, vars, others, TypeInv, GoldTyped
  <2> QED BY <2>1, <2>2 DEF GoldTyped
<1>5. StepTyped'
  BY <1>1, Frames DEF running
<1> QED BY <1>2, <1>3, <1>4, <1>5 DEF TypeInv

LEMMA NextTyped ==
  ASSUME TypeInv, StepsInv, MetaInv, [Next]_vars
  PROVE  TypeInv'
BY StartTyped, BeginTyped, SpawnTyped, SkipOpenTyped, PerformTyped, StepsOverTyped, CompareTyped,
   CompareFailsTyped, FinishTyped, NextFlowTyped, NextFailsTyped, KilledTyped, WorldTyped DEF Next, Works

-----------------------------------------------------------------------------
(* How far the steps of a flow have come                                    *)

\* An invocation that stops leaves its steps where they are.
LEMMA StepsStop ==
  ASSUME StepsInv, UNCHANGED <<case, flow, running>>, pc' = "done"
  PROVE  StepsInv'
BY DEF StepsInv, running, Steps, Flows, Verify

LEMMA StepsStay ==
  ASSUME StepsInv, UNCHANGED <<case, flow, running>>, pc' = pc
  PROVE  StepsInv'
BY DEF StepsInv, running, Steps, Flows, Verify

LEMMA StepsStep ==
  ASSUME TypeInv, StepsInv, [Next]_vars
  PROVE  StepsInv'
<1>1. ASSUME Start \/ Begin \/ Spawn PROVE StepsInv'
  <2>1. UNCHANGED <<case, flow, running>> /\ pc \in {"start", "flow", "spawn"}
    BY <1>1 DEF Start, Begin, Spawn, others
  <2>2. pc' \in {"flow", "spawn", "steps", "done"}
    BY <1>1 DEF Start, Begin, Spawn, End, Err, Broken
  <2> QED BY <2>1, <2>2 DEF StepsInv, running
<1>2. ASSUME SkipOpen PROVE StepsInv'
  BY <1>2 DEF SkipOpen, AtStep, Err, others, StepsInv
<1>3. ASSUME Perform \/ PerformFails PROVE StepsInv'
  <2>1. AtStep /\ pc = "steps" /\ pc' = pc
    BY <1>3 DEF Perform, PerformFails, AtStep
  <2>2. halted' => failure' \/ count'.failed + count'.nothing > 0
    <3>1. CASE PerformFails
      BY <3>1 DEF PerformFails
    <3>2. CASE Perform
      <4>1. PICK a \in {"ok", "fail", "nothing"} : count' = CountStep(a) /\ (halted' => a # "ok")
        BY <3>2 DEF Perform, Answers
      <4> QED BY <2>1, <4>1, CountedTyped, AtStepHas
    <3> QED BY <1>3, <3>1, <3>2
  <2> QED BY <2>1, <2>2 DEF StepsInv
<1>4. ASSUME StepsOver PROVE StepsInv'
  <2>1. /\ UNCHANGED <<case, flow, running>> /\ pc = "steps" /\ (halted \/ step > Len(Steps))
        /\ pc' = IF Compares THEN "compare" ELSE "finish"
    BY <1>4 DEF StepsOver, others
  <2> QED BY <2>1 DEF StepsInv, running, Steps, Flows, Verify, Compares
<1>5. ASSUME Compare PROVE StepsInv'
  <2>1. /\ UNCHANGED <<case, flow, step, halted, failure>> /\ pc = "compare"
        /\ shots' = Tail(shots)
        /\ pc' = IF Len(shots) = 1 THEN "finish" ELSE "compare"
        /\ count'.failed = count.failed /\ count'.nothing = count.nothing
    BY <1>5 DEF Compare
  <2>2. shots \in Seq(Shot) /\ shots # <<>>
    BY <2>1 DEF TypeInv, StepTyped, StepsInv
  <2>3. (Len(shots) = 1 => Tail(shots) = <<>>) /\ (Len(shots) # 1 => Tail(shots) # <<>>)
    <3>1. Tail(shots) \in Seq(Shot) /\ Len(Tail(shots)) = Len(shots) - 1 /\ Len(shots) \in Nat
      BY <2>2, HeadTailProperties
    <3>2. Tail(shots) = <<>> <=> Len(Tail(shots)) = 0
      BY <3>1, EmptySeq
    <3> QED BY <3>1, <3>2
  <2> QED BY <2>1, <2>3 DEF StepsInv, Steps, Flows, Verify
<1>6. ASSUME Finish PROVE StepsInv'
  <2>1. /\ UNCHANGED <<case, flow, running>> /\ pc = "finish"
        /\ pc' \in {"done", "next"}
    BY <1>6 DEF Finish, others, Broken
  <2> QED BY <2>1 DEF StepsInv, running, Steps, Flows, Verify
<1>7. ASSUME NextFlow, ~failure PROVE StepsInv'
  <2>1. count' = NoCount /\ ~halted' /\ ~failure' /\ pc' \in {"flow", "done"}
    BY <1>7 DEF NextFlow, End
  <2> QED BY <2>1 DEF StepsInv
<1>8. CASE CompareFails \/ Killed \/ (NextFlow /\ failure)
  BY <1>8, StepsStop DEF CompareFails, Killed, NextFlow, Broken, End, others
<1>9. CASE DriverEnds \/ PortMoves \/ Approved \/ UNCHANGED vars
  BY <1>9, StepsStay DEF DriverEnds, PortMoves, Approved, vars, others, running
<1> QED BY <1>1, <1>2, <1>3, <1>4, <1>5, <1>6, <1>7, <1>8, <1>9 DEF Next, Works

-----------------------------------------------------------------------------
(* The run directories                                                      *)

\* The run directory of this flow is the only one that a step writes to.
LEMMA MetaElsewhere ==
  ASSUME TypeInv, MetaInv, UNCHANGED <<case, flow>>,
         meta' = meta \/ \E v : meta' = [meta EXCEPT ![flow] = v]
  PROVE  /\ \A f \in DOMAIN Flows' :
              (f < flow' => meta'[f] \in Settled) /\ (f > flow' => meta'[f] = "none")
         /\ \A f \in DOMAIN Flows : f # flow => meta'[f] = meta[f]
<1>1. /\ Flows' = Flows /\ flow \in Int /\ DOMAIN Flows \subseteq Int
      /\ meta \in [DOMAIN Flows -> Verdicts4]
  BY FlowsTyped DEF TypeInv, FlowTyped, Flows, MetaTyped
<1>2. \A f \in DOMAIN Flows : f # flow => meta'[f] = meta[f]
  BY <1>1
<1> QED BY <1>1, <1>2 DEF MetaInv

\* An invocation that stops writes down at most that.
LEMMA MetaStops ==
  ASSUME TypeInv, MetaInv, UNCHANGED <<case, flow>>, pc' = "done",
         meta' = meta \/ \E v : meta' = [meta EXCEPT ![flow] = v]
  PROVE  MetaInv'
BY MetaElsewhere DEF MetaInv

\* One that goes on without a word leaves them alone.
LEMMA MetaStays ==
  ASSUME TypeInv, MetaInv, UNCHANGED <<case, flow, meta>>,
         \/ pc' = pc /\ (pc = "next" => UNCHANGED <<failure, count>>)
         \/ pc \in {"spawn", "steps", "compare"} /\ pc' \in {"steps", "compare", "finish"}
         \/ pc = "start" /\ pc' = "flow"
  PROVE  MetaInv'
BY MetaElsewhere DEF MetaInv, Verdict, Flows

LEMMA MetaStep ==
  ASSUME TypeInv, StepsInv, MetaInv, [Next]_vars
  PROVE  MetaInv'
<1>1. ASSUME Start PROVE MetaInv'
  BY <1>1, MetaStops, MetaStays DEF Start, others, End, Err
<1>2. ASSUME Begin PROVE MetaInv'
  <2>1. UNCHANGED <<case, flow>> /\ pc = "flow"
    BY <1>2 DEF Begin, others
  <2>2. CASE Err({}) /\ UNCHANGED meta
    BY <2>1, <2>2, MetaStops DEF Err
  <2>3. CASE pc' = "spawn" /\ meta' = [meta EXCEPT ![flow] = "open"]
    <3>1. meta'[flow'] = "open"
      BY <2>1, <2>3 DEF TypeInv, MetaTyped, FlowTyped, Working
    <3> QED BY <2>1, <2>3, <3>1, MetaElsewhere DEF MetaInv
  <2> QED BY <1>2, <2>2, <2>3 DEF Begin
<1>3. ASSUME Spawn PROVE MetaInv'
  BY <1>3, MetaStops, MetaStays DEF Spawn, others, Err, Broken, Writes
<1>4. ASSUME SkipOpen PROVE MetaInv'
  BY <1>4, MetaStops, MetaStays DEF SkipOpen, others, Err, AtStep
<1>5. ASSUME Perform \/ PerformFails \/ StepsOver \/ Compare PROVE MetaInv'
  BY <1>5, MetaStays DEF Perform, PerformFails, StepsOver, Compare, others, AtStep
<1>6. ASSUME CompareFails PROVE MetaInv'
  BY <1>6, MetaStops DEF CompareFails, others, Writes, Broken
<1>7. ASSUME Finish PROVE MetaInv'
  <2>1. UNCHANGED <<case, flow, running>> /\ pc = "finish"
    BY <1>7 DEF Finish, others
  <2>2. CASE pc' = "done" /\ (meta' = meta \/ meta' = [meta EXCEPT ![flow] = Verdict])
    BY <2>1, <2>2, MetaStops
  <2>3. CASE pc' = "next" /\ meta' = [meta EXCEPT ![flow] = Verdict]
    <3>1. meta'[flow'] = Verdict
      BY <2>1, <2>3 DEF TypeInv, MetaTyped, FlowTyped, Working
    <3>2. Verdict' = Verdict
      BY <2>1 DEF Verdict, running
    <3> QED BY <2>1, <2>3, <3>1, <3>2, MetaElsewhere DEF MetaInv
  <2> QED BY <1>7, <2>2, <2>3 DEF Finish, Broken
<1>8. ASSUME NextFlow, ~failure PROVE MetaInv'
  <2>1. /\ case' = case /\ flow' = flow + 1 /\ meta' = meta /\ pc = "next"
        /\ pc' \in {"flow", "done"}
    BY <1>8 DEF NextFlow, others, End
  <2>2. meta[flow] \in Settled
    BY <1>8, <2>1 DEF MetaInv, StepsInv, Verdict, Settled
  <2>3. Flows' = Flows /\ flow \in Int /\ DOMAIN Flows \subseteq Int
    BY <2>1, FlowsTyped DEF TypeInv, FlowTyped, Flows
  <2>4. \A f \in DOMAIN Flows : /\ f < flow + 1 => meta[f] \in Settled
                                /\ f >= flow + 1 => meta[f] = "none"
    BY <2>2, <2>3 DEF MetaInv
  <2> QED BY <2>1, <2>3, <2>4 DEF MetaInv
<1>9. CASE Killed \/ (NextFlow /\ failure)
  BY <1>9, MetaStops DEF Killed, NextFlow, End, others
<1>10. CASE DriverEnds \/ PortMoves \/ Approved \/ UNCHANGED vars
  BY <1>10, MetaStays DEF DriverEnds, PortMoves, Approved, vars, others, running
<1> QED BY <1>1, <1>2, <1>3, <1>4, <1>5, <1>6, <1>7, <1>8, <1>9, <1>10 DEF Next, Works

-----------------------------------------------------------------------------
(* The sum over the flows                                                   *)

\* Flows that are over are not written to again.
LEMMA TallyStays ==
  ASSUME TypeInv, TallyInv, UNCHANGED <<case, flow, tally>>,
         outcome = "killed" => outcome' = "killed",
         pc' = "next" /\ ~failure' <=> pc = "next" /\ ~failure,
         pc = "next" => meta' = meta,
         \A f \in DOMAIN Flows : f # flow => meta'[f] = meta[f]
  PROVE  TallyInv'
<1>1. Flows' = Flows /\ flow \in Int /\ DOMAIN Flows \subseteq Int
  BY FlowsTyped DEF TypeInv, FlowTyped, Flows
<1>2. \A f \in DOMAIN Flows : /\ Counted(f)' <=> Counted(f)
                              /\ Counted(f) => meta'[f] = meta[f]
  BY <1>1 DEF Counted
<1> QED BY <1>1, <1>2 DEF TallyInv

LEMMA TallyFrame ==
  ASSUME TypeInv, MetaInv, [Next]_vars, ~NextFlow
  PROVE  /\ UNCHANGED <<case, flow>>
         /\ meta' = meta \/ \E v : meta' = [meta EXCEPT ![flow] = v]
         /\ pc = "next" => meta' = meta
         /\ outcome = "killed" => outcome' = "killed"
<1>1. UNCHANGED <<case, flow>>
  BY DEF Next, Works, Start, Begin, Spawn, SkipOpen, Perform, PerformFails, StepsOver, Compare,
     CompareFails, Finish, NextFlow, Killed, DriverEnds, PortMoves, Approved, others, vars
<1>2. /\ meta' = meta \/ \E v : meta' = [meta EXCEPT ![flow] = v]
      /\ pc = "next" => meta' = meta
  BY DEF Next, Works, Start, Begin, Spawn, SkipOpen, Perform, PerformFails, StepsOver, Compare,
     CompareFails, Finish, NextFlow, Killed, DriverEnds, PortMoves, Approved, vars, Writes
<1>3. outcome = "killed" => outcome' = "killed"
  <2>1. outcome = "killed" => pc = "done"
    BY DEF TypeInv, EndTyped
  <2> QED BY <2>1 DEF Next, Works, Start, Begin, Spawn, SkipOpen, Perform, PerformFails, StepsOver,
         Compare, CompareFails, Finish, NextFlow, Killed, DriverEnds, PortMoves, Approved, vars, End,
         Err, AtStep
<1> QED BY <1>1, <1>2, <1>3

LEMMA TallyStep ==
  ASSUME TypeInv, StepsInv, MetaInv, TallyInv, [Next]_vars
  PROVE  TallyInv'
<1>1. CASE Finish /\ pc' = "next"
  <2>1. /\ UNCHANGED <<case, flow, failure>> /\ pc = "finish" /\ outcome' = outcome /\ outcome # "killed"
        /\ meta' = [meta EXCEPT ![flow] = Verdict]
        /\ tally' = [failed  |-> tally.failed + (IF Verdict = "fail" THEN 1 ELSE 0),
                     nothing |-> tally.nothing + (IF Verdict = "nothing" THEN 1 ELSE 0)]
    BY <1>1 DEF Finish, Broken, others, running, TypeInv, EndTyped
  <2>2. /\ Flows' = Flows /\ flow \in DOMAIN Flows /\ DOMAIN Flows \subseteq Int
        /\ meta \in [DOMAIN Flows -> Verdicts4]
        /\ tally.failed \in Nat /\ tally.nothing \in Nat
    BY <2>1, FlowsTyped DEF TypeInv, FlowTyped, Flows, MetaTyped, Working, TallyTyped, Tally
  <2>3. \A f \in DOMAIN Flows :
          /\ Counted(f)' <=> Counted(f) \/ (f = flow /\ ~failure)
          /\ Counted(f) => f # flow
          /\ meta'[f] = IF f = flow THEN Verdict ELSE meta[f]
    BY <1>1, <2>1, <2>2 DEF Counted
  <2>4. tally'.failed > 0 <=> tally.failed > 0 \/ Verdict = "fail"
    BY <2>1, <2>2
  <2>5. tally'.nothing > 0 <=> tally.nothing > 0 \/ Verdict = "nothing"
    BY <2>1, <2>2
  <2>6. Verdict \in {"fail", "nothing"} => ~failure
    BY DEF Verdict
  <2> QED BY <2>1, <2>2, <2>3, <2>4, <2>5, <2>6 DEF TallyInv
<1>2. CASE NextFlow
  <2>1. /\ UNCHANGED <<case, meta, tally>> /\ pc = "next" /\ pc' # "next" /\ outcome # "killed"
        /\ flow' = IF failure THEN flow ELSE flow + 1
    BY <1>2 DEF NextFlow, others, End, TypeInv, EndTyped
  <2>2. Flows' = Flows /\ flow \in Int /\ DOMAIN Flows \subseteq Int /\ failure \in BOOLEAN
    BY <2>1, FlowsTyped DEF TypeInv, FlowTyped, StepTyped, Flows
  <2>3. \A f \in DOMAIN Flows : Counted(f)' <=> Counted(f)
    BY <2>1, <2>2 DEF Counted
  <2> QED BY <2>1, <2>2, <2>3 DEF TallyInv
<1>3. CASE ~NextFlow /\ ~(Finish /\ pc' = "next")
  <2>1. tally' = tally
    BY <1>3 DEF Next, Works, Start, Begin, Spawn, SkipOpen, Perform, PerformFails, StepsOver,
       Compare, CompareFails, Finish, Killed, DriverEnds, PortMoves, Approved, vars
  <2>2. CASE pc' = "next" <=> pc = "next"
    <3>1. pc = "next" /\ pc' = "next" => failure' = failure
      BY <1>3 DEF Next, Works, Start, Begin, Spawn, SkipOpen, Perform, PerformFails, StepsOver,
         Compare, CompareFails, Finish, Killed, DriverEnds, PortMoves, Approved, vars, running, AtStep
    <3> QED BY <1>3, <2>1, <2>2, <3>1, TallyFrame, MetaElsewhere, TallyStays
  <2>3. CASE pc' = "next" /\ pc # "next"
    BY <1>3, <2>3 DEF Next, Works, Start, Begin, Spawn, SkipOpen, Perform, PerformFails, StepsOver,
       Compare, CompareFails, Killed, DriverEnds, PortMoves, Approved, vars, End, Err, Broken, AtStep
  <2>4. CASE pc = "next" /\ pc' # "next"
    <3>1. outcome' = "killed"
      BY <1>3, <2>4 DEF Next, Works, Start, Begin, Spawn, SkipOpen, Perform, PerformFails,
         StepsOver, Compare, CompareFails, Finish, Killed, DriverEnds, PortMoves, Approved, vars,
         End, AtStep
    <3> QED BY <3>1 DEF TallyInv
  <2> QED BY <2>2, <2>3, <2>4
<1> QED BY <1>1, <1>2, <1>3

-----------------------------------------------------------------------------
(* What was met, and how it ends                                            *)

LEMMA NumbersTyped ==
  ASSUME TypeInv
  PROVE  /\ tally.failed \in Nat /\ tally.nothing \in Nat
         /\ count.failed \in Nat /\ count.nothing \in Nat /\ count.differ \in Nat
BY DEF TypeInv, StepTyped, TallyTyped, Count, Tally

LEMMA MetStays ==
  ASSUME MetInv, pc # "done", UNCHANGED <<met, failure, tally, count>>
  PROVE  MetInv'
BY DEF MetInv

\* At the end of a flow, what went wrong in it is in the sum.
LEMMA FlowIsSummed ==
  ASSUME TypeInv, StepsInv, MetaInv, TallyInv, pc = "next", ~failure
  PROVE  /\ outcome = "none"
         /\ count.failed + count.differ > 0 => tally.failed > 0
         /\ count.nothing > 0 => tally.failed + tally.nothing > 0
<1>1. outcome = "none" /\ meta[flow] = Verdict /\ flow \in DOMAIN Flows /\ Counted(flow)
  BY DEF TypeInv, StepsInv, MetaInv, EndTyped, FlowTyped, Working, Counted
<1>2. Verdict = "fail" => tally.failed > 0
  BY <1>1 DEF TallyInv
<1>3. Verdict = "nothing" => tally.nothing > 0
  BY <1>1 DEF TallyInv
<1> QED BY <1>1, <1>2, <1>3, NumbersTyped DEF Verdict

LEMMA MetStep ==
  ASSUME TypeInv, StepsInv, MetaInv, TallyInv, MetInv, [Next]_vars
  PROVE  MetInv'
<1>1. CASE pc' = "done"
  BY <1>1 DEF MetInv
<1>2. ASSUME Perform PROVE MetInv'
  <2>1. PICK a \in {"ok", "fail", "nothing"} :
          /\ count' = CountStep(a)
          /\ met' = IF a = "fail" THEN met \cup {"ui"}
                    ELSE IF a = "nothing" THEN met \cup {"nothing"} ELSE met
    BY <1>2 DEF Perform, Answers
  <2>2. AtStep /\ pc = "steps" /\ UNCHANGED <<pc, failure, tally>>
    BY <1>2 DEF Perform, AtStep
  <2>3. /\ count'.differ = count.differ
        /\ count'.failed = count.failed + (IF a = "fail" THEN 1 ELSE 0)
        /\ count'.nothing = count.nothing + (IF a = "nothing" THEN 1 ELSE 0)
    BY <2>1, <2>2, CountedTyped
  <2> QED BY <2>1, <2>2, <2>3, NumbersTyped DEF MetInv
<1>3. ASSUME PerformFails PROVE MetInv'
  <2>1. /\ AtStep /\ pc = "steps" /\ UNCHANGED <<pc, tally>> /\ failure' = TRUE
        /\ met' = met \cup {"tool"} /\ (count' = CountStep("fail") \/ count' = count)
    BY <1>3 DEF PerformFails, AtStep
  <2>2. count'.nothing = count.nothing
    BY <2>1, CountedTyped, NumbersTyped
  <2> QED BY <2>1, <2>2, NumbersTyped DEF MetInv
<1>4. ASSUME Compare PROVE MetInv'
  <2>1. PICK bad \in BOOLEAN :
          /\ count'.failed = count.failed /\ count'.nothing = count.nothing
          /\ count'.differ = count.differ + (IF bad THEN 1 ELSE 0)
          /\ met' = IF bad THEN met \cup {"ui"} ELSE met
    <3>1. PICK bad : bad = (Differs(Head(shots)) /\ ~Approves(Head(shots)))
      OBVIOUS
    <3>2. bad \in BOOLEAN
      BY <3>1
    <3>3. /\ count'.failed = count.failed /\ count'.nothing = count.nothing
          /\ count'.differ = count.differ + (IF bad THEN 1 ELSE 0)
          /\ met' = IF bad THEN met \cup {"ui"} ELSE met
      BY <1>4, <3>1 DEF Compare
    <3> QED BY <3>2, <3>3
  <2>2. pc = "compare" /\ ~failure /\ UNCHANGED <<failure, tally>>
    BY <1>4 DEF Compare, StepsInv
  <2> QED BY <2>1, <2>2, NumbersTyped DEF MetInv
<1>5. ASSUME Finish, pc' # "done" PROVE MetInv'
  <2>1. /\ pc = "finish" /\ UNCHANGED <<met, failure, count>>
        /\ tally' = [failed  |-> tally.failed + (IF Verdict = "fail" THEN 1 ELSE 0),
                     nothing |-> tally.nothing + (IF Verdict = "nothing" THEN 1 ELSE 0)]
    BY <1>5 DEF Finish, Broken, running
  <2>2. /\ tally'.failed = tally.failed +
             (IF ~failure /\ count.failed + count.differ > 0 THEN 1 ELSE 0)
        /\ tally'.nothing = tally.nothing +
             (IF ~failure /\ count.failed + count.differ = 0 /\ count.nothing > 0 THEN 1 ELSE 0)
    BY <2>1, NumbersTyped DEF Verdict
  <2> QED BY <2>1, <2>2, NumbersTyped DEF MetInv
<1>6. ASSUME NextFlow, ~failure PROVE MetInv'
  <2>1. /\ pc = "next" /\ UNCHANGED <<met, tally>> /\ failure' = FALSE
        /\ count'.failed = 0 /\ count'.nothing = 0 /\ count'.differ = 0
    BY <1>6 DEF NextFlow, NoCount
  <2> QED BY <1>6, <2>1, FlowIsSummed, NumbersTyped DEF MetInv
<1>7. CASE \/ Start \/ Begin \/ Spawn \/ SkipOpen \/ StepsOver \/ CompareFails \/ Killed
           \/ (NextFlow /\ failure) \/ DriverEnds \/ PortMoves \/ Approved \/ UNCHANGED vars
  <2>1. pc' = "done" \/ UNCHANGED <<met, failure, tally, count>>
    BY <1>7 DEF Start, Begin, Spawn, SkipOpen, StepsOver, CompareFails, Killed, NextFlow,
       DriverEnds, PortMoves, Approved, vars, running, End, Err, Broken
  <2>2. pc = "done" => pc' = "done"
    BY <1>7 DEF Start, Begin, Spawn, SkipOpen, StepsOver, CompareFails, Killed, NextFlow,
       DriverEnds, PortMoves, Approved, vars, End, AtStep
  <2> QED BY <1>1, <2>1, <2>2, MetStays DEF MetInv
<1> QED BY <1>1, <1>2, <1>3, <1>4, <1>5, <1>6, <1>7 DEF Next, Works

\* What has ended stays as it is.
LEMMA EndStays ==
  ASSUME EndInv, UNCHANGED <<case, flow, meta, tally, outcome, met>>
  PROVE  EndInv'
BY DEF EndInv, Summed, Flows

LEMMA EndErrs ==
  ASSUME TypeInv, outcome' = "error", "tool" \in met', UNCHANGED <<case, flow>>,
         Flows # <<>> => flow \in DOMAIN Flows /\ meta'[flow] \in {"none", "open", "error"}
  PROVE  EndInv'
BY DEF EndInv, Settled, Flows

LEMMA EndGoesOn ==
  ASSUME TypeInv, pc # "done", outcome' = outcome \/ outcome' = "killed"
  PROVE  EndInv'
BY DEF EndInv, TypeInv, EndTyped, Settled

LEMMA EndStep ==
  ASSUME TypeInv, StepsInv, MetaInv, TallyInv, MetInv, EndInv, [Next]_vars
  PROVE  EndInv'
<1>1. ASSUME Start PROVE EndInv'
  <2>1. UNCHANGED <<case, flow, meta, tally>> /\ pc = "start" /\ flow = 1
    BY <1>1 DEF Start, others, MetaInv
  <2>2. CASE Err({}) /\ Flows = <<>>
    BY <2>1, <2>2, EndErrs DEF Err
  <2>3. CASE End("skipped")
    <3>1. \A f \in DOMAIN Flows : meta[f] = "none"
      BY <2>1, FlowsTyped DEF MetaInv, TypeInv
    <3> QED BY <2>1, <2>3, <3>1 DEF EndInv, End, Settled, Flows
  <2>4. CASE UNCHANGED outcome
    BY <2>1, <2>4, EndGoesOn
  <2> QED BY <1>1, <2>2, <2>3, <2>4 DEF Start
<1>2. ASSUME Begin \/ Spawn \/ SkipOpen \/ CompareFails \/ Finish PROVE EndInv'
  <2>1. /\ UNCHANGED <<case, flow>> /\ pc \in {"flow", "spawn", "steps", "compare", "finish"}
        /\ flow \in DOMAIN Flows /\ meta[flow] \in {"none", "open"}
    BY <1>2 DEF Begin, Spawn, SkipOpen, CompareFails, Finish, others, AtStep, MetaInv, TypeInv,
       FlowTyped, Working
  <2>2. meta \in [DOMAIN Flows -> Verdicts4]
    BY DEF TypeInv, MetaTyped
  <2>3. CASE outcome' = outcome
    BY <2>1, <2>3, EndGoesOn
  <2>4. CASE outcome' # outcome
    <3>1. outcome' = "error" /\ "tool" \in met'
      <4>1. CASE Begin \/ Spawn \/ SkipOpen
        BY <2>4, <4>1 DEF Begin, Spawn, SkipOpen, Err, Broken
      <4>2. CASE CompareFails
        BY <4>2 DEF CompareFails, Broken
      <4>3. CASE Finish
        BY <2>4, <4>3 DEF Finish, Broken
      <4> QED BY <1>2, <4>1, <4>2, <4>3
    <3>2. meta' = meta \/ meta' = [meta EXCEPT ![flow] = "error"]
      BY <1>2, <2>4 DEF Begin, Spawn, SkipOpen, CompareFails, Finish, Writes, Verdict
    <3>3. meta'[flow] \in {"none", "open", "error"}
      BY <2>1, <2>2, <3>2
    <3> QED BY <2>1, <3>1, <3>3, EndErrs
  <2> QED BY <2>3, <2>4
<1>3. ASSUME NextFlow, ~failure PROVE EndInv'
  <2>1. /\ pc = "next" /\ UNCHANGED <<case, meta, tally, met>> /\ flow' = flow + 1
    BY <1>3 DEF NextFlow, others
  <2>2. CASE outcome' = outcome
    BY <2>1, <2>2, EndGoesOn
  <2>3. CASE End(Summed) /\ ~(Verify /\ flow < Len(Flows))
    <3>1. flow' = Len(Flows) + 1
      <4>1. flow \in 1 .. Len(Flows) /\ Len(Flows) \in Nat /\ (~Verify => Len(Flows) <= 1)
        BY <2>1, FlowsTyped DEF TypeInv, FlowTyped, Working, Verify
      <4> QED BY <2>1, <2>3, <4>1
    <3>2. outcome' = Summed' /\ Flows' = Flows
      BY <2>1, <2>3 DEF End, Summed, Flows
    <3>3. /\ "tool" \notin met
          /\ "ui" \in met <=> tally.failed > 0
          /\ "nothing" \in met => tally.failed + tally.nothing > 0
          /\ tally.nothing > 0 => "nothing" \in met
      BY <1>3, <2>1, FlowIsSummed, NumbersTyped DEF MetInv
    <3>4. met \subseteq {"ui", "nothing", "tool"}
      BY DEF TypeInv, EndTyped
    <3>5. CASE tally.failed > 0
      <4>1. outcome' = "fail"
        BY <2>3, <3>5 DEF End, Summed
      <4> QED BY <2>1, <3>1, <3>2, <3>3, <3>5, <4>1 DEF EndInv, Settled
    <3>6. CASE tally.failed = 0 /\ tally.nothing > 0
      <4>1. outcome' = "nothing"
        BY <2>3, <3>6 DEF End, Summed
      <4>2. "ui" \notin met /\ "nothing" \in met /\ "tool" \notin met
        BY <3>3, <3>6
      <4>3. met = {"nothing"}
        BY <3>4, <4>2
      <4> QED BY <2>1, <3>1, <3>2, <4>1, <4>3 DEF EndInv, Settled
    <3>7. CASE tally.failed = 0 /\ tally.nothing = 0
      <4>1. outcome' = "pass" /\ met = {}
        BY <2>3, <3>3, <3>4, <3>7 DEF End, Summed
      <4> QED BY <2>1, <3>1, <3>2, <4>1 DEF EndInv, Settled
    <3> QED BY <3>5, <3>6, <3>7, NumbersTyped
  <2> QED BY <1>3, <2>2, <2>3 DEF NextFlow
<1>4. CASE Perform \/ PerformFails \/ StepsOver \/ Compare
  BY <1>4, EndGoesOn DEF Perform, PerformFails, StepsOver, Compare, AtStep
<1>5. CASE Killed
  BY <1>5, EndGoesOn DEF Killed, End
<1>6. ASSUME NextFlow, failure PROVE EndInv'
  <2>1. /\ UNCHANGED <<case, flow, meta, met>> /\ outcome' = "error" /\ pc = "next"
        /\ "tool" \in met /\ flow \in DOMAIN Flows /\ meta[flow] = "error"
    BY <1>6 DEF NextFlow, others, End, MetInv, MetaInv, Verdict, TypeInv, FlowTyped, Working
  <2> QED BY <2>1, EndErrs
<1>7. CASE DriverEnds \/ PortMoves \/ Approved \/ UNCHANGED vars
  BY <1>7, EndStays DEF DriverEnds, PortMoves, Approved, vars, others
<1> QED BY <1>1, <1>2, <1>3, <1>4, <1>5, <1>6, <1>7 DEF Next, Works

-----------------------------------------------------------------------------
(* What stood before a page                                                 *)

\* Only a world that lets a replay through is replayed in.
LEMMA NoRefusal ==
  ASSUME Refusal = "none"
  PROVE  Cleared
<1>1. Guard(w) # "none" /\ Resolve(w, w.surface) # "none"
  BY DEF Guard, Resolve
<1> QED BY <1>1 DEF Refusal, Cleared

LEMMA DoctorStep ==
  ASSUME TypeInv, DoctorInv, [Next]_vars
  PROVE  DoctorInv'
<1>1. w' = w
  BY DEF w, Next, Works, Start, Begin, Spawn, SkipOpen, Perform, PerformFails, StepsOver, Compare,
     CompareFails, Finish, NextFlow, Killed, DriverEnds, PortMoves, Approved, others, vars
<1>2. Cleared' = Cleared /\ Opens(w)' = Opens(w)
  BY <1>1 DEF Cleared
<1>3. pc' = "spawn" => pc = "spawn" \/ Refusal = "none"
  BY DEF Next, Works, Start, Begin, Spawn, SkipOpen, Perform, PerformFails, StepsOver, Compare,
     CompareFails, Finish, NextFlow, Killed, DriverEnds, PortMoves, Approved, vars, End, Err,
     Broken, AtStep
<1>4. "up" \in driver' => "up" \in driver \/ (pc = "spawn" /\ CanOpen)
  BY DEF Next, Works, Start, Begin, Spawn, SkipOpen, Perform, PerformFails, StepsOver, Compare,
     CompareFails, Finish, NextFlow, Killed, DriverEnds, PortMoves, Approved, vars, others, Err,
     Broken, Drops, Closes
<1> QED BY <1>2, <1>3, <1>4, NoRefusal DEF DoctorInv, CanOpen

-----------------------------------------------------------------------------
LEMMA ReplayInvariant == Spec => [](TypeInv /\ ReplayInv)
<1>1. Init => ReplayInv
  <2> SUFFICES ASSUME Init PROVE ReplayInv
    OBVIOUS
  <2>1. TypeInv /\ flow = 1 /\ pc = "start" /\ count = NoCount /\ outcome = "none" /\ met = {}
    BY InitTyped DEF Init
  <2>2. DOMAIN Flows = 1 .. Len(Flows) /\ Len(Flows) \in Nat
    BY <2>1, FlowsTyped DEF TypeInv
  <2>3. StepsInv /\ EndInv /\ DoctorInv
    BY <2>1 DEF Init, StepsInv, EndInv, Settled, DoctorInv
  <2>4. MetaInv /\ TallyInv
    BY <2>1, <2>2 DEF Init, MetaInv, TallyInv, Counted
  <2>5. MetInv
    BY <2>1 DEF Init, MetInv, NoCount
  <2> QED BY <2>3, <2>4, <2>5 DEF ReplayInv
<1>2. TypeInv /\ ReplayInv /\ [Next]_vars => TypeInv' /\ ReplayInv'
  BY NextTyped, StepsStep, MetaStep, TallyStep, MetStep, EndStep, DoctorStep DEF ReplayInv
<1> QED BY <1>1, <1>2, InitTyped, PTL DEF Spec

\* The variables keep their types; no flow has more pictures, failures or vain assertions
\* than steps behind it, and no more flows are counted than were replayed.
THEOREM ReplayTyped == Spec => []TypeOK
BY ReplayInvariant, TypeInvOK, PTL

\* What a pass says.
LEMMA PassedAll ==
  ASSUME TypeInv, ReplayInv
  PROVE  PassMeansAll
<1>1. ASSUME outcome = "pass" PROVE met = {} /\ \A f \in DOMAIN Flows : meta[f] = "pass"
  <2>1. flow = Len(Flows) + 1 /\ Summed = "pass" /\ met = {}
    BY <1>1 DEF ReplayInv, EndInv, Settled
  <2>2. ~(tally.failed > 0) /\ ~(tally.nothing > 0)
    BY <2>1 DEF Summed
  <2>3. DOMAIN Flows = 1 .. Len(Flows) /\ Len(Flows) \in Nat
    BY FlowsTyped DEF TypeInv
  <2>4. \A f \in DOMAIN Flows : Counted(f) /\ meta[f] \in Settled
    BY <2>1, <2>3 DEF ReplayInv, MetaInv, Counted
  <2> QED BY <1>1, <2>1, <2>2, <2>4 DEF ReplayInv, TallyInv, Settled
<1>2. ASSUME pc = "next", meta[flow] = "pass"
      PROVE  step > Len(Steps) /\ ~halted /\ (Verify => shots = <<>>)
  <2>1. Verdict = "pass"
    BY <1>2 DEF ReplayInv, MetaInv
  <2>2. ~failure /\ ~(count.failed + count.nothing > 0)
    BY <2>1, NumbersTyped DEF Verdict
  <2> QED BY <1>2, <2>2 DEF ReplayInv, StepsInv
<1> QED BY <1>1, <1>2 DEF PassMeansAll

\* Exit 0 with a pass is everything: every flow was replayed to its last step, every picture
\* of it was compared, and nothing failed, proved nothing, differed or broke on the way.
THEOREM PassIsEverything == Spec => []PassMeansAll
BY ReplayInvariant, PassedAll, PTL

LEMMA LedgerMatches ==
  ASSUME TypeInv, ReplayInv
  PROVE  LedgerMatchesExit
<1> SUFFICES ASSUME pc = "done" PROVE LedgerMatchesExit
  BY DEF LedgerMatchesExit
<1>1. /\ outcome \in Settled \cup {"skipped", "error", "killed"}
      /\ ExitCode(outcome) = 1 <=> outcome = "fail"
  BY DEF TypeInv, EndTyped, ExitCode, NoCode, Settled
<1>2. DOMAIN Flows = 1 .. Len(Flows) /\ Len(Flows) \in Nat /\ flow \in Int
  BY FlowsTyped DEF TypeInv, FlowTyped
<1>3. ASSUME outcome \in Settled
      PROVE  /\ \A f \in DOMAIN Flows : meta[f] \in Settled
             /\ outcome = "fail" <=> \E f \in DOMAIN Flows : meta[f] = "fail"
             /\ outcome = "nothing" => \E f \in DOMAIN Flows : meta[f] = "nothing"
  <2>1. flow = Len(Flows) + 1 /\ outcome = Summed /\ outcome # "killed"
    BY <1>3 DEF ReplayInv, EndInv, Settled
  <2>2. \A f \in DOMAIN Flows : Counted(f) /\ meta[f] \in Settled
    BY <1>2, <2>1 DEF ReplayInv, MetaInv, Counted
  <2>3. /\ tally.failed > 0 <=> \E f \in DOMAIN Flows : meta[f] = "fail"
        /\ tally.nothing > 0 <=> \E f \in DOMAIN Flows : meta[f] = "nothing"
    BY <2>1, <2>2 DEF ReplayInv, TallyInv
  <2>4. outcome = "fail" <=> tally.failed > 0
    BY <2>1 DEF Summed
  <2>5. outcome = "nothing" => tally.nothing > 0
    BY <2>1 DEF Summed
  <2> QED BY <2>2, <2>3, <2>4, <2>5
<1>4. ASSUME outcome = "error", Flows # <<>>
      PROVE  /\ meta[flow] \in {"none", "open", "error"}
             /\ \A f \in DOMAIN Flows : f < flow => meta[f] \in Settled
             /\ \A f \in DOMAIN Flows : f > flow => meta[f] = "none"
  BY <1>4 DEF ReplayInv, EndInv, MetaInv
<1>5. outcome = "skipped" => \A f \in DOMAIN Flows : meta[f] = "none"
  BY DEF ReplayInv, EndInv
<1>6. ExitCode(outcome) = 1 <=> outcome # "killed" /\ outcome # "error"
                                  /\ \E f \in DOMAIN Flows : meta[f] = "fail"
  BY <1>1, <1>3, <1>5 DEF Settled
<1> QED BY <1>3, <1>4, <1>6 DEF LedgerMatchesExit, Settled

\* The exit code and the verdicts in the run directories tell the same story, whatever
\* failed on the way.
THEOREM ExitMatchesLedger == Spec => []LedgerMatchesExit
BY ReplayInvariant, LedgerMatches, PTL

\* The blame is fair: 1 only when the UI failed or looked different and nothing of ui-box
\* broke, 2 only when something of ui-box broke.
THEOREM BlameIsFair == Spec => []BlameNeedsUi
<1>1. TypeInv /\ ReplayInv => BlameNeedsUi
  BY DEF ReplayInv, EndInv, BlameNeedsUi
<1> QED BY <1>1, ReplayInvariant, PTL

\* What `driver::resolve` finds for a surface it finds for the web, the surface doctor asks.
LEMMA FoundAlike ==
  ASSUME NEW x \in World, Resolved(x, x.surface)
  PROVE  Resolved(x, "web") /\ Resolve(x, "web") = Resolve(x, x.surface)
BY DEF Resolved, Resolve

LEMMA Foretells ==
  ASSUME TypeInv, ReplayInv
  PROVE  DoctorForetells
<1>1. w \in World
  BY FlowsTyped DEF TypeInv
<1>2. ASSUME "up" \in driver
      PROVE  Blocking(w) \subseteq {"sessions"} \cup
               (IF w.tauri = "unsaid" \/ w.surface # w.configured THEN {"driver.tauri"} ELSE {})
  <2>1. Cleared /\ Opens(w)
    BY <1>2 DEF ReplayInv, DoctorInv
  <2>2. Resolved(w, "web") /\ (Resolve(w, "web") = "remote" => w.backend = "ssh")
    <3>1. Resolved(w, "web")
      BY <1>1, <2>1, FoundAlike DEF Cleared
    <3>2. Resolve(w, "web") = "remote" => w.backend = "ssh"
      BY DEF Resolve
    <3> QED BY <3>1, <3>2
  <2>3. CheckBackend(w) /\ CheckDom(w) /\ w.artifacts
    BY <2>1, <2>2 DEF Cleared, ProbeBackend, CheckBackend, CheckDom, Opens
  <2>4. w.configured = "tauri" /\ w.surface = "tauri" /\ ~CheckTauri(w) => w.tauri = "unsaid"
    <3>1. w.tauri \in {"unsaid", "ok", "broken"}
      BY <1>1 DEF World
    <3> QED BY <2>1, <2>3, <3>1 DEF Opens, CheckTauri
  <2> QED BY <2>3, <2>4 DEF Blocking
<1>3. ASSUME Usable(w)
      PROVE  /\ w.artifacts /\ CheckBackend(w) /\ CheckDom(w)
             /\ w.configured = "tauri" => w.tauri = "ok"
  BY <1>3 DEF Usable, Blocking, CheckTauri
<1>4. Usable(w) => \/ CanOpen \/ ~EnsureSurface(w) \/ holder # "none"
                   \/ w.tauri = "broken" /\ w.surface = "tauri" /\ w.configured # "tauri"
  BY <1>3 DEF CanOpen, Opens, CheckDom
<1>5. ASSUME Usable(w), Advice(w, TRUE) = {}
      PROVE  Refusal \in {"none", "invalid", "asserts_nothing", "place", "unsupported",
                          "forward_unsupported", "forward_missing"}
  <2>1. CheckForward(w)
    BY <1>5 DEF Advice
  <2>2. Guard(w) \in {"ok", "forward_unsupported", "forward_missing"}
    BY <1>1, <2>1 DEF Guard, CheckForward, World
  <2>3. ProbeBackend(w)
    BY <1>3, <1>5 DEF ProbeBackend, CheckBackend
  <2>4. Resolved(w, w.surface) \/ Resolve(w, w.surface) = "unsupported"
    BY <1>3, <1>5 DEF CheckDom, Resolved, Resolve
  <2> QED BY <1>3, <1>5, <2>2, <2>3, <2>4 DEF Refusal
<1> QED BY <1>2, <1>4, <1>5 DEF DoctorForetells

\* doctor foretells: what it calls blocking keeps a replay from a page, and once nothing is
\* amiss a replay is refused for its flow, or for a port or a surface that doctor does not
\* ask about; what it says of tauri, for flows of the surface that is configured.
THEOREM DoctorIsRight == Spec => []DoctorForetells
BY ReplayInvariant, Foretells, PTL
===============================================================================
