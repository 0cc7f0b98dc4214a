--------------------------- MODULE LiveSessionProofs ---------------------------
(***************************************************************************)
(* Theorems about LiveSession, for every set of invocations, every number  *)
(* of them in flight, and with or without crashes and faults.              *)
(***************************************************************************)
EXTENDS LiveSession, FiniteSetTheorems, TLAPS

--------------------------------------------------------------------------------
(***************************************************************************)
(* Types                                                                   *)
(***************************************************************************)

LEMMA EmptyFilesTyped ==
  /\ NoRecord \in Records /\ TornRecord \in Records
  /\ NoMeta \in Metas /\ TornMeta \in Metas
  /\ BlankMeta("ok") \in Metas
BY DEF NoRecord, TornRecord, BlankRecord, Records, NoMeta, TornMeta, BlankMeta, Metas,
       States, Verdicts

\* Appending an invocation to steps.yaml lengthens it by one and adds only that one.
LEMMA Appended ==
  ASSUME NEW s \in Seq(Cmds), NEW i \in Cmds
  PROVE  /\ Append(s, i) \in Seq(Cmds)
         /\ Len(Append(s, i)) = Len(s) + 1
         /\ \E m \in DOMAIN Append(s, i) : Append(s, i)[m] = i
         /\ \A n \in DOMAIN s : /\ n \in DOMAIN Append(s, i)
                                /\ Append(s, i)[n] = s[n]
<1>1. /\ Append(s, i) \in Seq(Cmds)
      /\ Len(Append(s, i)) = Len(s) + 1
      /\ DOMAIN s = 1 .. Len(s)
      /\ DOMAIN Append(s, i) = 1 .. (Len(s) + 1)
      /\ Append(s, i)[Len(s) + 1] = i
      /\ \A n \in 1 .. Len(s) : Append(s, i)[n] = s[n]
      /\ Len(s) \in Nat
  OBVIOUS
<1>2. Len(s) + 1 \in 1 .. (Len(s) + 1) /\ 1 .. Len(s) \subseteq 1 .. (Len(s) + 1)
  BY <1>1
<1> QED
  BY <1>1, <1>2

LEMMA OpenTyped == ASSUME TypeOK, Open PROVE TypeOK'
<1> USE EmptyFilesTyped DEF TypeOK, cli, disk, log, driver
<1>1. CASE OpenSpawn
  BY <1>1 DEF OpenSpawn, Phases
<1>2. CASE OpenAnswer
  BY <1>2 DEF OpenAnswer, Phases
<1>3. CASE OpenFails
  BY <1>3 DEF OpenFails, Signalled, Gone, CutOff, Phases
<1>4. CASE OpenSave
  BY <1>4 DEF OpenSave, Phases, Records, States
<1>5. CASE OpenMeta
  BY <1>5 DEF OpenMeta, Phases
<1>6. CASE OpenKilled
  BY <1>6 DEF OpenKilled, Phases
<1> QED
  BY <1>1, <1>2, <1>3, <1>4, <1>5, <1>6 DEF Open

\* What the commands share: where an invocation goes next.
LEMMA AdvanceTyped ==
  ASSUME TypeOK, NEW i \in Cmds, NEW w \in PCs, Advance(i, w)
  PROVE  pc' \in [Cmds -> PCs] /\ told' \in [Cmds -> Tolds]
BY DEF TypeOK, Advance

LEMMA GotoTyped ==
  ASSUME TypeOK, NEW i \in Cmds, NEW w \in PCs, Goto(i, w)
  PROVE  /\ pc' \in [Cmds -> PCs] /\ told' \in [Cmds -> Tolds]
         /\ seen' \in [Cmds -> Records] /\ draft' \in [Cmds -> Metas]
BY DEF TypeOK, Goto, Advance

LEMMA FinishTyped ==
  ASSUME TypeOK, NEW i \in Cmds, NEW t \in Tolds, Finish(i, t)
  PROVE  /\ pc' \in [Cmds -> PCs] /\ told' \in [Cmds -> Tolds]
         /\ seen' \in [Cmds -> Records] /\ draft' \in [Cmds -> Metas]
BY EmptyFilesTyped DEF TypeOK, Finish, PCs

LEMMA LoadTyped ==
  ASSUME TypeOK, NEW i \in Cmds, NEW k \in Kinds, Load(i, k) \/ LoadFails(i, k)
  PROVE  TypeOK'
<1>1. CASE Load(i, k)
  BY <1>1, AdvanceTyped DEF Load, TypeOK, disk, log, driver, Advance, PCs
<1>2. CASE LoadFails(i, k)
  <2>1. Finish(i, "refused") /\ "refused" \in Tolds
    BY <1>2 DEF LoadFails, Tolds
  <2> QED
    BY <1>2, <2>1, FinishTyped DEF LoadFails, TypeOK, disk, log, driver
<1> QED BY <1>1, <1>2

LEMMA CommandTyped == ASSUME TypeOK, NEW i \in Cmds, Command(i) PROVE TypeOK'
<1> USE DEF disk, log, driver
<1>1. CASE Attach(i)
  <2>1. Goto(i, "waiting") /\ "waiting" \in PCs
    BY <1>1 DEF Attach, PCs
  <2> QED
    BY <1>1, <2>1, GotoTyped DEF Attach, TypeOK
<1>2. CASE Refuse(i)
  <2>1. Finish(i, "refused") /\ "refused" \in Tolds
    BY <1>2 DEF Refuse, Tolds
  <2> QED
    BY <1>2, <2>1, FinishTyped DEF Refuse, TypeOK
<1>3. CASE Timeout(i)
  <2>1. Goto(i, "answered") /\ "answered" \in PCs
    BY <1>3 DEF Timeout, PCs
  <2> QED
    BY <1>3, <2>1, GotoTyped DEF Timeout, TypeOK, Answers
<1>4. CASE AppendStep(i)
  <2>1. Goto(i, "save") /\ "save" \in PCs
    BY <1>4 DEF AppendStep, PCs
  <2> QED
    BY <1>4, <2>1, GotoTyped, Appended DEF AppendStep, TypeOK
<1>5. CASE AppendFails(i)
  <2>1. Goto(i, "save") /\ "save" \in PCs
    BY <1>5 DEF AppendFails, PCs
  <2> QED
    BY <1>5, <2>1, GotoTyped DEF AppendFails, TypeOK, Answers
<1>6. CASE EvalAnswered(i)
  <2>1. \/ Finish(i, "error") /\ "error" \in Tolds
        \/ Goto(i, "save") /\ "save" \in PCs
    BY <1>6 DEF EvalAnswered, PCs, Tolds
  <2> QED
    BY <1>6, <2>1, GotoTyped, FinishTyped DEF EvalAnswered, TypeOK
<1>7. CASE Save(i)
  <2>1. \/ Goto(i, "readMeta") /\ "readMeta" \in PCs
        \/ \E t \in Tolds : Finish(i, t)
    BY <1>7 DEF Save, PCs, Tolds
  <2>2. record' \in Records
    BY <1>7 DEF Save, TypeOK, Records, States, StepsAfter
  <2> QED
    BY <1>7, <2>1, <2>2, GotoTyped, FinishTyped DEF Save, TypeOK
<1>8. CASE ReadMeta(i)
  <2>1. Advance(i, "writeMeta") /\ "writeMeta" \in PCs
    BY <1>8 DEF ReadMeta, PCs
  <2> QED
    BY <1>8, <2>1, AdvanceTyped DEF ReadMeta, TypeOK
<1>9. CASE ReadMetaFails(i)
  <2>1. Finish(i, "error") /\ "error" \in Tolds
    BY <1>9 DEF ReadMetaFails, Tolds
  <2> QED
    BY <1>9, <2>1, FinishTyped DEF ReadMetaFails, TypeOK
<1>10. CASE WriteMeta(i)
  <2>1. Finish(i, Report(i)) /\ Report(i) \in Tolds
    BY <1>10 DEF WriteMeta, Tolds, Report
  <2>2. meta' \in Metas
    BY <1>10 DEF WriteMeta, Counted, TypeOK, Metas, Records, StepsAfter, Failed, Nothing
  <2> QED
    BY <1>10, <2>1, <2>2, FinishTyped DEF WriteMeta, TypeOK
<1>11. CASE CloseAsk(i)
  <2>1. Goto(i, "terminate") /\ "terminate" \in PCs
    BY <1>11 DEF CloseAsk, PCs
  <2> QED
    BY <1>11, <2>1, GotoTyped DEF CloseAsk, TypeOK
<1>12. CASE CloseDead(i)
  <2>1. Goto(i, "readMeta") /\ "readMeta" \in PCs
    BY <1>12 DEF CloseDead, PCs
  <2> QED
    BY <1>12, <2>1, GotoTyped DEF CloseDead, TypeOK
<1>13. CASE Terminate(i)
  <2>1. Goto(i, "readMeta") /\ "readMeta" \in PCs
    BY <1>13 DEF Terminate, Signalled, Gone, CutOff, PCs
  <2> QED
    BY <1>13, <2>1, GotoTyped DEF Terminate, Signalled, Gone, CutOff, TypeOK
<1>14. CASE CloseWriteMeta(i)
  <2>1. Goto(i, "remove") /\ "remove" \in PCs
    BY <1>14 DEF CloseWriteMeta, PCs
  <2>2. meta' \in Metas
    BY <1>14 DEF CloseWriteMeta, Ended, TypeOK, Metas, Records, Verdict, Verdicts
  <2> QED
    BY <1>14, <2>1, <2>2, GotoTyped DEF CloseWriteMeta, TypeOK
<1>15. CASE CloseRemove(i)
  <2>1. Finish(i, "closed") /\ "closed" \in Tolds
    BY <1>15 DEF CloseRemove, Tolds
  <2> QED
    BY <1>15, <2>1, FinishTyped, EmptyFilesTyped DEF CloseRemove, TypeOK
<1> QED
  BY <1>1, <1>2, <1>3, <1>4, <1>5, <1>6, <1>7, <1>8, <1>9, <1>10, <1>11, <1>12, <1>13,
     <1>14, <1>15 DEF Command

LEMMA DriverTyped == ASSUME TypeOK, NEW i \in Cmds, Driver(i) PROVE TypeOK'
<1> USE DEF disk, log, driver, cli
<1>1. CASE DriverBegin(i)
  <2>1. \/ Goto(i, "answered") /\ "answered" \in PCs
        \/ UNCHANGED <<pc, told, seen, draft>>
    BY <1>1 DEF DriverBegin, Answered, PCs
  <2> QED
    BY <1>1, <2>1, GotoTyped DEF DriverBegin, Answered, TypeOK, Answers
<1>2. CASE DriverEnd(i)
  <2>1. PICK r \in IF page = "open" THEN PageResults(kind[i]) ELSE {ClosedResult(kind[i])} :
          /\ outcome' = IF page = "open" THEN [outcome EXCEPT ![i] = r] ELSE outcome
          /\ IF pc[i] = "waiting" /\ proc = "up"
               THEN answer' = [answer EXCEPT ![i] = r] /\ Goto(i, "answered")
               ELSE UNCHANGED <<answer, pc, told, seen, draft>>
    BY <1>2 DEF DriverEnd, Answered
  <2>2. r \in {"ok", "failed", "nothing", "error"}
    BY <2>1 DEF PageResults, ClosedResult
  <2>3. \/ Goto(i, "answered") /\ "answered" \in PCs
        \/ UNCHANGED <<pc, told, seen, draft>>
    BY <2>1 DEF PCs
  <2> QED
    BY <1>2, <2>1, <2>2, <2>3, GotoTyped DEF DriverEnd, Answered, TypeOK, Answers
<1> QED
  BY <1>1, <1>2 DEF Driver

\* An invocation that is killed, or whose write fails, half way.
LEMMA BrokenTyped ==
  ASSUME TypeOK, NEW i \in Cmds, Killed(i) \/ WriteFails(i)
  PROVE  TypeOK'
<1>1. Broken(i) /\ \E t \in Tolds : Finish(i, t)
  BY DEF Killed, WriteFails, Tolds
<1> QED
  BY <1>1, FinishTyped, EmptyFilesTyped DEF Broken, TypeOK, driver, log

LEMMA TypeStep == TypeOK /\ [Next]_vars => TypeOK'
<1> SUFFICES ASSUME TypeOK, [Next]_vars PROVE TypeOK'
  OBVIOUS
<1>1. CASE Open
  BY <1>1, OpenTyped
<1>2. CASE DriverExpire \/ DriverLeaves \/ DriverDies \/ Tick
  BY <1>2 DEF DriverExpire, DriverLeaves, DriverDies, Gone, CutOff, Tick, TypeOK, disk, log, driver, cli
<1>3. ASSUME NEW i \in Cmds, NEW k \in Kinds, Load(i, k) \/ LoadFails(i, k) PROVE TypeOK'
  BY <1>3, LoadTyped
<1>4. ASSUME NEW i \in Cmds, Command(i) PROVE TypeOK'
  BY <1>4, CommandTyped
<1>5. ASSUME NEW i \in Cmds, Driver(i) PROVE TypeOK'
  BY <1>5, DriverTyped
<1>6. ASSUME NEW i \in Cmds, Killed(i) \/ WriteFails(i) PROVE TypeOK'
  BY <1>6, BrokenTyped
<1>7. CASE UNCHANGED vars
  BY <1>7 DEF TypeOK, vars, disk, log, driver, cli
<1> QED
  BY <1>1, <1>2, <1>3, <1>4, <1>5, <1>6, <1>7 DEF Next

\* The files, the driver and the invocations always have the shapes that the
\* structs of the CLI give them, however invocations overlap and end.
THEOREM Typing == Spec => []TypeOK
<1>1. Init => TypeOK
  <2> SUFFICES ASSUME Init PROVE TypeOK
    OBVIOUS
  <2>1. <<>> \in Seq(Cmds)
    OBVIOUS
  <2>2. "new" \in Phases /\ "new" \in PCs /\ "none" \in Answers /\ "none" \in Tolds
    BY DEF Phases, PCs, Answers, Tolds
  <2>3. /\ now \in Nat /\ touched \in Nat /\ phase \in Phases
        /\ remote \in BOOLEAN
        /\ proc \in {"none", "up", "cut", "down"} /\ page \in {"none", "open", "gone"}
        /\ inbox \subseteq Cmds /\ running \subseteq Cmds /\ channel \in BOOLEAN
        /\ record \in Records /\ meta \in Metas /\ steps \in Seq(Cmds)
        /\ unlogged \in Nat
    BY <2>1, <2>2, EmptyFilesTyped DEF Init
  <2>4. /\ pc \in [Cmds -> PCs] /\ kind \in [Cmds -> Kinds \cup {"none"}]
        /\ seen \in [Cmds -> Records] /\ draft \in [Cmds -> Metas]
        /\ answer \in [Cmds -> Answers] /\ told \in [Cmds -> Tolds]
        /\ outcome \in [Cmds -> {"none", "ok", "failed", "nothing", "error"}]
    BY <2>2, EmptyFilesTyped DEF Init
  <2> QED
    BY <2>3, <2>4 DEF TypeOK
<1> QED
  BY <1>1, TypeStep, PTL DEF Spec

--------------------------------------------------------------------------------
(***************************************************************************)
(* Nothing lands after a verdict                                           *)
(***************************************************************************)

\* A close gets past the driver, and a verdict comes to be, only once the process of
\* the record is over; a driver, once over, is never spawned again.  What is left of
\* one behind an ssh client may work on, a dead one has nothing left to do.
Over == proc \in {"cut", "down"}

ClosedInv ==
  /\ proc = "none" <=> phase = "new"
  /\ phase = "new" => \A i \in Cmds : pc[i] = "new"
  /\ meta.ended => Over
  /\ \A i \in Cmds : draft[i].ended => Over
  /\ \A i \in Cmds :
       kind[i] = "close" /\ pc[i] \in {"readMeta", "writeMeta", "remove"} => Over
  /\ \A i \in Cmds : pc[i] = "remove" \/ told[i] = "closed" => Over
  /\ proc = "cut" => remote
  /\ proc = "down" => inbox = {} /\ running = {}

LEMMA ClosedStep == TypeOK /\ ClosedInv /\ [Next]_vars => ClosedInv'
<1> SUFFICES ASSUME TypeOK, ClosedInv, [Next]_vars PROVE ClosedInv'
  OBVIOUS
<1> USE DEF TypeOK, ClosedInv, Over, PidAlive, AtWork, disk, log, driver, cli, NoMeta, BlankMeta, TornMeta
<1>1. CASE OpenSpawn
  BY <1>1 DEF OpenSpawn
<1>2. CASE OpenAnswer
  BY <1>2 DEF OpenAnswer
<1>3. CASE OpenFails
  BY <1>3 DEF OpenFails, Signalled, Gone, CutOff
<1>4. CASE OpenSave
  BY <1>4 DEF OpenSave
<1>5. CASE OpenMeta
  BY <1>5 DEF OpenMeta
<1>6. CASE OpenKilled
  BY <1>6 DEF OpenKilled
<1>7. CASE DriverExpire
  BY <1>7 DEF DriverExpire
<1>8. CASE DriverLeaves \/ DriverDies
  BY <1>8 DEF DriverLeaves, DriverDies, Gone, CutOff
<1>9. CASE Tick
  BY <1>9 DEF Tick
<1>10. ASSUME NEW i \in Cmds, NEW k \in Kinds, Load(i, k) PROVE ClosedInv'
  BY <1>10 DEF Load, Advance, Known
<1>11. ASSUME NEW i \in Cmds, NEW k \in Kinds, LoadFails(i, k) PROVE ClosedInv'
  BY <1>11 DEF LoadFails, Finish, Known
<1>12. ASSUME NEW i \in Cmds, Attach(i) PROVE ClosedInv'
  BY <1>12 DEF Attach, Usable, Goto, Advance
<1>13. ASSUME NEW i \in Cmds, Refuse(i) PROVE ClosedInv'
  BY <1>13 DEF Refuse, Finish
<1>14. ASSUME NEW i \in Cmds, Timeout(i) PROVE ClosedInv'
  BY <1>14 DEF Timeout, Goto, Advance
<1>15. ASSUME NEW i \in Cmds, AppendStep(i) PROVE ClosedInv'
  BY <1>15 DEF AppendStep, Goto, Advance
<1>16. ASSUME NEW i \in Cmds, AppendFails(i) PROVE ClosedInv'
  BY <1>16 DEF AppendFails, Goto, Advance
<1>17. ASSUME NEW i \in Cmds, EvalAnswered(i) PROVE ClosedInv'
  <2>1. CASE Finish(i, "error")
    BY <1>17, <2>1 DEF EvalAnswered, Finish
  <2>2. CASE Goto(i, "save")
    BY <1>17, <2>2 DEF EvalAnswered, Goto, Advance
  <2> QED
    BY <1>17, <2>1, <2>2 DEF EvalAnswered
<1>18. ASSUME NEW i \in Cmds, Save(i) PROVE ClosedInv'
  BY <1>18 DEF Save, Stepping, Goto, Advance, Finish
<1>19. ASSUME NEW i \in Cmds, ReadMeta(i) PROVE ClosedInv'
  BY <1>19 DEF ReadMeta, Advance
<1>20. ASSUME NEW i \in Cmds, ReadMetaFails(i) PROVE ClosedInv'
  BY <1>20 DEF ReadMetaFails, Finish
<1>21. ASSUME NEW i \in Cmds, WriteMeta(i) PROVE ClosedInv'
  BY <1>21 DEF WriteMeta, Finish, Counted, Report
<1>22. ASSUME NEW i \in Cmds, CloseAsk(i) PROVE ClosedInv'
  BY <1>22 DEF CloseAsk, Goto, Advance
<1>23. ASSUME NEW i \in Cmds, CloseDead(i) PROVE ClosedInv'
  BY <1>23 DEF CloseDead, Goto, Advance
<1>24. ASSUME NEW i \in Cmds, Terminate(i) PROVE ClosedInv'
  BY <1>24 DEF Terminate, Signalled, Gone, CutOff, Goto, Advance
<1>25. ASSUME NEW i \in Cmds, CloseWriteMeta(i) PROVE ClosedInv'
  BY <1>25 DEF CloseWriteMeta, Goto, Advance, Ended
<1>26. ASSUME NEW i \in Cmds, CloseRemove(i) PROVE ClosedInv'
  BY <1>26 DEF CloseRemove, Finish
<1>27. ASSUME NEW i \in Cmds, DriverBegin(i) PROVE ClosedInv'
  BY <1>27 DEF DriverBegin, Answered, Goto, Advance
<1>28. ASSUME NEW i \in Cmds, DriverEnd(i) PROVE ClosedInv'
  BY <1>28 DEF DriverEnd, Answered, Goto, Advance
<1>29. ASSUME NEW i \in Cmds, Killed(i) PROVE ClosedInv'
  BY <1>29 DEF Killed, Finish, Broken, Busy
<1>30. ASSUME NEW i \in Cmds, WriteFails(i) PROVE ClosedInv'
  BY <1>30 DEF WriteFails, Finish, Broken
<1>31. CASE UNCHANGED vars
  BY <1>31 DEF vars
<1> QED
  BY <1>1, <1>2, <1>3, <1>4, <1>5, <1>6, <1>7, <1>8, <1>9, <1>10, <1>11, <1>12, <1>13,
     <1>14, <1>15, <1>16, <1>17, <1>18, <1>19, <1>20, <1>21, <1>22, <1>23, <1>24,
     <1>25, <1>26, <1>27, <1>28, <1>29, <1>30, <1>31
     DEF Next, Open, Command, Driver

\* Behind a close nothing is taken in, nobody hears of a step, and a driver of this
\* machine does nothing.
LEMMA ClosedIsSilent ==
  ASSUME TypeOK, ClosedInv, [Next]_vars, \E i \in Cmds : PastDriver(i)
  PROVE  SilentAfterClose \/ UNCHANGED vars
<1>0. ~PidAlive /\ phase # "new"
  BY DEF ClosedInv, PastDriver, Over, PidAlive
<1> USE <1>0 DEF SilentAfterClose, PidAlive, disk, log, driver, cli, TypeOK, PastDriver
<1>1. CASE Open
  BY <1>1 DEF Open, OpenSpawn, OpenAnswer, OpenFails, Signalled, OpenSave, OpenMeta, OpenKilled
<1>2. CASE DriverExpire \/ DriverLeaves \/ DriverDies \/ Tick
  BY <1>2 DEF DriverExpire, DriverLeaves, DriverDies, Gone, Tick
<1>3. ASSUME NEW i \in Cmds, NEW k \in Kinds, Load(i, k) \/ LoadFails(i, k)
      PROVE  SilentAfterClose
  BY <1>3 DEF Load, LoadFails
<1>4. ASSUME NEW i \in Cmds, Command(i) PROVE SilentAfterClose
  <2>1. CASE Attach(i)
    BY <2>1 DEF Attach, Usable
  <2>2. CASE Timeout(i) \/ AppendFails(i)
    BY <2>2 DEF Timeout, AppendFails
  <2>3. CASE Refuse(i) \/ AppendStep(i) \/ EvalAnswered(i) \/ Save(i) \/ ReadMeta(i)
             \/ ReadMetaFails(i) \/ WriteMeta(i)
    BY <2>3 DEF Refuse, AppendStep, EvalAnswered, Save, ReadMeta, ReadMetaFails, WriteMeta
  <2>4. CASE CloseAsk(i) \/ CloseDead(i) \/ Terminate(i) \/ CloseWriteMeta(i) \/ CloseRemove(i)
    BY <2>4 DEF CloseAsk, CloseDead, Terminate, Signalled, CloseWriteMeta, CloseRemove
  <2> QED
    BY <1>4, <2>1, <2>2, <2>3, <2>4 DEF Command
<1>5. ASSUME NEW i \in Cmds, DriverBegin(i) PROVE SilentAfterClose
  BY <1>5 DEF DriverBegin, Answered
<1>6. ASSUME NEW i \in Cmds, DriverEnd(i) PROVE SilentAfterClose
  <2>1. remote /\ answer' = answer /\ inbox' = inbox
    BY <1>6 DEF DriverEnd, Answered, AtWork, ClosedInv
  <2> QED
    BY <2>1
<1>7. ASSUME NEW i \in Cmds, Killed(i) \/ WriteFails(i) PROVE SilentAfterClose
  BY <1>7 DEF Killed, WriteFails, Broken
<1> QED
  BY <1>1, <1>2, <1>3, <1>4, <1>5, <1>6, <1>7 DEF Next, Driver

\* Whatever overlaps and whoever is killed: once a close is past ending the driver no
\* request is taken in, no caller hears of a step that lands later, and a driver of this
\* machine lands none.
THEOREM SilenceAfterClose == Spec => NothingHeardAfterClose
<1>1. Init => ClosedInv
  BY DEF Init, ClosedInv, NoMeta, BlankMeta
<1>2. TypeOK /\ ClosedInv /\ [Next]_vars
        => [(\E i \in Cmds : PastDriver(i)) => SilentAfterClose]_vars
  BY ClosedIsSilent
<1> QED
  BY <1>1, <1>2, Typing, ClosedStep, PTL DEF Spec, NothingHeardAfterClose

--------------------------------------------------------------------------------
(***************************************************************************)
(* Counts are earned                                                       *)
(***************************************************************************)

\* What one copy of meta.json, on disk or read back, has counted.
Earned(m) ==
  /\ \A i \in m.steps_failed :
       /\ pc[i] = "done"
       /\ \/ answer[i] = "error"
          \/ answer[i] = "failed" /\ i \in OnRecord
  /\ \A i \in m.steps_nothing :
       pc[i] = "done" /\ answer[i] = "nothing" /\ i \in OnRecord

\* Every copy is earned, and a step on its way to being counted is logged.
EarnedInv ==
  /\ Earned(meta)
  /\ \A i \in Cmds : Earned(draft[i])
  /\ \A i \in Cmds :
       /\ pc[i] \in {"save", "readMeta", "writeMeta"} /\ Stepping(i)
       /\ answer[i] \in {"failed", "nothing"}
       => i \in OnRecord
  /\ \A i \in Cmds : pc[i] = "terminate" => kind[i] = "close"

\* What the driver does to the invocations: it answers one, if that one waits.
LEMMA EarnedAnswered ==
  ASSUME TypeOK, EarnedInv, NEW i \in Cmds, UNCHANGED <<meta, steps, kind>>,
         \/ UNCHANGED <<pc, draft, answer>>
         \/ /\ pc[i] = "waiting" /\ Goto(i, "answered")
            /\ \E r : answer' = [answer EXCEPT ![i] = r]
  PROVE  EarnedInv'
<1>1. OnRecord' = OnRecord /\ draft' = draft
  BY DEF OnRecord, Goto
<1>2. \A j \in Cmds : /\ pc'[j] = pc[j] \/ pc'[j] = "answered"
                      /\ pc[j] # "waiting" => pc'[j] = pc[j] /\ answer'[j] = answer[j]
                      /\ pc'[j] # "answered" => answer'[j] = answer[j]
  BY DEF TypeOK, Goto, Advance
<1>3. ASSUME NEW m \in Metas, Earned(m) PROVE Earned(m)'
  BY <1>1, <1>2, <1>3 DEF Earned, Metas
<1>4. Earned(meta)' /\ \A j \in Cmds : Earned(draft[j])'
  BY <1>1, <1>3 DEF TypeOK, EarnedInv
<1> QED
  BY <1>1, <1>2, <1>4 DEF EarnedInv, Stepping

LEMMA EarnedStep == TypeOK /\ EarnedInv /\ [Next]_vars => EarnedInv'
<1> SUFFICES ASSUME TypeOK, EarnedInv, [Next]_vars PROVE EarnedInv'
  OBVIOUS
<1>0. steps' = steps => OnRecord' = OnRecord
  BY DEF OnRecord
<1> USE DEF TypeOK, EarnedInv, Earned, Stepping, disk, log, driver, cli, NoMeta, BlankMeta, TornMeta,
        NoRecord, BlankRecord, TornRecord
<1>1. CASE OpenSpawn
  BY <1>0, <1>1 DEF OpenSpawn
<1>2. CASE OpenAnswer
  BY <1>0, <1>2 DEF OpenAnswer
<1>3. CASE OpenFails
  BY <1>0, <1>3 DEF OpenFails, Signalled, Gone, CutOff
<1>4. CASE OpenSave
  BY <1>0, <1>4 DEF OpenSave
<1>5. CASE OpenMeta
  BY <1>0, <1>5 DEF OpenMeta
<1>6. CASE OpenKilled
  BY <1>0, <1>6 DEF OpenKilled
<1>7. CASE DriverExpire
  BY <1>0, <1>7 DEF DriverExpire
<1>8. CASE DriverLeaves \/ DriverDies
  BY <1>0, <1>8 DEF DriverLeaves, DriverDies, Gone, CutOff
<1>9. CASE Tick
  BY <1>0, <1>9 DEF Tick
<1>10. ASSUME NEW i \in Cmds, NEW k \in Kinds, Load(i, k) PROVE EarnedInv'
  BY <1>0, <1>10 DEF Load, Advance, Known
<1>11. ASSUME NEW i \in Cmds, NEW k \in Kinds, LoadFails(i, k) PROVE EarnedInv'
  BY <1>0, <1>11 DEF LoadFails, Finish, Known
<1>12. ASSUME NEW i \in Cmds, Attach(i) PROVE EarnedInv'
  BY <1>0, <1>12 DEF Attach, Goto, Advance
<1>13. ASSUME NEW i \in Cmds, Refuse(i) PROVE EarnedInv'
  BY <1>0, <1>13 DEF Refuse, Finish
<1>14. ASSUME NEW i \in Cmds, Timeout(i) PROVE EarnedInv'
  BY <1>0, <1>14 DEF Timeout, Goto, Advance
<1>15. ASSUME NEW i \in Cmds, AppendStep(i) PROVE EarnedInv'
  <2>1. OnRecord \subseteq OnRecord' /\ i \in OnRecord'
    <3>1. i \in Cmds /\ steps \in Seq(Cmds) /\ steps' = Append(steps, i)
      BY <1>15 DEF AppendStep
    <3>2. /\ \E m \in DOMAIN steps' : steps'[m] = i
          /\ \A n \in DOMAIN steps : n \in DOMAIN steps' /\ steps'[n] = steps[n]
      BY ONLY <3>1, Appended
    <3> QED
      BY <3>2 DEF OnRecord
  <2>2. \A j \in Cmds : j # i => pc'[j] = pc[j]
    BY <1>0, <1>15 DEF AppendStep, Goto, Advance
  <2> QED
    BY <1>0, <1>15, <2>1, <2>2 DEF AppendStep, Goto, Advance
<1>16. ASSUME NEW i \in Cmds, AppendFails(i) PROVE EarnedInv'
  BY <1>0, <1>16 DEF AppendFails, Goto, Advance
<1>17. ASSUME NEW i \in Cmds, EvalAnswered(i) PROVE EarnedInv'
  <2>1. CASE Finish(i, "error")
    BY <1>0, <1>17, <2>1 DEF EvalAnswered, Finish
  <2>2. CASE Goto(i, "save")
    BY <1>0, <1>17, <2>2 DEF EvalAnswered, Goto, Advance
  <2> QED
    BY <1>0, <1>17, <2>1, <2>2 DEF EvalAnswered
<1>18. ASSUME NEW i \in Cmds, Save(i) PROVE EarnedInv'
  <2>1. CASE Goto(i, "readMeta")
    BY <1>0, <1>18, <2>1 DEF Save, Goto, Advance
  <2>2. ASSUME NEW t \in Tolds, Finish(i, t) PROVE EarnedInv'
    BY <1>0, <1>18, <2>2 DEF Save, Finish
  <2> QED
    BY <1>0, <1>18, <2>1, <2>2 DEF Save, Tolds
<1>19. ASSUME NEW i \in Cmds, ReadMeta(i) PROVE EarnedInv'
  BY <1>0, <1>19 DEF ReadMeta, Advance
<1>20. ASSUME NEW i \in Cmds, ReadMetaFails(i) PROVE EarnedInv'
  BY <1>0, <1>20 DEF ReadMetaFails, Finish
<1>21. ASSUME NEW i \in Cmds, WriteMeta(i) PROVE EarnedInv'
  BY <1>0, <1>21 DEF WriteMeta, Finish, Counted, Failed, Nothing
<1>22. ASSUME NEW i \in Cmds, CloseAsk(i) PROVE EarnedInv'
  BY <1>0, <1>22 DEF CloseAsk, Goto, Advance
<1>23. ASSUME NEW i \in Cmds, CloseDead(i) PROVE EarnedInv'
  BY <1>0, <1>23 DEF CloseDead, Goto, Advance, Stepping
<1>24. ASSUME NEW i \in Cmds, Terminate(i) PROVE EarnedInv'
  BY <1>0, <1>24 DEF Terminate, Signalled, Gone, CutOff, Goto, Advance, Stepping
<1>25. ASSUME NEW i \in Cmds, CloseWriteMeta(i) PROVE EarnedInv'
  BY <1>0, <1>25 DEF CloseWriteMeta, Goto, Advance, Ended
<1>26. ASSUME NEW i \in Cmds, CloseRemove(i) PROVE EarnedInv'
  BY <1>0, <1>26 DEF CloseRemove, Finish
<1>27. ASSUME NEW i \in Cmds, DriverBegin(i) PROVE EarnedInv'
  BY <1>27, EarnedAnswered DEF DriverBegin, Answered
<1>28. ASSUME NEW i \in Cmds, DriverEnd(i) PROVE EarnedInv'
  BY <1>28, EarnedAnswered DEF DriverEnd, Answered
<1>29. ASSUME NEW i \in Cmds, Killed(i) PROVE EarnedInv'
  BY <1>0, <1>29 DEF Killed, Finish, Broken, Busy
<1>30. ASSUME NEW i \in Cmds, WriteFails(i) PROVE EarnedInv'
  BY <1>0, <1>30 DEF WriteFails, Finish, Broken
<1>31. CASE UNCHANGED vars
  BY <1>0, <1>31 DEF vars
<1> QED
  BY <1>1, <1>2, <1>3, <1>4, <1>5, <1>6, <1>7, <1>8, <1>9, <1>10, <1>11, <1>12, <1>13,
     <1>14, <1>15, <1>16, <1>17, <1>18, <1>19, <1>20, <1>21, <1>22, <1>23, <1>24,
     <1>25, <1>26, <1>27, <1>28, <1>29, <1>30, <1>31
     DEF Next, Open, Command, Driver

\* However invocations overlap, are killed or fail to write, meta.json never
\* counts a step as failed or as nothing that was not answered so and logged.
THEOREM EarnedCounts == Spec => []CountsAreEarned
<1>1. Init => EarnedInv
  BY DEF Init, EarnedInv, Earned, NoMeta, BlankMeta
<1>2. EarnedInv => CountsAreEarned
  BY DEF EarnedInv, Earned, CountsAreEarned
<1> QED
  BY <1>1, <1>2, Typing, EarnedStep, PTL DEF Spec

--------------------------------------------------------------------------------
(***************************************************************************)
(* Counts stay within the log                                              *)
(***************************************************************************)

\* Every copy of a count, and every count about to be written, has its steps.
LogInv ==
  /\ CountWithinLog
  /\ \A i \in Cmds : draft[i].steps_total <= Len(steps) + unlogged
  /\ \A i \in Cmds : seen[i].step_count <= Len(steps) + unlogged
  /\ \A i \in Cmds :
       pc[i] \in {"save", "readMeta", "writeMeta"} => StepsAfter(i) <= Len(steps) + unlogged
  /\ \A i \in Cmds : pc[i] = "terminate" => kind[i] = "close"

LEMMA LogStep == TypeOK /\ LogInv /\ [Next]_vars => LogInv'
<1> SUFFICES ASSUME TypeOK, LogInv, [Next]_vars PROVE LogInv'
  OBVIOUS
<1>0. \A j \in Cmds :
        seen'[j] = seen[j] /\ kind'[j] = kind[j] => StepsAfter(j)' = StepsAfter(j)
  BY DEF StepsAfter, Stepping
<1> USE DEF TypeOK, LogInv, CountWithinLog, Records, Metas, disk, log, driver, cli, NoMeta, BlankMeta,
        TornMeta, NoRecord, BlankRecord, TornRecord
<1>1. CASE OpenSpawn
  BY <1>0, <1>1 DEF OpenSpawn
<1>2. CASE OpenAnswer
  BY <1>0, <1>2 DEF OpenAnswer
<1>3. CASE OpenFails
  BY <1>0, <1>3 DEF OpenFails, Signalled, Gone, CutOff
<1>4. CASE OpenSave
  BY <1>0, <1>4 DEF OpenSave
<1>5. CASE OpenMeta
  BY <1>0, <1>5 DEF OpenMeta
<1>6. CASE OpenKilled
  BY <1>0, <1>6 DEF OpenKilled
<1>7. CASE DriverExpire
  BY <1>0, <1>7 DEF DriverExpire
<1>8. CASE DriverLeaves \/ DriverDies
  BY <1>0, <1>8 DEF DriverLeaves, DriverDies, Gone, CutOff
<1>9. CASE Tick
  BY <1>0, <1>9 DEF Tick
<1>10. ASSUME NEW i \in Cmds, NEW k \in Kinds, Load(i, k) PROVE LogInv'
  BY <1>0, <1>10 DEF Load, Advance, Known
<1>11. ASSUME NEW i \in Cmds, NEW k \in Kinds, LoadFails(i, k) PROVE LogInv'
  BY <1>0, <1>11 DEF LoadFails, Finish, Known
<1>12. ASSUME NEW i \in Cmds, Attach(i) PROVE LogInv'
  BY <1>0, <1>12 DEF Attach, Goto, Advance
<1>13. ASSUME NEW i \in Cmds, Refuse(i) PROVE LogInv'
  BY <1>0, <1>13 DEF Refuse, Finish
<1>14. ASSUME NEW i \in Cmds, Timeout(i) PROVE LogInv'
  BY <1>0, <1>14 DEF Timeout, Goto, Advance
<1>15. ASSUME NEW i \in Cmds, AppendStep(i) PROVE LogInv'
  BY <1>0, <1>15 DEF AppendStep, Goto, Advance, StepsAfter, Stepping
<1>16. ASSUME NEW i \in Cmds, AppendFails(i) PROVE LogInv'
  BY <1>0, <1>16 DEF AppendFails, Goto, Advance, StepsAfter, Stepping
<1>17. ASSUME NEW i \in Cmds, EvalAnswered(i) PROVE LogInv'
  <2>1. CASE Finish(i, "error")
    BY <1>0, <1>17, <2>1 DEF EvalAnswered, Finish
  <2>2. CASE Goto(i, "save")
    BY <1>0, <1>17, <2>2 DEF EvalAnswered, Goto, Advance, StepsAfter, Stepping
  <2> QED
    BY <1>0, <1>17, <2>1, <2>2 DEF EvalAnswered
<1>18. ASSUME NEW i \in Cmds, Save(i) PROVE LogInv'
  <2>1. record' \in Records /\ record'.step_count <= Len(steps) + unlogged
    <3>1. StepsAfter(i) \in Nat
      BY DEF StepsAfter
    <3>2. record' = [state |-> "ok", step_count |-> StepsAfter(i), last_used |-> now]
      BY <1>18 DEF Save
    <3>3. StepsAfter(i) <= Len(steps) + unlogged
      BY <1>18 DEF Save
    <3> QED
      BY <3>1, <3>2, <3>3 DEF States
  <2>2. CASE Goto(i, "readMeta")
    BY <1>0, <1>18, <2>1, <2>2 DEF Save, Goto, Advance
  <2>3. ASSUME NEW t \in Tolds, Finish(i, t) PROVE LogInv'
    BY <1>0, <1>18, <2>1, <2>3 DEF Save, Finish
  <2> QED
    BY <1>0, <1>18, <2>2, <2>3 DEF Save, Tolds
<1>19. ASSUME NEW i \in Cmds, ReadMeta(i) PROVE LogInv'
  BY <1>0, <1>19 DEF ReadMeta, Advance
<1>20. ASSUME NEW i \in Cmds, ReadMetaFails(i) PROVE LogInv'
  BY <1>0, <1>20 DEF ReadMetaFails, Finish
<1>21. ASSUME NEW i \in Cmds, WriteMeta(i) PROVE LogInv'
  <2>1. meta'.steps_total = StepsAfter(i) /\ StepsAfter(i) <= Len(steps) + unlogged
    BY <1>0, <1>21 DEF WriteMeta, Counted
  <2>2. /\ UNCHANGED <<record, log, kind>>
        /\ pc' = [pc EXCEPT ![i] = "done"]
        /\ seen' = [seen EXCEPT ![i] = NoRecord]
        /\ draft' = [draft EXCEPT ![i] = NoMeta]
    BY <1>0, <1>21 DEF WriteMeta, Finish
  <2>3. \A j \in Cmds : /\ seen'[j] = seen[j] \/ seen'[j].step_count = 0
                        /\ draft'[j] = draft[j] \/ draft'[j].steps_total = 0
    BY <2>2
  <2>4. \A j \in Cmds : pc'[j] # "done" => pc'[j] = pc[j] /\ StepsAfter(j)' = StepsAfter(j)
    BY <1>0, <1>0, <2>2
  <2>5. /\ Len(steps) \in Nat /\ unlogged \in Nat
        /\ unlogged' = unlogged /\ steps' = steps /\ record' = record
    BY <2>2
  <2>6. /\ \A j \in Cmds : draft'[j].steps_total <= Len(steps) + unlogged
        /\ \A j \in Cmds : seen'[j].step_count <= Len(steps) + unlogged
    <3>1. /\ \A j \in Cmds : draft[j].steps_total <= Len(steps) + unlogged
          /\ \A j \in Cmds : seen[j].step_count <= Len(steps) + unlogged
      OBVIOUS
    <3> HIDE DEF TypeOK, LogInv, CountWithinLog
    <3> QED
      BY <2>3, <2>5, <3>1
  <2>7. \A j \in Cmds : pc'[j] = "terminate" => kind'[j] = "close"
    BY <2>2
  <2>8. CountWithinLog'
    BY <2>1, <2>5
  <2>9. \A j \in Cmds :
          pc'[j] \in {"save", "readMeta", "writeMeta"} => StepsAfter(j)' <= Len(steps) + unlogged
    <3>1. \A j \in Cmds :
            pc[j] \in {"save", "readMeta", "writeMeta"} => StepsAfter(j) <= Len(steps) + unlogged
      OBVIOUS
    <3> HIDE DEF TypeOK, LogInv, CountWithinLog
    <3> QED
      BY <2>4, <3>1
  <2> QED
    BY <2>5, <2>6, <2>7, <2>8, <2>9
<1>22. ASSUME NEW i \in Cmds, CloseAsk(i) PROVE LogInv'
  BY <1>0, <1>22 DEF CloseAsk, Goto, Advance
<1>23. ASSUME NEW i \in Cmds, CloseDead(i) PROVE LogInv'
  BY <1>0, <1>23 DEF CloseDead, Goto, Advance, StepsAfter, Stepping
<1>24. ASSUME NEW i \in Cmds, Terminate(i) PROVE LogInv'
  BY <1>0, <1>24 DEF Terminate, Signalled, Gone, CutOff, Goto, Advance, StepsAfter, Stepping
<1>25. ASSUME NEW i \in Cmds, CloseWriteMeta(i) PROVE LogInv'
  BY <1>0, <1>25 DEF CloseWriteMeta, Goto, Advance, Ended
<1>26. ASSUME NEW i \in Cmds, CloseRemove(i) PROVE LogInv'
  BY <1>0, <1>26 DEF CloseRemove, Finish
<1>27. ASSUME NEW i \in Cmds, DriverBegin(i) PROVE LogInv'
  BY <1>0, <1>27 DEF DriverBegin, Answered, Goto, Advance
<1>28. ASSUME NEW i \in Cmds, DriverEnd(i) PROVE LogInv'
  BY <1>0, <1>28 DEF DriverEnd, Answered, Goto, Advance
<1>29. ASSUME NEW i \in Cmds, Killed(i) PROVE LogInv'
  BY <1>0, <1>29 DEF Killed, Finish, Broken, Busy
<1>30. ASSUME NEW i \in Cmds, WriteFails(i) PROVE LogInv'
  BY <1>0, <1>30 DEF WriteFails, Finish, Broken
<1>31. CASE UNCHANGED vars
  BY <1>0, <1>31 DEF vars
<1> QED
  BY <1>1, <1>2, <1>3, <1>4, <1>5, <1>6, <1>7, <1>8, <1>9, <1>10, <1>11, <1>12, <1>13,
     <1>14, <1>15, <1>16, <1>17, <1>18, <1>19, <1>20, <1>21, <1>22, <1>23, <1>24,
     <1>25, <1>26, <1>27, <1>28, <1>29, <1>30, <1>31
     DEF Next, Open, Command, Driver

\* Neither the step count of the record nor steps_total runs ahead of steps.yaml
\* and of the steps that could not be appended to it, whatever overlaps, whoever is
\* killed and whichever write fails.
THEOREM CountsWithinLog == Spec => []CountWithinLog
<1>1. Init => LogInv
  BY DEF Init, LogInv, CountWithinLog, NoMeta, BlankMeta, NoRecord, BlankRecord, StepsAfter
<1>2. LogInv => CountWithinLog
  BY DEF LogInv
<1> QED
  BY <1>1, <1>2, Typing, LogStep, PTL DEF Spec
--------------------------------------------------------------------------------
(***************************************************************************)
(* No orphan driver                                                        *)
(***************************************************************************)

\* Where an invocation of a command can be, and that it is told of once, at its end.
PlacesInv ==
  \A i \in Cmds :
    /\ pc[i] # "done" => told[i] = "none"
    /\ pc[i] = "new" => kind[i] = "none"
    /\ pc[i] = "loaded" => kind[i] \in Kinds
    /\ pc[i] \in {"waiting", "answered", "save"} => kind[i] \in {"act", "snap", "eval"}
    /\ pc[i] \in {"readMeta", "writeMeta"} => kind[i] \in {"act", "snap", "close"}
    /\ pc[i] \in {"terminate", "remove"} => kind[i] = "close"

LEMMA PlacesStep == TypeOK /\ PlacesInv /\ [Next]_vars => PlacesInv'
<1> SUFFICES ASSUME TypeOK, PlacesInv, [Next]_vars PROVE PlacesInv'
  OBVIOUS
<1> USE DEF TypeOK, PlacesInv, disk, log, driver, cli, Stepping, Kinds
<1>1. CASE OpenSpawn
  BY <1>1 DEF OpenSpawn
<1>2. CASE OpenAnswer
  BY <1>2 DEF OpenAnswer
<1>3. CASE OpenFails
  BY <1>3 DEF OpenFails, Signalled, Gone, CutOff
<1>4. CASE OpenSave
  BY <1>4 DEF OpenSave
<1>5. CASE OpenMeta
  BY <1>5 DEF OpenMeta
<1>6. CASE OpenKilled
  BY <1>6 DEF OpenKilled
<1>7. CASE DriverExpire
  BY <1>7 DEF DriverExpire
<1>8. CASE DriverLeaves \/ DriverDies
  BY <1>8 DEF DriverLeaves, DriverDies, Gone, CutOff
<1>9. CASE Tick
  BY <1>9 DEF Tick
<1>10. ASSUME NEW i \in Cmds, NEW k \in Kinds, Load(i, k) PROVE PlacesInv'
  BY <1>10 DEF Load, Advance, Known
<1>11. ASSUME NEW i \in Cmds, NEW k \in Kinds, LoadFails(i, k) PROVE PlacesInv'
  BY <1>11 DEF LoadFails, Finish, Known
<1>12. ASSUME NEW i \in Cmds, Attach(i) PROVE PlacesInv'
  BY <1>12 DEF Attach, Goto, Advance
<1>13. ASSUME NEW i \in Cmds, Refuse(i) PROVE PlacesInv'
  BY <1>13 DEF Refuse, Finish
<1>14. ASSUME NEW i \in Cmds, Timeout(i) PROVE PlacesInv'
  BY <1>14 DEF Timeout, Goto, Advance
<1>15. ASSUME NEW i \in Cmds, AppendStep(i) PROVE PlacesInv'
  BY <1>15 DEF AppendStep, Goto, Advance
<1>16. ASSUME NEW i \in Cmds, AppendFails(i) PROVE PlacesInv'
  BY <1>16 DEF AppendFails, Goto, Advance
<1>17. ASSUME NEW i \in Cmds, EvalAnswered(i) PROVE PlacesInv'
  BY <1>17 DEF EvalAnswered, Finish, Goto, Advance
<1>18. ASSUME NEW i \in Cmds, Save(i) PROVE PlacesInv'
  BY <1>18 DEF Save, Finish, Goto, Advance
<1>19. ASSUME NEW i \in Cmds, ReadMeta(i) PROVE PlacesInv'
  BY <1>19 DEF ReadMeta, Advance
<1>20. ASSUME NEW i \in Cmds, ReadMetaFails(i) PROVE PlacesInv'
  BY <1>20 DEF ReadMetaFails, Finish
<1>21. ASSUME NEW i \in Cmds, WriteMeta(i) PROVE PlacesInv'
  BY <1>21 DEF WriteMeta, Finish, Counted
<1>22. ASSUME NEW i \in Cmds, CloseAsk(i) PROVE PlacesInv'
  BY <1>22 DEF CloseAsk, Goto, Advance
<1>23. ASSUME NEW i \in Cmds, CloseDead(i) PROVE PlacesInv'
  BY <1>23 DEF CloseDead, Goto, Advance
<1>24. ASSUME NEW i \in Cmds, Terminate(i) PROVE PlacesInv'
  BY <1>24 DEF Terminate, Signalled, Gone, CutOff, Goto, Advance
<1>25. ASSUME NEW i \in Cmds, CloseWriteMeta(i) PROVE PlacesInv'
  BY <1>25 DEF CloseWriteMeta, Goto, Advance, Ended
<1>26. ASSUME NEW i \in Cmds, CloseRemove(i) PROVE PlacesInv'
  BY <1>26 DEF CloseRemove, Finish
<1>27. ASSUME NEW i \in Cmds, DriverBegin(i) PROVE PlacesInv'
  BY <1>27 DEF DriverBegin, Answered, Goto, Advance
<1>28. ASSUME NEW i \in Cmds, DriverEnd(i) PROVE PlacesInv'
  BY <1>28 DEF DriverEnd, Answered, Goto, Advance
<1>29. ASSUME NEW i \in Cmds, Killed(i) PROVE PlacesInv'
  BY <1>29 DEF Killed, Finish, Broken, Busy
<1>30. ASSUME NEW i \in Cmds, WriteFails(i) PROVE PlacesInv'
  BY <1>30 DEF WriteFails, Finish, Broken
<1>31. CASE UNCHANGED vars
  BY <1>31 DEF vars
<1> QED
  BY <1>1, <1>2, <1>3, <1>4, <1>5, <1>6, <1>7, <1>8, <1>9, <1>10, <1>11, <1>12, <1>13,
     <1>14, <1>15, <1>16, <1>17, <1>18, <1>19, <1>20, <1>21, <1>22, <1>23, <1>24, <1>25,
     <1>26, <1>27, <1>28, <1>29, <1>30, <1>31
     DEF Next, Open, Command, Driver

LEMMA Places == Spec => []PlacesInv
<1>1. Init => PlacesInv
  BY DEF Init, PlacesInv
<1> QED
  BY <1>1, Typing, PlacesStep, PTL DEF Spec

\* Only `open` makes a driver, and only a `close` that has seen its end takes the
\* record away; an `open` that fails ends its driver.
OrphanInv ==
  /\ phase = "failed" => Over
  /\ NoOrphanDriver

LEMMA OrphanStep == TypeOK /\ ClosedInv /\ PlacesInv /\ OrphanInv /\ [Next]_vars => OrphanInv'
<1> SUFFICES ASSUME TypeOK, ClosedInv, PlacesInv, OrphanInv, [Next]_vars PROVE OrphanInv'
  OBVIOUS
<1>0. Intact' => \/ Intact \/ phase = "abandoned"
                 \/ \E i \in Cmds : told[i] # "none" /\ told'[i] # told[i]
  BY DEF Intact
<1> USE DEF TypeOK, Over, PidAlive, AtWork, ClosedInv, PlacesInv, OrphanInv, NoOrphanDriver, Intact, disk, log, driver, cli,
        Stepping, Kinds, NoRecord, BlankRecord, TornRecord
<1>1. CASE OpenSpawn
  BY <1>1 DEF OpenSpawn
<1>2. CASE OpenAnswer
  BY <1>2 DEF OpenAnswer
<1>3. CASE OpenFails
  BY <1>3 DEF OpenFails, Signalled, Gone, CutOff
<1>4. CASE OpenSave
  BY <1>4 DEF OpenSave
<1>5. CASE OpenMeta
  BY <1>5 DEF OpenMeta
<1>6. CASE OpenKilled
  BY <1>6 DEF OpenKilled
<1>7. CASE DriverExpire
  BY <1>7 DEF DriverExpire
<1>8. CASE DriverLeaves \/ DriverDies
  BY <1>8 DEF DriverLeaves, DriverDies, Gone, CutOff
<1>9. CASE Tick
  BY <1>9 DEF Tick
<1>10. ASSUME NEW i \in Cmds, NEW k \in Kinds, Load(i, k) PROVE OrphanInv'
  BY <1>10 DEF Load, Advance, Known
<1>11. ASSUME NEW i \in Cmds, NEW k \in Kinds, LoadFails(i, k) PROVE OrphanInv'
  BY <1>11 DEF LoadFails, Finish, Known
<1>12. ASSUME NEW i \in Cmds, Attach(i) PROVE OrphanInv'
  BY <1>12 DEF Attach, Goto, Advance
<1>13. ASSUME NEW i \in Cmds, Refuse(i) PROVE OrphanInv'
  BY <1>13 DEF Refuse, Finish
<1>14. ASSUME NEW i \in Cmds, Timeout(i) PROVE OrphanInv'
  BY <1>14 DEF Timeout, Goto, Advance
<1>15. ASSUME NEW i \in Cmds, AppendStep(i) PROVE OrphanInv'
  BY <1>15 DEF AppendStep, Goto, Advance
<1>16. ASSUME NEW i \in Cmds, AppendFails(i) PROVE OrphanInv'
  BY <1>16 DEF AppendFails, Goto, Advance
<1>17. ASSUME NEW i \in Cmds, EvalAnswered(i) PROVE OrphanInv'
  BY <1>17 DEF EvalAnswered, Finish, Goto, Advance
<1>18. ASSUME NEW i \in Cmds, Save(i) PROVE OrphanInv'
  BY <1>18 DEF Save, Finish, Goto, Advance
<1>19. ASSUME NEW i \in Cmds, ReadMeta(i) PROVE OrphanInv'
  BY <1>19 DEF ReadMeta, Advance
<1>20. ASSUME NEW i \in Cmds, ReadMetaFails(i) PROVE OrphanInv'
  BY <1>20 DEF ReadMetaFails, Finish
<1>21. ASSUME NEW i \in Cmds, WriteMeta(i) PROVE OrphanInv'
  BY <1>21 DEF WriteMeta, Finish, Counted
<1>22. ASSUME NEW i \in Cmds, CloseAsk(i) PROVE OrphanInv'
  BY <1>22 DEF CloseAsk, Goto, Advance
<1>23. ASSUME NEW i \in Cmds, CloseDead(i) PROVE OrphanInv'
  BY <1>23 DEF CloseDead, Goto, Advance
<1>24. ASSUME NEW i \in Cmds, Terminate(i) PROVE OrphanInv'
  BY <1>24 DEF Terminate, Signalled, Gone, CutOff, Goto, Advance
<1>25. ASSUME NEW i \in Cmds, CloseWriteMeta(i) PROVE OrphanInv'
  BY <1>25 DEF CloseWriteMeta, Goto, Advance, Ended
<1>26. ASSUME NEW i \in Cmds, CloseRemove(i) PROVE OrphanInv'
  BY <1>26 DEF CloseRemove, Finish
<1>27. ASSUME NEW i \in Cmds, DriverBegin(i) PROVE OrphanInv'
  BY <1>27 DEF DriverBegin, Answered, Goto, Advance
<1>28. ASSUME NEW i \in Cmds, DriverEnd(i) PROVE OrphanInv'
  BY <1>28 DEF DriverEnd, Answered, Goto, Advance
<1>29. ASSUME NEW i \in Cmds, Killed(i) PROVE OrphanInv'
  BY <1>29 DEF Killed, Finish, Broken, Busy
<1>30. ASSUME NEW i \in Cmds, WriteFails(i) PROVE OrphanInv'
  BY <1>30 DEF WriteFails, Finish, Broken
<1>31. CASE UNCHANGED vars
  BY <1>31 DEF vars
<1> QED
  BY <1>1, <1>2, <1>3, <1>4, <1>5, <1>6, <1>7, <1>8, <1>9, <1>10, <1>11, <1>12, <1>13,
     <1>14, <1>15, <1>16, <1>17, <1>18, <1>19, <1>20, <1>21, <1>22, <1>23, <1>24, <1>25,
     <1>26, <1>27, <1>28, <1>29, <1>30, <1>31
     DEF Next, Open, Command, Driver

\* As long as nobody was killed and no write failed, no driver runs past `open` that
\* the record of its session does not lead to, however invocations overlap, whatever
\* the driver does and however often the session is closed.
THEOREM NoDriverIsOrphaned == Spec => []NoOrphanDriver
<1>1. Init => ClosedInv
  BY DEF Init, ClosedInv, NoMeta, BlankMeta
<1>2. Init => OrphanInv
  BY DEF Init, OrphanInv, NoOrphanDriver, PidAlive
<1>3. OrphanInv => NoOrphanDriver
  BY DEF OrphanInv
<1> QED
  BY <1>1, <1>2, <1>3, Typing, ClosedStep, Places, OrphanStep, PTL DEF Spec
--------------------------------------------------------------------------------
(***************************************************************************)
(* One invocation at a time                                                *)
(***************************************************************************)

\* A caller that waits for one command before it gives the next, and whose
\* invocations are neither killed nor kept from writing.  The driver may die at
\* any time.
InTurn == MaxConcurrent <= 1 /\ ~Crashes /\ ~DiskFaults

\* Nobody commands a session before it is announced, two invocations are never
\* between their start and their end, and the meta.json that an invocation has read
\* back is still the one on disk.
TurnInv ==
  /\ phase # "abandoned"
  /\ phase # "announced" => /\ meta = NoMeta /\ steps = <<>>
                            /\ \A i \in Cmds : pc[i] = "new"
  /\ phase = "announced" => meta.state = "ok"
  /\ \A i, j \in Cmds : pc[i] \notin {"new", "done"} /\ pc[j] \notin {"new", "done"} => i = j
  /\ \A i \in Cmds : pc[i] = "writeMeta" => draft[i] = meta

LEMMA NoneBusy ==
  ASSUME InTurn, Cardinality(Busy) < MaxConcurrent
  PROVE  \A i \in Cmds : pc[i] \in {"new", "done"}
<1>1. IsFiniteSet(Busy)
  BY ConstantsOK, FS_Subset DEF ConstantsOK, Busy
<1>2. Cardinality(Busy) = 0
  BY <1>1, FS_CardinalityType, ConstantsOK DEF ConstantsOK, InTurn
<1>3. Busy = {}
  BY <1>1, <1>2, FS_EmptySet
<1> QED
  BY <1>3 DEF Busy

LEMMA TurnStep == InTurn /\ TypeOK /\ TurnInv /\ [Next]_vars => TurnInv'
<1> SUFFICES ASSUME InTurn, TypeOK, TurnInv, [Next]_vars PROVE TurnInv'
  OBVIOUS
<1> USE DEF InTurn, TypeOK, TurnInv, disk, log, driver, cli, Known, NoMeta, BlankMeta
<1>1. CASE OpenSpawn
  BY <1>1 DEF OpenSpawn
<1>2. CASE OpenAnswer
  BY <1>2 DEF OpenAnswer
<1>3. CASE OpenFails
  BY <1>3 DEF OpenFails, Signalled, Gone, CutOff
<1>4. CASE OpenSave
  BY <1>4 DEF OpenSave
<1>5. CASE OpenMeta
  BY <1>5 DEF OpenMeta
<1>6. CASE OpenKilled
  BY <1>6 DEF OpenKilled
<1>7. CASE DriverExpire
  BY <1>7 DEF DriverExpire
<1>8. CASE DriverLeaves \/ DriverDies
  BY <1>8 DEF DriverLeaves, DriverDies, Gone, CutOff
<1>9. CASE Tick
  BY <1>9 DEF Tick
<1>10. ASSUME NEW i \in Cmds, NEW k \in Kinds, Load(i, k) PROVE TurnInv'
  BY NoneBusy, <1>10 DEF Load, Advance
<1>11. ASSUME NEW i \in Cmds, NEW k \in Kinds, LoadFails(i, k) PROVE TurnInv'
  BY <1>11 DEF LoadFails, Finish, Known
<1>12. ASSUME NEW i \in Cmds, Attach(i) PROVE TurnInv'
  BY <1>12 DEF Attach, Goto, Advance
<1>13. ASSUME NEW i \in Cmds, Refuse(i) PROVE TurnInv'
  BY <1>13 DEF Refuse, Finish
<1>14. ASSUME NEW i \in Cmds, Timeout(i) PROVE TurnInv'
  BY <1>14 DEF Timeout, Goto, Advance
<1>15. ASSUME NEW i \in Cmds, AppendStep(i) PROVE TurnInv'
  BY <1>15 DEF AppendStep, Goto, Advance
<1>16. ASSUME NEW i \in Cmds, AppendFails(i) PROVE TurnInv'
  BY <1>16 DEF AppendFails, Goto, Advance
<1>17. ASSUME NEW i \in Cmds, EvalAnswered(i) PROVE TurnInv'
  BY <1>17 DEF EvalAnswered, Finish, Goto, Advance
<1>18. ASSUME NEW i \in Cmds, Save(i) PROVE TurnInv'
  BY <1>18 DEF Save, Finish, Goto, Advance
<1>19. ASSUME NEW i \in Cmds, ReadMeta(i) PROVE TurnInv'
  BY <1>19 DEF ReadMeta, Advance
<1>20. ASSUME NEW i \in Cmds, ReadMetaFails(i) PROVE TurnInv'
  BY <1>20 DEF ReadMetaFails, Finish
<1>21. ASSUME NEW i \in Cmds, WriteMeta(i) PROVE TurnInv'
  BY <1>21 DEF WriteMeta, Finish, Counted
<1>22. ASSUME NEW i \in Cmds, CloseAsk(i) PROVE TurnInv'
  BY <1>22 DEF CloseAsk, Goto, Advance
<1>23. ASSUME NEW i \in Cmds, CloseDead(i) PROVE TurnInv'
  BY <1>23 DEF CloseDead, Goto, Advance
<1>24. ASSUME NEW i \in Cmds, Terminate(i) PROVE TurnInv'
  BY <1>24 DEF Terminate, Signalled, Gone, CutOff, Goto, Advance
<1>25. ASSUME NEW i \in Cmds, CloseWriteMeta(i) PROVE TurnInv'
  BY <1>25 DEF CloseWriteMeta, Goto, Advance, Ended
<1>26. ASSUME NEW i \in Cmds, CloseRemove(i) PROVE TurnInv'
  BY <1>26 DEF CloseRemove, Finish
<1>27. ASSUME NEW i \in Cmds, DriverBegin(i) PROVE TurnInv'
  BY <1>27 DEF DriverBegin, Answered, Goto, Advance
<1>28. ASSUME NEW i \in Cmds, DriverEnd(i) PROVE TurnInv'
  BY <1>28 DEF DriverEnd, Answered, Goto, Advance
<1>29. ASSUME NEW i \in Cmds, Killed(i) PROVE TurnInv'
  BY <1>29 DEF Killed, Finish, Broken, Busy
<1>30. ASSUME NEW i \in Cmds, WriteFails(i) PROVE TurnInv'
  BY <1>30 DEF WriteFails, Finish, Broken
<1>31. CASE UNCHANGED vars
  BY <1>31 DEF vars
<1> QED
  BY <1>1, <1>2, <1>3, <1>4, <1>5, <1>6, <1>7, <1>8, <1>9, <1>10, <1>11, <1>12, <1>13,
     <1>14, <1>15, <1>16, <1>17, <1>18, <1>19, <1>20, <1>21, <1>22, <1>23, <1>24, <1>25,
     <1>26, <1>27, <1>28, <1>29, <1>30, <1>31
     DEF Next, Open, Command, Driver

\* While one invocation moves the others have not begun or are over.
LEMMA Alone ==
  ASSUME InTurn, TurnInv, NEW i \in Cmds,
         pc[i] \notin {"new", "done"} \/ Cardinality(Busy) < MaxConcurrent,
         \A j \in Cmds : j # i => pc'[j] = pc[j]
  PROVE  \A j \in Cmds : j # i => pc'[j] \in {"new", "done"}
BY NoneBusy DEF TurnInv

--------------------------------------------------------------------------------
\* The count an invocation will write is that of the log; behind a verdict only
\* further closes get past their check.
CountsOf(i) ==
  /\ pc[i] \in {"loaded", "waiting", "answered"} => seen[i].step_count = Len(steps)
  /\ pc[i] \in {"save", "terminate", "readMeta", "writeMeta", "remove"} =>
       StepsAfter(i) = Len(steps)
  /\ meta.ended => pc[i] \in {"new", "loaded", "done"} \/ kind[i] = "close"

\* The count on record is behind only while the step that was just logged is not
\* saved; the one that a verdict carries never is.
CountsOnDisk ==
  /\ record.state = "ok" => \/ record.step_count = Len(steps)
                            \/ \E i \in Cmds : pc[i] = "save"
  /\ meta.ended => meta.steps_total = Len(steps)

CountsInv == CountsOnDisk /\ \A i \in Cmds : CountsOf(i)

\* A step of one invocation disturbs no other's count.
LEMMA CountsAlone ==
  ASSUME InTurn, TurnInv, NEW i \in Cmds,
         pc[i] \notin {"new", "done"} \/ Cardinality(Busy) < MaxConcurrent,
         \A j \in Cmds : j # i => pc'[j] = pc[j],
         CountsOf(i)', CountsOnDisk'
  PROVE  CountsInv'
<1>1. ASSUME NEW j \in Cmds, j # i PROVE CountsOf(j)'
  <2>1. pc'[j] \in {"new", "done"}
    BY <1>1, Alone
  <2> QED
    BY <2>1 DEF CountsOf
<1> QED
  BY <1>1 DEF CountsInv

LEMMA CountsStep ==
  /\ InTurn /\ TypeOK /\ ClosedInv /\ PlacesInv /\ TurnInv /\ CountsInv
  /\ [Next]_vars
  => CountsInv'
<1> SUFFICES ASSUME InTurn, TypeOK, ClosedInv, PlacesInv, TurnInv, CountsInv, [Next]_vars
             PROVE  CountsInv'
  OBVIOUS
<1>0. CountsOnDisk /\ \A i \in Cmds : CountsOf(i)
  BY DEF CountsInv
<1>1. CASE OpenSpawn
  BY <1>0, <1>1 DEF OpenSpawn, CountsInv, CountsOf, CountsOnDisk, StepsAfter, Stepping,
     disk, log, driver, cli
<1>2. CASE OpenAnswer
  BY <1>0, <1>2 DEF OpenAnswer, CountsInv, CountsOf, CountsOnDisk, StepsAfter, Stepping,
     disk, log, driver, cli
<1>3. CASE OpenFails
  BY <1>0, <1>3 DEF OpenFails, Signalled, Gone, CutOff, CountsInv, CountsOf, CountsOnDisk, StepsAfter, Stepping,
     disk, log, driver, cli
<1>4. CASE OpenSave
  BY <1>0, <1>4 DEF OpenSave, TurnInv, CountsInv, CountsOf, CountsOnDisk, StepsAfter,
     Stepping, disk, log, driver, cli
<1>5. CASE OpenMeta
  BY <1>0, <1>5 DEF OpenMeta, BlankMeta, TurnInv, CountsInv, CountsOf, CountsOnDisk,
     StepsAfter, Stepping, disk, log, driver, cli
<1>6. CASE OpenKilled
  BY <1>0, <1>6 DEF OpenKilled, InTurn
<1>7. CASE DriverExpire
  BY <1>0, <1>7 DEF DriverExpire, CountsInv, CountsOf, CountsOnDisk, StepsAfter, Stepping,
     disk, log, driver, cli
<1>8. CASE DriverLeaves \/ DriverDies
  BY <1>0, <1>8 DEF DriverLeaves, DriverDies, Gone, CutOff, CountsInv, CountsOf, CountsOnDisk, StepsAfter, Stepping,
     disk, log, driver, cli
<1>9. CASE Tick
  BY <1>0, <1>9 DEF Tick, CountsInv, CountsOf, CountsOnDisk, StepsAfter, Stepping, disk,
     log, driver, cli
<1>10. ASSUME NEW i \in Cmds, NEW k \in Kinds, Load(i, k) PROVE CountsInv'
  <2>1. \A j \in Cmds : j # i => pc'[j] = pc[j]
    BY <1>0, <1>10 DEF Load, Advance, Known, TypeOK
  <2>2. pc[i] \notin {"new", "done"} \/ Cardinality(Busy) < MaxConcurrent
    BY <1>0, <1>10 DEF Load
  <2>0. record.step_count = Len(steps) /\ "save" \notin {pc[j] : j \in Cmds}
    BY <1>0, <1>10, NoneBusy DEF Load, CountsOnDisk
  <2>3. CountsOf(i)'
    BY <1>0, <1>10, <2>0 DEF Load, Advance, CountsOf, StepsAfter, Stepping, disk, log,
       TypeOK
  <2>4. CountsOnDisk'
    BY <1>0, <1>10 DEF Load, Advance, Known, CountsOnDisk, disk, log, TypeOK
  <2> QED
    BY <2>1, <2>2, <2>3, <2>4, CountsAlone
<1>11. ASSUME NEW i \in Cmds, NEW k \in Kinds, LoadFails(i, k) PROVE CountsInv'
  <2>1. \A j \in Cmds : j # i => pc'[j] = pc[j]
    BY <1>0, <1>11 DEF LoadFails, Finish, Known, TypeOK
  <2>2. pc[i] \notin {"new", "done"} \/ Cardinality(Busy) < MaxConcurrent
    BY <1>0, <1>11 DEF LoadFails
  <2>3. CountsOf(i)'
    BY <1>0, <1>11 DEF LoadFails, Finish, Known, CountsOf, StepsAfter, Stepping, disk,
       log, TypeOK
  <2>4. CountsOnDisk'
    BY <1>0, <1>11 DEF LoadFails, Finish, Known, CountsOnDisk, disk, log, TypeOK
  <2> QED
    BY <2>1, <2>2, <2>3, <2>4, CountsAlone
<1>12. ASSUME NEW i \in Cmds, Attach(i) PROVE CountsInv'
  <2>1. \A j \in Cmds : j # i => pc'[j] = pc[j]
    BY <1>0, <1>12 DEF Attach, Goto, Advance, TypeOK
  <2>2. pc[i] \notin {"new", "done"} \/ Cardinality(Busy) < MaxConcurrent
    BY <1>0, <1>12 DEF Attach
  <2>3. CountsOf(i)'
    BY <1>0, <1>12 DEF Attach, Goto, Advance, CountsOf, StepsAfter, Stepping, disk, log,
       TypeOK, Usable, ClosedInv, PidAlive, Over
  <2>4. CountsOnDisk'
    BY <1>0, <1>12 DEF Attach, Goto, Advance, CountsOnDisk, disk, log, TypeOK
  <2> QED
    BY <2>1, <2>2, <2>3, <2>4, CountsAlone
<1>13. ASSUME NEW i \in Cmds, Refuse(i) PROVE CountsInv'
  <2>1. \A j \in Cmds : j # i => pc'[j] = pc[j]
    BY <1>0, <1>13 DEF Refuse, Finish, TypeOK
  <2>2. pc[i] \notin {"new", "done"} \/ Cardinality(Busy) < MaxConcurrent
    BY <1>0, <1>13 DEF Refuse
  <2>3. CountsOf(i)'
    BY <1>0, <1>13 DEF Refuse, Finish, CountsOf, StepsAfter, Stepping, disk, log, TypeOK
  <2>4. CountsOnDisk'
    BY <1>0, <1>13 DEF Refuse, Finish, CountsOnDisk, disk, log, TypeOK
  <2> QED
    BY <2>1, <2>2, <2>3, <2>4, CountsAlone
<1>14. ASSUME NEW i \in Cmds, Timeout(i) PROVE CountsInv'
  <2>1. \A j \in Cmds : j # i => pc'[j] = pc[j]
    BY <1>0, <1>14 DEF Timeout, Goto, Advance, TypeOK
  <2>2. pc[i] \notin {"new", "done"} \/ Cardinality(Busy) < MaxConcurrent
    BY <1>0, <1>14 DEF Timeout
  <2>3. CountsOf(i)'
    BY <1>0, <1>14 DEF Timeout, Goto, Advance, CountsOf, StepsAfter, Stepping, disk, log,
       TypeOK
  <2>4. CountsOnDisk'
    BY <1>0, <1>14 DEF Timeout, Goto, Advance, CountsOnDisk, disk, log, TypeOK
  <2> QED
    BY <2>1, <2>2, <2>3, <2>4, CountsAlone
<1>15. ASSUME NEW i \in Cmds, AppendStep(i) PROVE CountsInv'
  <2>1. \A j \in Cmds : j # i => pc'[j] = pc[j]
    BY <1>0, <1>15 DEF AppendStep, Goto, Advance, TypeOK
  <2>2. pc[i] \notin {"new", "done"} \/ Cardinality(Busy) < MaxConcurrent
    BY <1>0, <1>15 DEF AppendStep
  <2>0. Len(Append(steps, i)) = Len(steps) + 1 /\ Len(steps) \in Nat
    BY Appended DEF TypeOK
  <2>3. CountsOf(i)'
    BY <1>0, <1>15, <2>0 DEF AppendStep, Goto, Advance, CountsOf, StepsAfter, Stepping,
       disk, log, TypeOK
  <2>4. CountsOnDisk'
    BY <1>0, <1>15, <2>0 DEF AppendStep, Goto, Advance, CountsOf, CountsOnDisk, disk, log,
       TypeOK, Stepping
  <2> QED
    BY <2>1, <2>2, <2>3, <2>4, CountsAlone
<1>16. ASSUME NEW i \in Cmds, AppendFails(i) PROVE CountsInv'
  BY <1>0, <1>16 DEF AppendFails, InTurn
<1>17. ASSUME NEW i \in Cmds, EvalAnswered(i) PROVE CountsInv'
  <2>1. \A j \in Cmds : j # i => pc'[j] = pc[j]
    BY <1>0, <1>17 DEF EvalAnswered, Finish, Goto, Advance, TypeOK
  <2>2. pc[i] \notin {"new", "done"} \/ Cardinality(Busy) < MaxConcurrent
    BY <1>0, <1>17 DEF EvalAnswered
  <2>3. CountsOf(i)'
    BY <1>0, <1>17 DEF EvalAnswered, Finish, Goto, Advance, CountsOf, StepsAfter,
       Stepping, disk, log, TypeOK, PlacesInv, Kinds
  <2>4. CountsOnDisk'
    BY <1>0, <1>17 DEF EvalAnswered, Finish, Goto, Advance, CountsOnDisk, disk, log, TypeOK
  <2> QED
    BY <2>1, <2>2, <2>3, <2>4, CountsAlone
<1>18. ASSUME NEW i \in Cmds, Save(i) PROVE CountsInv'
  <2>1. \A j \in Cmds : j # i => pc'[j] = pc[j]
    BY <1>0, <1>18 DEF Save, Finish, Goto, Advance, TypeOK
  <2>2. pc[i] \notin {"new", "done"} \/ Cardinality(Busy) < MaxConcurrent
    BY <1>0, <1>18 DEF Save
  <2>3. CountsOf(i)'
    BY <1>0, <1>18 DEF Save, Finish, Goto, Advance, CountsOf, StepsAfter, Stepping, disk,
       log, TypeOK
  <2>4. CountsOnDisk'
    BY <1>0, <1>18 DEF Save, Goto, Advance, Finish, CountsOf, CountsOnDisk, disk, log,
       TypeOK
  <2> QED
    BY <2>1, <2>2, <2>3, <2>4, CountsAlone
<1>19. ASSUME NEW i \in Cmds, ReadMeta(i) PROVE CountsInv'
  <2>1. \A j \in Cmds : j # i => pc'[j] = pc[j]
    BY <1>0, <1>19 DEF ReadMeta, Advance, TypeOK
  <2>2. pc[i] \notin {"new", "done"} \/ Cardinality(Busy) < MaxConcurrent
    BY <1>0, <1>19 DEF ReadMeta
  <2>3. CountsOf(i)'
    BY <1>0, <1>19 DEF ReadMeta, Advance, CountsOf, StepsAfter, Stepping, disk, log, TypeOK
  <2>4. CountsOnDisk'
    BY <1>0, <1>19 DEF ReadMeta, Advance, CountsOnDisk, disk, log, TypeOK
  <2> QED
    BY <2>1, <2>2, <2>3, <2>4, CountsAlone
<1>20. ASSUME NEW i \in Cmds, ReadMetaFails(i) PROVE CountsInv'
  <2>1. \A j \in Cmds : j # i => pc'[j] = pc[j]
    BY <1>0, <1>20 DEF ReadMetaFails, Finish, TypeOK
  <2>2. pc[i] \notin {"new", "done"} \/ Cardinality(Busy) < MaxConcurrent
    BY <1>0, <1>20 DEF ReadMetaFails
  <2>3. CountsOf(i)'
    BY <1>0, <1>20 DEF ReadMetaFails, Finish, CountsOf, StepsAfter, Stepping, disk, log,
       TypeOK
  <2>4. CountsOnDisk'
    BY <1>0, <1>20 DEF ReadMetaFails, Finish, CountsOnDisk, disk, log, TypeOK
  <2> QED
    BY <2>1, <2>2, <2>3, <2>4, CountsAlone
<1>21. ASSUME NEW i \in Cmds, WriteMeta(i) PROVE CountsInv'
  <2>1. \A j \in Cmds : j # i => pc'[j] = pc[j]
    BY <1>0, <1>21 DEF WriteMeta, Finish, Counted, TypeOK
  <2>2. pc[i] \notin {"new", "done"} \/ Cardinality(Busy) < MaxConcurrent
    BY <1>0, <1>21 DEF WriteMeta
  <2>3. CountsOf(i)'
    BY <1>0, <1>21 DEF WriteMeta, Finish, Counted, CountsOf, StepsAfter, Stepping, disk,
       log, TypeOK, TurnInv, Counted
  <2>4. CountsOnDisk'
    BY <1>0, <1>21 DEF WriteMeta, Goto, Advance, Finish, CountsOf, CountsOnDisk, disk,
       log, TypeOK, Counted, TurnInv, Stepping
  <2> QED
    BY <2>1, <2>2, <2>3, <2>4, CountsAlone
<1>22. ASSUME NEW i \in Cmds, CloseAsk(i) PROVE CountsInv'
  <2>1. \A j \in Cmds : j # i => pc'[j] = pc[j]
    BY <1>0, <1>22 DEF CloseAsk, Goto, Advance, TypeOK
  <2>2. pc[i] \notin {"new", "done"} \/ Cardinality(Busy) < MaxConcurrent
    BY <1>0, <1>22 DEF CloseAsk
  <2>3. CountsOf(i)'
    BY <1>0, <1>22 DEF CloseAsk, Goto, Advance, CountsOf, StepsAfter, Stepping, disk, log,
       TypeOK, PlacesInv, Kinds
  <2>4. CountsOnDisk'
    BY <1>0, <1>22 DEF CloseAsk, Goto, Advance, CountsOnDisk, disk, log, TypeOK
  <2> QED
    BY <2>1, <2>2, <2>3, <2>4, CountsAlone
<1>23. ASSUME NEW i \in Cmds, CloseDead(i) PROVE CountsInv'
  <2>1. \A j \in Cmds : j # i => pc'[j] = pc[j]
    BY <1>0, <1>23 DEF CloseDead, Goto, Advance, TypeOK
  <2>2. pc[i] \notin {"new", "done"} \/ Cardinality(Busy) < MaxConcurrent
    BY <1>0, <1>23 DEF CloseDead
  <2>3. CountsOf(i)'
    BY <1>0, <1>23 DEF CloseDead, Goto, Advance, CountsOf, StepsAfter, Stepping, disk,
       log, TypeOK, PlacesInv, Kinds
  <2>4. CountsOnDisk'
    BY <1>0, <1>23 DEF CloseDead, Goto, Advance, CountsOnDisk, disk, log, TypeOK
  <2> QED
    BY <2>1, <2>2, <2>3, <2>4, CountsAlone
<1>24. ASSUME NEW i \in Cmds, Terminate(i) PROVE CountsInv'
  <2>1. \A j \in Cmds : j # i => pc'[j] = pc[j]
    BY <1>0, <1>24 DEF Terminate, Signalled, Gone, CutOff, Goto, Advance, TypeOK
  <2>2. pc[i] \notin {"new", "done"} \/ Cardinality(Busy) < MaxConcurrent
    BY <1>0, <1>24 DEF Terminate, Signalled, Gone, CutOff
  <2>3. CountsOf(i)'
    BY <1>0, <1>24 DEF Terminate, Signalled, Gone, CutOff, Goto, Advance, CountsOf, StepsAfter, Stepping, disk,
       log, TypeOK
  <2>4. CountsOnDisk'
    BY <1>0, <1>24 DEF Terminate, Signalled, Gone, CutOff, Goto, Advance, CountsOnDisk, disk, log, TypeOK
  <2> QED
    BY <2>1, <2>2, <2>3, <2>4, CountsAlone
<1>25. ASSUME NEW i \in Cmds, CloseWriteMeta(i) PROVE CountsInv'
  <2>1. \A j \in Cmds : j # i => pc'[j] = pc[j]
    BY <1>0, <1>25 DEF CloseWriteMeta, Goto, Advance, Ended, TypeOK
  <2>2. pc[i] \notin {"new", "done"} \/ Cardinality(Busy) < MaxConcurrent
    BY <1>0, <1>25 DEF CloseWriteMeta
  <2>0. seen[i].step_count = Len(steps)
    <3>1. seen[i].step_count \in Nat
      BY DEF TypeOK, Records
    <3>2. StepsAfter(i) = Len(steps) /\ ~Stepping(i)
      BY <1>0, <1>25 DEF CloseWriteMeta, CountsOf, Stepping
    <3> QED
      BY <3>1, <3>2 DEF StepsAfter
  <2>3. CountsOf(i)'
    BY <1>0, <1>25 DEF CloseWriteMeta, Goto, Advance, Ended, CountsOf, StepsAfter,
       Stepping, disk, log, TypeOK, TurnInv, Ended
  <2>4. CountsOnDisk'
    BY <1>0, <1>25, <2>0 DEF CloseWriteMeta, Goto, Advance, CountsOnDisk, disk, log, Ended
  <2> QED
    BY <2>1, <2>2, <2>3, <2>4, CountsAlone
<1>26. ASSUME NEW i \in Cmds, CloseRemove(i) PROVE CountsInv'
  <2>1. \A j \in Cmds : j # i => pc'[j] = pc[j]
    BY <1>0, <1>26 DEF CloseRemove, Finish, TypeOK
  <2>2. pc[i] \notin {"new", "done"} \/ Cardinality(Busy) < MaxConcurrent
    BY <1>0, <1>26 DEF CloseRemove
  <2>3. CountsOf(i)'
    BY <1>0, <1>26 DEF CloseRemove, Finish, CountsOf, StepsAfter, Stepping, disk, log,
       TypeOK
  <2>4. CountsOnDisk'
    BY <1>0, <1>26 DEF CloseRemove, Finish, CountsOnDisk, disk, log, TypeOK, NoRecord,
       BlankRecord
  <2> QED
    BY <2>1, <2>2, <2>3, <2>4, CountsAlone
<1>27. ASSUME NEW i \in Cmds, DriverBegin(i) PROVE CountsInv'
  <2>1. CASE pc[i] = "waiting" /\ pc' = [pc EXCEPT ![i] = "answered"]
    <3>1. \A j \in Cmds : j # i => pc'[j] = pc[j]
      BY <2>1 DEF TypeOK
    <3>2. CountsOf(i)' /\ CountsOnDisk'
      BY <1>0, <1>27, <2>1 DEF DriverBegin, Answered, Goto, Advance, CountsOf, CountsOnDisk,
         StepsAfter, Stepping, disk, log, cli, TypeOK
    <3> QED
      BY <2>1, <3>1, <3>2, CountsAlone
  <2>2. CASE UNCHANGED <<pc, seen, told, answer>>
    BY <1>0, <1>27, <2>2 DEF DriverBegin, Answered, CountsInv, CountsOf, CountsOnDisk, StepsAfter,
       Stepping, disk, log, cli
  <2> QED
    BY <1>0, <1>27, <2>1, <2>2 DEF DriverBegin, Answered, Goto, Advance, cli
<1>28. ASSUME NEW i \in Cmds, DriverEnd(i) PROVE CountsInv'
  <2>1. CASE pc[i] = "waiting" /\ pc' = [pc EXCEPT ![i] = "answered"]
    <3>1. \A j \in Cmds : j # i => pc'[j] = pc[j]
      BY <2>1 DEF TypeOK
    <3>2. CountsOf(i)' /\ CountsOnDisk'
      BY <1>0, <1>28, <2>1 DEF DriverEnd, Answered, Goto, Advance, CountsOf, CountsOnDisk,
         StepsAfter, Stepping, disk, log, cli, TypeOK
    <3> QED
      BY <2>1, <3>1, <3>2, CountsAlone
  <2>2. CASE UNCHANGED <<pc, seen, told, answer>>
    BY <1>0, <1>28, <2>2 DEF DriverEnd, Answered, CountsInv, CountsOf, CountsOnDisk, StepsAfter,
       Stepping, disk, log, cli
  <2> QED
    BY <1>0, <1>28, <2>1, <2>2 DEF DriverEnd, Answered, Goto, Advance, cli
<1>29. ASSUME NEW i \in Cmds, Killed(i) PROVE CountsInv'
  BY <1>0, <1>29 DEF Killed, InTurn
<1>30. ASSUME NEW i \in Cmds, WriteFails(i) PROVE CountsInv'
  BY <1>0, <1>30 DEF WriteFails, InTurn
<1>31. CASE UNCHANGED vars
  BY <1>0, <1>31 DEF vars, CountsInv, CountsOf, CountsOnDisk, StepsAfter, Stepping, disk,
     log, driver, cli
<1> QED
  BY <1>1, <1>2, <1>3, <1>4, <1>5, <1>6, <1>7, <1>8, <1>9, <1>10, <1>11, <1>12, <1>13,
     <1>14, <1>15, <1>16, <1>17, <1>18, <1>19, <1>20, <1>21, <1>22, <1>23, <1>24, <1>25,
     <1>26, <1>27, <1>28, <1>29, <1>30, <1>31
     DEF Next, Open, Command, Driver

--------------------------------------------------------------------------------
\* What a step is answered, until it is counted: only `act` proves nothing.
AnswerOf(i) ==
  pc[i] \in {"answered", "save", "readMeta", "writeMeta"} /\ Stepping(i) =>
    /\ answer[i] \in {"ok", "failed", "nothing", "error"}
    /\ answer[i] = "nothing" => kind[i] = "act"

\* meta.json counts as bad exactly the steps whose callers were told so, and its
\* verdict is the one of these counts.
LedgerOnDisk ==
  /\ meta.steps_failed = ToldBad({"failed", "error"})
  /\ meta.steps_nothing = ToldBad({"nothing"})
  /\ meta.verdict = IF meta.ended THEN Verdict(meta) ELSE "open"

LedgerInv == LedgerOnDisk /\ \A i \in Cmds : AnswerOf(i)

LEMMA LedgerAlone ==
  ASSUME InTurn, TurnInv, NEW i \in Cmds,
         pc[i] \notin {"new", "done"} \/ Cardinality(Busy) < MaxConcurrent,
         \A j \in Cmds : j # i => pc'[j] = pc[j],
         AnswerOf(i)', LedgerOnDisk'
  PROVE  LedgerInv'
<1>1. ASSUME NEW j \in Cmds, j # i PROVE AnswerOf(j)'
  <2>1. pc'[j] \in {"new", "done"}
    BY <1>1, Alone
  <2> QED
    BY <2>1 DEF AnswerOf
<1> QED
  BY <1>1 DEF LedgerInv

\* The end of an invocation adds it, at most, to the steps told to be bad.
LEMMA ToldOnce ==
  ASSUME NEW what, "none" \notin what, NEW i \in Cmds, told[i] = "none",
         \A j \in Cmds : j # i => told'[j] = told[j] /\ kind'[j] = kind[j]
  PROVE  /\ i \notin ToldBad(what)
         /\ Stepping(i)' /\ told'[i] \in what => ToldBad(what)' = ToldBad(what) \cup {i}
         /\ ~(Stepping(i)' /\ told'[i] \in what) => ToldBad(what)' = ToldBad(what)
BY DEF ToldBad, Stepping

LEMMA LedgerSame ==
  LedgerOnDisk /\ UNCHANGED <<meta, kind, told>> => LedgerOnDisk'
<1> SUFFICES ASSUME LedgerOnDisk, UNCHANGED <<meta, kind, told>> PROVE LedgerOnDisk'
  OBVIOUS
<1>1. /\ ToldBad({"failed", "error"})' = ToldBad({"failed", "error"})
      /\ ToldBad({"nothing"})' = ToldBad({"nothing"})
  BY DEF ToldBad, Stepping
<1> QED
  BY <1>1 DEF LedgerOnDisk, Verdict

\* An end that tells of no bad step leaves the ledger as it is.
LEMMA LedgerKept ==
  ASSUME LedgerOnDisk, meta' = meta, NEW i \in Cmds, told[i] = "none",
         \A j \in Cmds : j # i => told'[j] = told[j] /\ kind'[j] = kind[j],
         ~(Stepping(i)' /\ told'[i] \in {"failed", "error", "nothing"})
  PROVE  LedgerOnDisk'
<1>1. /\ ToldBad({"failed", "error"})' = ToldBad({"failed", "error"})
      /\ ToldBad({"nothing"})' = ToldBad({"nothing"})
  BY ToldOnce
<1> QED
  BY <1>1 DEF LedgerOnDisk, Verdict

LEMMA LedgerStep ==
  /\ InTurn /\ TypeOK /\ PlacesInv /\ TurnInv /\ CountsInv /\ LedgerInv
  /\ [Next]_vars
  => LedgerInv'
<1> SUFFICES ASSUME InTurn, TypeOK, PlacesInv, TurnInv, CountsInv, LedgerInv, [Next]_vars
             PROVE  LedgerInv'
  OBVIOUS
<1>0. /\ LedgerOnDisk /\ \A i \in Cmds : AnswerOf(i)
      /\ \A i \in Cmds : CountsOf(i)
  BY DEF LedgerInv, CountsInv
<1>1. CASE OpenSpawn
  BY <1>0, <1>1, LedgerSame DEF OpenSpawn, LedgerInv, AnswerOf, Stepping, disk, log,
     driver, cli
<1>2. CASE OpenAnswer
  BY <1>0, <1>2, LedgerSame DEF OpenAnswer, LedgerInv, AnswerOf, Stepping, disk, log,
     driver, cli
<1>3. CASE OpenFails
  BY <1>0, <1>3, LedgerSame DEF OpenFails, Signalled, Gone, CutOff, LedgerInv, AnswerOf, Stepping, disk, log,
     driver, cli
<1>4. CASE OpenSave
  BY <1>0, <1>4, LedgerSame DEF OpenSave, LedgerInv, AnswerOf, Stepping, disk, log,
     driver, cli
<1>5. CASE OpenMeta
  <2>0. meta = BlankMeta("absent") /\ meta' = BlankMeta("ok")
    BY <1>0, <1>5 DEF OpenMeta, TurnInv, NoMeta
  <2>1. /\ meta'.steps_failed = meta.steps_failed
        /\ meta'.steps_nothing = meta.steps_nothing
        /\ meta.verdict = "open" /\ meta'.verdict = "open"
        /\ ~meta.ended /\ ~meta'.ended
    BY <2>0 DEF BlankMeta
  <2>2. UNCHANGED <<pc, kind, told, answer>>
    BY <1>0, <1>5 DEF OpenMeta, cli
  <2>3. /\ ToldBad({"failed", "error"})' = ToldBad({"failed", "error"})
        /\ ToldBad({"nothing"})' = ToldBad({"nothing"})
    BY <2>2 DEF ToldBad, Stepping
  <2> QED
    BY <1>0, <2>1, <2>2, <2>3 DEF LedgerInv, LedgerOnDisk, Verdict, AnswerOf, Stepping
<1>6. CASE OpenKilled
  BY <1>0, <1>6, LedgerSame DEF OpenKilled, LedgerInv, AnswerOf, Stepping, disk, log,
     driver, cli
<1>7. CASE DriverExpire
  BY <1>0, <1>7, LedgerSame DEF DriverExpire, LedgerInv, AnswerOf, Stepping, disk, log,
     driver, cli
<1>8. CASE DriverLeaves \/ DriverDies
  BY <1>0, <1>8, LedgerSame DEF DriverLeaves, DriverDies, Gone, CutOff, LedgerInv, AnswerOf, Stepping, disk, log,
     driver, cli
<1>9. CASE Tick
  BY <1>0, <1>9, LedgerSame DEF Tick, LedgerInv, AnswerOf, Stepping, disk, log, driver, cli
<1>10. ASSUME NEW i \in Cmds, NEW k \in Kinds, Load(i, k) PROVE LedgerInv'
  <2>1. \A j \in Cmds : j # i => pc'[j] = pc[j]
    BY <1>0, <1>10 DEF Load, Advance, Known, TypeOK
  <2>2. pc[i] \notin {"new", "done"} \/ Cardinality(Busy) < MaxConcurrent
    BY <1>0, <1>10 DEF Load
  <2>0. /\ told[i] = "none" /\ meta' = meta
        /\ \A j \in Cmds : j # i => told'[j] = told[j] /\ kind'[j] = kind[j]
        /\ ~(Stepping(i)' /\ told'[i] \in {"failed", "error", "nothing"})
    BY <1>0, <1>10 DEF Load, Advance, Known, Stepping, PlacesInv, TypeOK, disk
  <2>3. AnswerOf(i)'
    BY <1>0, <1>10 DEF Load, Advance, Known, AnswerOf, Stepping, disk, TypeOK, PlacesInv
  <2>4. LedgerOnDisk'
    BY <1>0, <1>10, <2>0, LedgerKept DEF Load, disk
  <2> QED
    BY <2>1, <2>2, <2>3, <2>4, LedgerAlone
<1>11. ASSUME NEW i \in Cmds, NEW k \in Kinds, LoadFails(i, k) PROVE LedgerInv'
  <2>1. \A j \in Cmds : j # i => pc'[j] = pc[j]
    BY <1>0, <1>11 DEF LoadFails, Finish, Known, TypeOK
  <2>2. pc[i] \notin {"new", "done"} \/ Cardinality(Busy) < MaxConcurrent
    BY <1>0, <1>11 DEF LoadFails
  <2>0. /\ told[i] = "none" /\ meta' = meta
        /\ \A j \in Cmds : j # i => told'[j] = told[j] /\ kind'[j] = kind[j]
        /\ ~(Stepping(i)' /\ told'[i] \in {"failed", "error", "nothing"})
    BY <1>0, <1>11 DEF LoadFails, Finish, Known, Stepping, PlacesInv, TypeOK, disk
  <2>3. AnswerOf(i)'
    BY <1>0, <1>11 DEF LoadFails, Finish, Known, AnswerOf, Stepping, disk, TypeOK, PlacesInv
  <2>4. LedgerOnDisk'
    BY <1>0, <1>11, <2>0, LedgerKept DEF LoadFails, disk
  <2> QED
    BY <2>1, <2>2, <2>3, <2>4, LedgerAlone
<1>12. ASSUME NEW i \in Cmds, Attach(i) PROVE LedgerInv'
  <2>1. \A j \in Cmds : j # i => pc'[j] = pc[j]
    BY <1>0, <1>12 DEF Attach, Goto, Advance, TypeOK
  <2>2. pc[i] \notin {"new", "done"} \/ Cardinality(Busy) < MaxConcurrent
    BY <1>0, <1>12 DEF Attach
  <2>3. AnswerOf(i)'
    BY <1>0, <1>12 DEF Attach, Goto, Advance, AnswerOf, Stepping, disk, TypeOK, PlacesInv
  <2>4. LedgerOnDisk'
    BY <1>0, <1>12, LedgerSame DEF Attach, Goto, Advance, disk, cli
  <2> QED
    BY <2>1, <2>2, <2>3, <2>4, LedgerAlone
<1>13. ASSUME NEW i \in Cmds, Refuse(i) PROVE LedgerInv'
  <2>1. \A j \in Cmds : j # i => pc'[j] = pc[j]
    BY <1>0, <1>13 DEF Refuse, Finish, TypeOK
  <2>2. pc[i] \notin {"new", "done"} \/ Cardinality(Busy) < MaxConcurrent
    BY <1>0, <1>13 DEF Refuse
  <2>0. /\ told[i] = "none" /\ meta' = meta
        /\ \A j \in Cmds : j # i => told'[j] = told[j] /\ kind'[j] = kind[j]
        /\ ~(Stepping(i)' /\ told'[i] \in {"failed", "error", "nothing"})
    BY <1>0, <1>13 DEF Refuse, Finish, Stepping, PlacesInv, TypeOK, disk
  <2>3. AnswerOf(i)'
    BY <1>0, <1>13 DEF Refuse, Finish, AnswerOf, Stepping, disk, TypeOK, PlacesInv
  <2>4. LedgerOnDisk'
    BY <1>0, <1>13, <2>0, LedgerKept DEF Refuse, disk
  <2> QED
    BY <2>1, <2>2, <2>3, <2>4, LedgerAlone
<1>14. ASSUME NEW i \in Cmds, Timeout(i) PROVE LedgerInv'
  <2>1. \A j \in Cmds : j # i => pc'[j] = pc[j]
    BY <1>0, <1>14 DEF Timeout, Goto, Advance, TypeOK
  <2>2. pc[i] \notin {"new", "done"} \/ Cardinality(Busy) < MaxConcurrent
    BY <1>0, <1>14 DEF Timeout
  <2>3. AnswerOf(i)'
    BY <1>0, <1>14 DEF Timeout, Goto, Advance, AnswerOf, Stepping, disk, TypeOK, PlacesInv
  <2>4. LedgerOnDisk'
    BY <1>0, <1>14, LedgerSame DEF Timeout, Goto, Advance, disk, cli
  <2> QED
    BY <2>1, <2>2, <2>3, <2>4, LedgerAlone
<1>15. ASSUME NEW i \in Cmds, AppendStep(i) PROVE LedgerInv'
  <2>1. \A j \in Cmds : j # i => pc'[j] = pc[j]
    BY <1>0, <1>15 DEF AppendStep, Goto, Advance, TypeOK
  <2>2. pc[i] \notin {"new", "done"} \/ Cardinality(Busy) < MaxConcurrent
    BY <1>0, <1>15 DEF AppendStep
  <2>3. AnswerOf(i)'
    BY <1>0, <1>15 DEF AppendStep, Goto, Advance, AnswerOf, Stepping, disk, TypeOK,
       PlacesInv
  <2>4. LedgerOnDisk'
    BY <1>0, <1>15, LedgerSame DEF AppendStep, Goto, Advance, disk, cli
  <2> QED
    BY <2>1, <2>2, <2>3, <2>4, LedgerAlone
<1>16. ASSUME NEW i \in Cmds, AppendFails(i) PROVE LedgerInv'
  BY <1>0, <1>16 DEF AppendFails, InTurn
<1>17. ASSUME NEW i \in Cmds, EvalAnswered(i) PROVE LedgerInv'
  <2>1. \A j \in Cmds : j # i => pc'[j] = pc[j]
    BY <1>0, <1>17 DEF EvalAnswered, Finish, Goto, Advance, TypeOK
  <2>2. pc[i] \notin {"new", "done"} \/ Cardinality(Busy) < MaxConcurrent
    BY <1>0, <1>17 DEF EvalAnswered
  <2>0. \/ UNCHANGED <<meta, kind, told>>
        \/ /\ told[i] = "none" /\ meta' = meta
           /\ \A j \in Cmds : j # i => told'[j] = told[j] /\ kind'[j] = kind[j]
           /\ ~(Stepping(i)' /\ told'[i] \in {"failed", "error", "nothing"})
    BY <1>0, <1>17 DEF EvalAnswered, Finish, Goto, Advance, Stepping, PlacesInv, TypeOK,
       disk
  <2>3. AnswerOf(i)'
    BY <1>0, <1>17 DEF EvalAnswered, Finish, Goto, Advance, AnswerOf, Stepping, disk,
       TypeOK, PlacesInv
  <2>4. LedgerOnDisk'
    BY <1>0, <1>17, <2>0, LedgerSame, LedgerKept
  <2> QED
    BY <2>1, <2>2, <2>3, <2>4, LedgerAlone
<1>18. ASSUME NEW i \in Cmds, Save(i) PROVE LedgerInv'
  <2>1. \A j \in Cmds : j # i => pc'[j] = pc[j]
    BY <1>0, <1>18 DEF Save, Finish, Goto, Advance, TypeOK
  <2>2. pc[i] \notin {"new", "done"} \/ Cardinality(Busy) < MaxConcurrent
    BY <1>0, <1>18 DEF Save
  <2>0. \/ UNCHANGED <<meta, kind, told>>
        \/ /\ told[i] = "none" /\ meta' = meta
           /\ \A j \in Cmds : j # i => told'[j] = told[j] /\ kind'[j] = kind[j]
           /\ ~(Stepping(i)' /\ told'[i] \in {"failed", "error", "nothing"})
    BY <1>0, <1>18 DEF Save, Finish, Goto, Advance, Stepping, PlacesInv, TypeOK, disk
  <2>3. AnswerOf(i)'
    BY <1>0, <1>18 DEF Save, Finish, Goto, Advance, AnswerOf, Stepping, disk, TypeOK,
       PlacesInv
  <2>4. LedgerOnDisk'
    BY <1>0, <1>18, <2>0, LedgerSame, LedgerKept
  <2> QED
    BY <2>1, <2>2, <2>3, <2>4, LedgerAlone
<1>19. ASSUME NEW i \in Cmds, ReadMeta(i) PROVE LedgerInv'
  <2>1. \A j \in Cmds : j # i => pc'[j] = pc[j]
    BY <1>0, <1>19 DEF ReadMeta, Advance, TypeOK
  <2>2. pc[i] \notin {"new", "done"} \/ Cardinality(Busy) < MaxConcurrent
    BY <1>0, <1>19 DEF ReadMeta
  <2>3. AnswerOf(i)'
    BY <1>0, <1>19 DEF ReadMeta, Advance, AnswerOf, Stepping, disk, TypeOK, PlacesInv
  <2>4. LedgerOnDisk'
    BY <1>0, <1>19, LedgerSame DEF ReadMeta, Advance, disk, cli
  <2> QED
    BY <2>1, <2>2, <2>3, <2>4, LedgerAlone
<1>20. ASSUME NEW i \in Cmds, ReadMetaFails(i) PROVE LedgerInv'
  <2>1. BeingWritten
    BY <1>0, <1>20 DEF ReadMetaFails, TurnInv
  <2> QED
    BY <1>0, <1>20, <2>1 DEF ReadMetaFails, BeingWritten, TurnInv
<1>21. ASSUME NEW i \in Cmds, WriteMeta(i) PROVE LedgerInv'
  <2>1. \A j \in Cmds : j # i => pc'[j] = pc[j]
    BY <1>0, <1>21 DEF WriteMeta, Finish, Counted, TypeOK
  <2>2. pc[i] \notin {"new", "done"} \/ Cardinality(Busy) < MaxConcurrent
    BY <1>0, <1>21 DEF WriteMeta
  <2>5. /\ told[i] = "none" /\ ~meta.ended /\ draft[i] = meta /\ Stepping(i) /\ Stepping(i)'
        /\ \A j \in Cmds : j # i => told'[j] = told[j] /\ kind'[j] = kind[j]
        /\ told'[i] = Report(i)
        /\ meta' = Counted(meta, StepsAfter(i), meta.steps_failed \cup Failed(i),
                           meta.steps_nothing \cup Nothing(i))
    BY <1>0, <1>21 DEF WriteMeta, Finish, Stepping, PlacesInv, TurnInv, CountsOf, TypeOK
  <2>6. /\ ToldBad({"failed", "error"})' = ToldBad({"failed", "error"}) \cup Failed(i)
        /\ ToldBad({"nothing"})' = ToldBad({"nothing"}) \cup Nothing(i)
    <3>1. Report(i) \in {"failed", "error"} => Failed(i) = {i}
      BY <1>0, <1>21 DEF Report, Failed, AnswerOf, WriteMeta
    <3>2. Report(i) \notin {"failed", "error"} => Failed(i) = {}
      BY <1>0, <1>21 DEF Report, Failed, AnswerOf, WriteMeta
    <3>3. Report(i) = "nothing" => Nothing(i) = {i}
      BY <1>0, <1>21 DEF Report, Nothing, AnswerOf, WriteMeta
    <3>4. Report(i) # "nothing" => Nothing(i) = {}
      BY <1>0, <1>21 DEF Report, Nothing, AnswerOf, WriteMeta
    <3> QED
      BY <2>5, <3>1, <3>2, <3>3, <3>4, ToldOnce
  <2>7. LedgerOnDisk
    BY <1>0, <1>0
  <2>3. AnswerOf(i)'
    BY <1>0, <1>21 DEF WriteMeta, Finish, Counted, AnswerOf, Stepping, disk, TypeOK,
       PlacesInv
  <2>4. LedgerOnDisk'
    BY <1>0, <1>21, <2>5, <2>6, <2>7 DEF LedgerOnDisk, Counted
  <2> QED
    BY <2>1, <2>2, <2>3, <2>4, LedgerAlone
<1>22. ASSUME NEW i \in Cmds, CloseAsk(i) PROVE LedgerInv'
  <2>1. \A j \in Cmds : j # i => pc'[j] = pc[j]
    BY <1>0, <1>22 DEF CloseAsk, Goto, Advance, TypeOK
  <2>2. pc[i] \notin {"new", "done"} \/ Cardinality(Busy) < MaxConcurrent
    BY <1>0, <1>22 DEF CloseAsk
  <2>3. AnswerOf(i)'
    BY <1>0, <1>22 DEF CloseAsk, Goto, Advance, AnswerOf, Stepping, disk, TypeOK, PlacesInv
  <2>4. LedgerOnDisk'
    BY <1>0, <1>22, LedgerSame DEF CloseAsk, Goto, Advance, disk, cli
  <2> QED
    BY <2>1, <2>2, <2>3, <2>4, LedgerAlone
<1>23. ASSUME NEW i \in Cmds, CloseDead(i) PROVE LedgerInv'
  <2>1. \A j \in Cmds : j # i => pc'[j] = pc[j]
    BY <1>0, <1>23 DEF CloseDead, Goto, Advance, TypeOK
  <2>2. pc[i] \notin {"new", "done"} \/ Cardinality(Busy) < MaxConcurrent
    BY <1>0, <1>23 DEF CloseDead
  <2>3. AnswerOf(i)'
    BY <1>0, <1>23 DEF CloseDead, Goto, Advance, AnswerOf, Stepping, disk, TypeOK, PlacesInv
  <2>4. LedgerOnDisk'
    BY <1>0, <1>23, LedgerSame DEF CloseDead, Goto, Advance, disk, cli
  <2> QED
    BY <2>1, <2>2, <2>3, <2>4, LedgerAlone
<1>24. ASSUME NEW i \in Cmds, Terminate(i) PROVE LedgerInv'
  <2>1. \A j \in Cmds : j # i => pc'[j] = pc[j]
    BY <1>0, <1>24 DEF Terminate, Signalled, Gone, CutOff, Goto, Advance, TypeOK
  <2>2. pc[i] \notin {"new", "done"} \/ Cardinality(Busy) < MaxConcurrent
    BY <1>0, <1>24 DEF Terminate, Signalled, Gone, CutOff
  <2>3. AnswerOf(i)'
    BY <1>0, <1>24 DEF Terminate, Signalled, Gone, CutOff, Goto, Advance, AnswerOf, Stepping, disk, TypeOK, PlacesInv
  <2>4. LedgerOnDisk'
    BY <1>0, <1>24, LedgerSame DEF Terminate, Signalled, Gone, CutOff, Goto, Advance, disk, cli
  <2> QED
    BY <2>1, <2>2, <2>3, <2>4, LedgerAlone
<1>25. ASSUME NEW i \in Cmds, CloseWriteMeta(i) PROVE LedgerInv'
  <2>1. \A j \in Cmds : j # i => pc'[j] = pc[j]
    BY <1>0, <1>25 DEF CloseWriteMeta, Goto, Advance, Ended, TypeOK
  <2>2. pc[i] \notin {"new", "done"} \/ Cardinality(Busy) < MaxConcurrent
    BY <1>0, <1>25 DEF CloseWriteMeta
  <2>5. draft[i] = meta /\ meta' = Ended(meta, seen[i].step_count)
    BY <1>0, <1>25 DEF CloseWriteMeta, TurnInv
  <2>6. /\ ToldBad({"failed", "error"})' = ToldBad({"failed", "error"})
        /\ ToldBad({"nothing"})' = ToldBad({"nothing"})
    BY <1>0, <1>25 DEF CloseWriteMeta, Goto, Advance, ToldBad, Stepping
  <2>3. AnswerOf(i)'
    BY <1>0, <1>25 DEF CloseWriteMeta, Goto, Advance, Ended, AnswerOf, Stepping, disk,
       TypeOK, PlacesInv
  <2>4. LedgerOnDisk'
    BY <1>0, <1>25, <2>5, <2>6 DEF LedgerOnDisk, Ended, Verdict
  <2> QED
    BY <2>1, <2>2, <2>3, <2>4, LedgerAlone
<1>26. ASSUME NEW i \in Cmds, CloseRemove(i) PROVE LedgerInv'
  <2>1. \A j \in Cmds : j # i => pc'[j] = pc[j]
    BY <1>0, <1>26 DEF CloseRemove, Finish, TypeOK
  <2>2. pc[i] \notin {"new", "done"} \/ Cardinality(Busy) < MaxConcurrent
    BY <1>0, <1>26 DEF CloseRemove
  <2>0. /\ told[i] = "none" /\ meta' = meta
        /\ \A j \in Cmds : j # i => told'[j] = told[j] /\ kind'[j] = kind[j]
        /\ ~(Stepping(i)' /\ told'[i] \in {"failed", "error", "nothing"})
    BY <1>0, <1>26 DEF CloseRemove, Finish, Stepping, PlacesInv, TypeOK, disk
  <2>3. AnswerOf(i)'
    BY <1>0, <1>26 DEF CloseRemove, Finish, AnswerOf, Stepping, disk, TypeOK, PlacesInv
  <2>4. LedgerOnDisk'
    BY <1>0, <1>26, <2>0, LedgerKept DEF CloseRemove, disk
  <2> QED
    BY <2>1, <2>2, <2>3, <2>4, LedgerAlone
<1>27. ASSUME NEW i \in Cmds, DriverBegin(i) PROVE LedgerInv'
  <2>1. CASE pc[i] = "waiting" /\ pc' = [pc EXCEPT ![i] = "answered"]
    <3>1. \A j \in Cmds : j # i => pc'[j] = pc[j]
      BY <2>1 DEF TypeOK
    <3>2. AnswerOf(i)' /\ LedgerOnDisk'
      BY <1>0, <1>27, <2>1, LedgerSame DEF DriverBegin, Answered, Goto, Advance, AnswerOf, Stepping,
         disk, cli, TypeOK, PlacesInv, PageResults, ClosedResult
    <3> QED
      BY <2>1, <3>1, <3>2, LedgerAlone
  <2>2. CASE UNCHANGED <<pc, seen, told, answer>>
    BY <1>0, <1>27, <2>2, LedgerSame DEF DriverBegin, Answered, LedgerInv, AnswerOf, Stepping, disk,
       cli
  <2> QED
    BY <1>0, <1>27, <2>1, <2>2 DEF DriverBegin, Answered, Goto, Advance, cli
<1>28. ASSUME NEW i \in Cmds, DriverEnd(i) PROVE LedgerInv'
  <2>1. CASE pc[i] = "waiting" /\ pc' = [pc EXCEPT ![i] = "answered"]
    <3>1. \A j \in Cmds : j # i => pc'[j] = pc[j]
      BY <2>1 DEF TypeOK
    <3>2. AnswerOf(i)' /\ LedgerOnDisk'
      BY <1>0, <1>28, <2>1, LedgerSame DEF DriverEnd, Answered, Goto, Advance, AnswerOf, Stepping,
         disk, cli, TypeOK, PlacesInv, PageResults, ClosedResult
    <3> QED
      BY <2>1, <3>1, <3>2, LedgerAlone
  <2>2. CASE UNCHANGED <<pc, seen, told, answer>>
    BY <1>0, <1>28, <2>2, LedgerSame DEF DriverEnd, Answered, LedgerInv, AnswerOf, Stepping, disk, cli
  <2> QED
    BY <1>0, <1>28, <2>1, <2>2 DEF DriverEnd, Answered, Goto, Advance, cli
<1>29. ASSUME NEW i \in Cmds, Killed(i) PROVE LedgerInv'
  BY <1>0, <1>29 DEF Killed, InTurn
<1>30. ASSUME NEW i \in Cmds, WriteFails(i) PROVE LedgerInv'
  BY <1>0, <1>30 DEF WriteFails, InTurn
<1>31. CASE UNCHANGED vars
  BY <1>0, <1>31, LedgerSame DEF vars, LedgerInv, AnswerOf, Stepping, disk, log, driver, cli
<1> QED
  BY <1>1, <1>2, <1>3, <1>4, <1>5, <1>6, <1>7, <1>8, <1>9, <1>10, <1>11, <1>12, <1>13,
     <1>14, <1>15, <1>16, <1>17, <1>18, <1>19, <1>20, <1>21, <1>22, <1>23, <1>24, <1>25,
     <1>26, <1>27, <1>28, <1>29, <1>30, <1>31
     DEF Next, Open, Command, Driver

\* What holds at every step of invocations that take turns.
LEMMA TurnHolds ==
  InTurn => (Spec => [](TypeOK /\ PlacesInv /\ TurnInv /\ CountsInv /\ LedgerInv))
<1> SUFFICES ASSUME InTurn
             PROVE  Spec => [](TypeOK /\ PlacesInv /\ TurnInv /\ CountsInv /\ LedgerInv)
  OBVIOUS
<1>1. Init => ClosedInv
  BY DEF Init, ClosedInv, NoMeta, BlankMeta
<1>2. Init => TurnInv
  BY DEF Init, TurnInv, NoMeta, BlankMeta
<1>3. Init => CountsInv
  BY DEF Init, CountsInv, CountsOf, CountsOnDisk, NoMeta, BlankMeta, NoRecord, BlankRecord
<1>4. Init => LedgerInv
  BY DEF Init, LedgerInv, LedgerOnDisk, AnswerOf, ToldBad, NoMeta, BlankMeta
<1>5. TypeOK /\ TurnInv /\ [Next]_vars => TurnInv'
  BY TurnStep
<1>6. TypeOK /\ ClosedInv /\ PlacesInv /\ TurnInv /\ CountsInv /\ [Next]_vars => CountsInv'
  BY CountsStep
<1>7. TypeOK /\ PlacesInv /\ TurnInv /\ CountsInv /\ LedgerInv /\ [Next]_vars => LedgerInv'
  BY LedgerStep
<1> QED
  BY <1>1, <1>2, <1>3, <1>4, <1>5, <1>6, <1>7, Typing, Places, ClosedStep, PTL DEF Spec

\* When invocations take turns and none is killed or kept from writing, the step count
\* of the record and the total behind a verdict are the length of steps.yaml whenever
\* no invocation is under way, however often the driver dies or a call times out.
THEOREM CountsAgreeInTurn == InTurn => (Spec => []LogMatchesCount)
<1> SUFFICES ASSUME InTurn PROVE Spec => []LogMatchesCount
  OBVIOUS
<1>1. CountsInv => LogMatchesCount
  BY DEF CountsInv, CountsOnDisk, LogMatchesCount, Busy
<1>2. Spec => []CountsInv
  <2>1. Spec => [](TypeOK /\ PlacesInv /\ TurnInv /\ CountsInv /\ LedgerInv)
    BY TurnHolds
  <2> QED
    BY <2>1, PTL
<1> QED
  BY <1>1, <1>2, PTL

--------------------------------------------------------------------------------
(***************************************************************************)
(* The ledger of SessionLedger                                             *)
(***************************************************************************)

\* Only what changes meta.json moves the ledger.
LEMMA LedgerStutters ==
  ASSUME LedgerOnDisk, LedgerOnDisk',
         meta'.steps_failed = meta.steps_failed,
         meta'.steps_nothing = meta.steps_nothing,
         meta'.verdict = meta.verdict
  PROVE  UNCHANGED Ledger!ledger
BY DEF LedgerOnDisk, Ledger!ledger

\* A step of the ledger is one report, one verdict or nothing.
LEMMA LedgerRefined ==
  /\ InTurn /\ TypeOK /\ PlacesInv /\ TurnInv /\ CountsInv
  /\ LedgerInv /\ LedgerInv' /\ [Next]_vars
  => [Ledger!Next]_(Ledger!ledger)
<1> SUFFICES ASSUME InTurn, TypeOK, PlacesInv, TurnInv, CountsInv,
                    LedgerInv, LedgerInv', [Next]_vars
             PROVE  [Ledger!Next]_(Ledger!ledger)
  OBVIOUS
<1>0. LedgerOnDisk /\ LedgerOnDisk'
  BY DEF LedgerInv
<1>1. CASE OpenMeta
  <2>1. meta = BlankMeta("absent") /\ meta' = BlankMeta("ok")
    BY <1>1 DEF OpenMeta, TurnInv, NoMeta
  <2>2. /\ meta'.steps_failed = meta.steps_failed
        /\ meta'.steps_nothing = meta.steps_nothing
        /\ meta'.verdict = meta.verdict
    BY <2>1 DEF BlankMeta
  <2> QED
    BY <1>0, <2>2, LedgerStutters
<1>2. ASSUME NEW i \in Cmds, WriteMeta(i) PROVE [Ledger!Next]_(Ledger!ledger)
  <2>1. /\ told[i] = "none" /\ ~meta.ended /\ Stepping(i)
        /\ meta' = Counted(meta, StepsAfter(i), meta.steps_failed \cup Failed(i),
                           meta.steps_nothing \cup Nothing(i))
    BY <1>2 DEF WriteMeta, Stepping, PlacesInv, TurnInv, CountsInv, CountsOf
  <2>2. /\ meta'.steps_failed = meta.steps_failed \cup Failed(i)
        /\ meta'.steps_nothing = meta.steps_nothing \cup Nothing(i)
        /\ meta'.verdict = meta.verdict
    BY <2>1 DEF Counted
  <2>3. meta.verdict = "open"
    BY <1>0, <2>1 DEF LedgerOnDisk
  <2>4. i \notin ToldBad({"failed", "error"}) \cup ToldBad({"nothing"})
    BY <2>1 DEF ToldBad
  <2>5. \/ Failed(i) = {} /\ Nothing(i) = {}
        \/ Failed(i) = {i} /\ Nothing(i) = {}
        \/ Failed(i) = {} /\ Nothing(i) = {i}
    BY DEF Failed, Nothing
  <2>6. CASE Failed(i) = {} /\ Nothing(i) = {}
    BY <1>0, <2>2, <2>6, LedgerStutters
  <2>7. CASE Failed(i) = {i} /\ Nothing(i) = {}
    <3>1. Ledger!ReportFailed(i)
      BY <1>0, <2>2, <2>3, <2>4, <2>7 DEF LedgerOnDisk, Ledger!ReportFailed
    <3> QED
      BY <3>1 DEF Ledger!Next
  <2>8. CASE Failed(i) = {} /\ Nothing(i) = {i}
    <3>1. Ledger!ReportNothing(i)
      BY <1>0, <2>2, <2>3, <2>4, <2>8 DEF LedgerOnDisk, Ledger!ReportNothing
    <3> QED
      BY <3>1 DEF Ledger!Next
  <2> QED
    BY <2>5, <2>6, <2>7, <2>8
<1>3. ASSUME NEW i \in Cmds, CloseWriteMeta(i) PROVE [Ledger!Next]_(Ledger!ledger)
  <2>1. meta' = Ended(meta, seen[i].step_count)
    BY <1>3 DEF CloseWriteMeta, TurnInv
  <2>2. /\ meta'.steps_failed = meta.steps_failed
        /\ meta'.steps_nothing = meta.steps_nothing
        /\ meta'.verdict = Verdict(meta)
    BY <2>1 DEF Ended
  <2>3. CASE meta.ended
    BY <1>0, <2>2, <2>3, LedgerStutters DEF LedgerOnDisk
  <2>4. CASE ~meta.ended
    <3>1. Ledger!Pronounce
      BY <1>0, <2>2, <2>4 DEF LedgerOnDisk, Verdict, Ledger!Pronounce, Ledger!VerdictOf
    <3> QED
      BY <3>1 DEF Ledger!Next
  <2> QED
    BY <2>3, <2>4
<1>4. CASE meta' = meta
  BY <1>0, <1>4, LedgerStutters
<1>5. meta' = meta \/ OpenMeta \/ \E i \in Cmds : WriteMeta(i) \/ CloseWriteMeta(i)
  <2>1. CASE Open
    BY <2>1 DEF Open, OpenSpawn, OpenAnswer, OpenFails, OpenSave, OpenKilled, disk
  <2>2. CASE DriverExpire \/ DriverLeaves \/ DriverDies \/ Tick
    BY <2>2 DEF DriverExpire, DriverLeaves, DriverDies, Gone, CutOff, Tick, disk
  <2>3. ASSUME NEW i \in Cmds, NEW k \in Kinds, Load(i, k) \/ LoadFails(i, k)
        PROVE  meta' = meta
    BY <2>3 DEF Load, LoadFails, disk
  <2>4. ASSUME NEW i \in Cmds, Command(i)
        PROVE  meta' = meta \/ WriteMeta(i) \/ CloseWriteMeta(i)
    BY <2>4 DEF Command, Attach, Refuse, Timeout, AppendStep, AppendFails, EvalAnswered,
                Save, ReadMeta, ReadMetaFails, CloseAsk, CloseDead, Terminate, CloseRemove,
                disk
  <2>5. ASSUME NEW i \in Cmds, Driver(i) PROVE meta' = meta
    BY <2>5 DEF Driver, DriverBegin, DriverEnd, disk
  <2>6. ASSUME NEW i \in Cmds, Killed(i) \/ WriteFails(i) PROVE FALSE
    BY <2>6 DEF InTurn, Killed, WriteFails
  <2>7. CASE UNCHANGED vars
    BY <2>7 DEF vars, disk
  <2> QED
    BY <2>1, <2>2, <2>3, <2>4, <2>5, <2>6, <2>7 DEF Next
<1> QED
  BY <1>1, <1>2, <1>3, <1>4, <1>5

\* When invocations take turns, and none is killed or kept from writing, the session
\* implements the ledger it promises: every step that a caller is told was bad is
\* counted, and the verdict of `close` is the one that all of them call for.
THEOREM SessionKeepsLedger == InTurn => (Spec => KeepsLedger)
<1> SUFFICES ASSUME InTurn PROVE Spec => KeepsLedger
  OBVIOUS
<1>1. Init => Ledger!Init
  BY DEF Init, Ledger!Init, ToldBad, NoMeta, BlankMeta
<1>2. /\ TypeOK /\ PlacesInv /\ TurnInv /\ CountsInv /\ LedgerInv
      /\ LedgerInv' /\ [Next]_vars
      => [Ledger!Next]_(Ledger!ledger)
  BY LedgerRefined
<1>3. Spec => [](TypeOK /\ PlacesInv /\ TurnInv /\ CountsInv /\ LedgerInv)
  BY TurnHolds
<1> QED
  BY <1>1, <1>2, <1>3, PTL DEF Spec, KeepsLedger, Ledger!Spec
================================================================================
