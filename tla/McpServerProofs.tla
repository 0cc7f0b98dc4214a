--------------------------- MODULE McpServerProofs ---------------------------
(***************************************************************************)
(* Theorems about McpServer, for every number of overlapping calls and of  *)
(* runs, any tools, batches and logs of any length, and any mishaps of the *)
(* processes.                                                              *)
(***************************************************************************)
EXTENDS McpServer, TLAPS

LEMMA NewReportTyped == NewReport \in Report
BY DEF NewReport, Report, Domains

\* A report stays one.
LEMMA ReportsTyped ==
  ASSUME NEW rep \in Report
  PROVE  /\ \A h \in Happenings : Absorb(rep, h) \in Report
         /\ \A d \in Domains : Failed(rep, d) \in Report
         /\ \A page \in Pages : MergeCapture(rep, page) \in Report
         /\ Status(rep) \in Statuses
BY DEF Report, Domains, Absorb, Failed, FailedAnew, Vacuous, MergeCapture, Pages, Status, Statuses

LEMMA FailuresHappen ==
  /\ Failures \subseteq Happenings
  /\ {"pass", "fail", "nothing", "skipped", "odd", "error"} \subseteq Happenings
BY McpOK DEF Mishaps, Happenings

LEMMA Outcomes ==
  ASSUME NEW i, NEW S \in SUBSET Happenings
  PROVE  InSession(i, S) \subseteq Happenings /\ OnRun(i, S) \subseteq Happenings
BY FailuresHappen DEF InSession, OnRun

LEMMA TruthTyped == \A h : TruthOf(h) \in Truths \ {"unwoken", "counted"}
BY DEF TruthOf, Truths

-----------------------------------------------------------------------------
(* Types.  A call that waits for a process which needs a run knows its run. *)

NeedsRun == {"step", "capture", "eval", "close", "record", "show", "locate", "read", "advance"}

Started ==
  \A r \in Calls :
    /\ pc[r] \in NeedsRun => id[r] \in Ids
    /\ pc[r] = "step" => left[r] # 0

WorldTyped ==
  /\ life \in [Ids -> {"none", "open", "ended", "closed"}]
  /\ counts \in [Ids -> [failed : SUBSET {"ui", "tool"}, nothing : BOOLEAN]]
  /\ log \in [Ids -> 0 .. MaxLines] /\ gone \subseteq Ids

MemoryTyped == run_dirs \subseteq Ids /\ cursors \in [Ids -> 0 .. MaxLines]

RequestTyped ==
  /\ whole \in [Calls -> BOOLEAN] /\ id \in [Calls -> Ids \cup {NoId}]
  /\ left \in [Calls -> 0 .. MaxSteps]

RepliesTyped ==
  /\ pc \in [Calls -> Waiting \cup {"idle", "done"}]
  /\ report \in [Calls -> Report]
  /\ answer \in [Calls -> Statuses \cup {"none"}]

ReadingTyped == from \in [Calls -> 0 .. MaxLines] /\ upto \in [Calls -> 0 .. MaxLines]
MetTyped     == met \in [Calls -> SUBSET Truths]
TaleTyped ==
  /\ told \in [Ids -> SUBSET (1 .. MaxLines)] /\ more \in [Ids -> SUBSET (1 .. MaxLines)]
  /\ again \in [Ids -> SUBSET (1 .. MaxLines)] /\ muddled \subseteq Ids

TypeInv == TypeOK /\ Started

LEMMA Groups ==
  TypeOK <=> /\ WorldTyped /\ MemoryTyped /\ RequestTyped /\ RepliesTyped /\ ReadingTyped
             /\ MetTyped /\ TaleTyped
BY DEF TypeOK, WorldTyped, MemoryTyped, RequestTyped, RepliesTyped, ReadingTyped, MetTyped,
       TaleTyped

LEMMA GroupsNext ==
  TypeOK' <=> /\ WorldTyped' /\ MemoryTyped' /\ RequestTyped' /\ RepliesTyped' /\ ReadingTyped'
              /\ MetTyped' /\ TaleTyped'
BY DEF TypeOK, WorldTyped, MemoryTyped, RequestTyped, RepliesTyped, ReadingTyped, MetTyped,
       TaleTyped

\* What is left alone keeps its type.
LEMMA Frames ==
  /\ WorldTyped /\ UNCHANGED world => WorldTyped'
  /\ MemoryTyped /\ UNCHANGED memory => MemoryTyped'
  /\ RequestTyped /\ UNCHANGED request /\ UNCHANGED left => RequestTyped'
  /\ RepliesTyped /\ UNCHANGED <<pc, report, answer>> => RepliesTyped'
  /\ ReadingTyped /\ UNCHANGED reading => ReadingTyped'
  /\ MetTyped /\ UNCHANGED met => MetTyped'
  /\ TaleTyped /\ UNCHANGED tale => TaleTyped'
<1>1. WorldTyped /\ UNCHANGED world => WorldTyped'
  BY DEF WorldTyped, world
<1>2. MemoryTyped /\ UNCHANGED memory => MemoryTyped'
  BY DEF MemoryTyped, memory
<1>3. RequestTyped /\ UNCHANGED request /\ UNCHANGED left => RequestTyped'
  BY DEF RequestTyped, request
<1>4. RepliesTyped /\ UNCHANGED <<pc, report, answer>> => RepliesTyped'
  BY DEF RepliesTyped
<1>5. ReadingTyped /\ UNCHANGED reading => ReadingTyped'
  BY DEF ReadingTyped, reading
<1>6. MetTyped /\ UNCHANGED met => MetTyped'
  BY DEF MetTyped
<1>7. TaleTyped /\ UNCHANGED tale => TaleTyped'
  BY DEF TaleTyped, tale
<1> QED BY <1>1, <1>2, <1>3, <1>4, <1>5, <1>6, <1>7

\* A call that stays where it is, or goes where it needs no run, keeps Started.
LEMMA AnswerTyped ==
  ASSUME TypeInv, NEW r \in Calls, NEW rep \in Report, Answer(r, rep)
  PROVE  /\ RepliesTyped'
         /\ id' = id /\ left' = left => Started'
<1>1. RepliesTyped
  BY Groups DEF TypeInv
<1>2. Status(rep) \in Statuses
  BY ReportsTyped
<1>3. RepliesTyped'
  BY <1>1, <1>2 DEF RepliesTyped, Answer
<1>4. id' = id /\ left' = left => Started'
  BY <1>1 DEF RepliesTyped, TypeInv, Started, Answer, NeedsRun
<1> QED BY <1>3, <1>4

LEMMA MeetsTyped ==
  ASSUME TypeOK, NEW r \in Calls, NEW t \in Truths, Meets(r, t)
  PROVE  MetTyped'
BY Groups DEF MetTyped, Meets, MeetsAll

\* The first half of fresh_events.
LEMMA SeekTyped ==
  ASSUME TypeInv, NEW r \in Calls, NEW i \in Ids, NEW rep \in Report, NEW dirs \in SUBSET Ids,
         SeekEvents(r, i, rep, dirs)
  PROVE  /\ MemoryTyped' /\ RepliesTyped' /\ ReadingTyped' /\ TaleTyped'
         /\ \A q \in Calls \ {r} : pc'[q] = pc[q]
         /\ pc'[r] \in {"read", "locate"}
<1>1. MemoryTyped /\ RepliesTyped /\ ReadingTyped /\ TaleTyped /\ RequestTyped
  BY Groups DEF TypeInv
<1>2. MemoryTyped'
  BY <1>1 DEF MemoryTyped, SeekEvents
<1>3. RepliesTyped' /\ (\A q \in Calls \ {r} : pc'[q] = pc[q]) /\ pc'[r] \in {"read", "locate"}
  BY <1>1 DEF RepliesTyped, SeekEvents, StartReading, Waiting, Processes
<1>4. ReadingTyped'
  BY <1>1, McpOK DEF ReadingTyped, MemoryTyped, RequestTyped, SeekEvents, StartReading
<1>5. TaleTyped'
  BY <1>1 DEF TaleTyped, SeekEvents, StartReading
<1> QED BY <1>2, <1>3, <1>4, <1>5

\* A call that has read goes where it needs its run, like before.
LEMMA SeekStarted ==
  ASSUME TypeInv, NEW r \in Calls, id[r] \in Ids, NEW rep \in Report, NEW dirs \in SUBSET Ids,
         SeekEvents(r, id[r], rep, dirs), id' = id,
         \A q \in Calls \ {r} : left'[q] = left[q]
  PROVE  Started'
BY SeekTyped DEF TypeInv, Started, NeedsRun

\* A process of kind p has ended: what it may have met is an outcome.
LEMMA EndsTyped ==
  ASSUME TypeInv, NEW r \in Calls, NEW p, NEW S \in SUBSET Happenings, Ends(r, p, S)
  PROVE  TypeInv'
<1>1. PICK h \in S : Answer(r, Absorb(report[r], h)) /\ Meets(r, TruthOf(h))
  BY DEF Ends
<1>2. Absorb(report[r], h) \in Report
  BY ReportsTyped, Groups DEF TypeInv, RepliesTyped
<1>3. RepliesTyped' /\ Started'
  BY <1>1, <1>2, AnswerTyped DEF Ends, request
<1>4. MetTyped'
  BY <1>1, MeetsTyped, TruthTyped DEF TypeInv
<1>5. WorldTyped' /\ MemoryTyped' /\ RequestTyped' /\ ReadingTyped' /\ TaleTyped'
  BY Frames, Groups DEF TypeInv, Ends
<1> QED BY <1>3, <1>4, <1>5, GroupsNext DEF TypeInv

-----------------------------------------------------------------------------
LEMMA InitTyped == Init => TypeInv
<1> SUFFICES ASSUME Init PROVE TypeInv
  OBVIOUS
<1>1. NoId \notin Ids /\ MaxSteps \in Nat /\ MaxLines \in Nat /\ NewReport \in Report
  BY McpOK, NewReportTyped
<1>2. WorldTyped
  BY <1>1 DEF Init, WorldTyped
<1>3. MemoryTyped /\ RequestTyped /\ ReadingTyped /\ MetTyped /\ TaleTyped
  BY <1>1 DEF Init, MemoryTyped, RequestTyped, ReadingTyped, MetTyped, TaleTyped
<1>4. RepliesTyped
  BY <1>1 DEF Init, RepliesTyped
<1>5. Started
  BY DEF Init, Started, NeedsRun
<1> QED BY <1>2, <1>3, <1>4, <1>5, Groups DEF TypeInv

LEMMA AskTyped ==
  ASSUME TypeInv, NEW r \in Calls, Ask(r)
  PROVE  TypeInv'
<1>1. PICK t \in Tools, i \in Ids :
        /\ whole' = [whole EXCEPT ![r] = t \in {"run", "show"}]
        /\ id' = [id EXCEPT ![r] = IF t \in AboutARun THEN i ELSE NoId]
        /\ pc' = [pc EXCEPT ![r] = FirstOf(t)]
        /\ \E n \in IF t = "act" THEN 1 .. MaxSteps ELSE {0} : left' = [left EXCEPT ![r] = n]
  BY DEF Ask
<1>2. PICK n \in IF t = "act" THEN 1 .. MaxSteps ELSE {0} : left' = [left EXCEPT ![r] = n]
  BY <1>1
<1>3. RequestTyped /\ RepliesTyped
  BY Groups DEF TypeInv
<1>4. n \in 0 .. MaxSteps /\ (t = "act" => n # 0)
  BY <1>2, McpOK
<1>5. RequestTyped'
  BY <1>1, <1>2, <1>3, <1>4 DEF RequestTyped
<1>6. t \in AllTools
  BY McpOK
<1>7. FirstOf(t) \in Waiting /\ (FirstOf(t) = "step" <=> t = "act")
        /\ (FirstOf(t) \in NeedsRun => t \in AboutARun)
  BY <1>6 DEF AllTools, FirstOf, Waiting, Processes, NeedsRun, AboutARun
<1>8. RepliesTyped'
  BY <1>1, <1>3, <1>7 DEF RepliesTyped, Ask
<1>9. Started'
  BY <1>1, <1>2, <1>3, <1>4, <1>7 DEF Started, TypeInv, RequestTyped, RepliesTyped
<1>10. WorldTyped' /\ MemoryTyped' /\ ReadingTyped' /\ MetTyped' /\ TaleTyped'
  BY Frames, Groups DEF TypeInv, Ask
<1> QED BY <1>5, <1>8, <1>9, <1>10, GroupsNext DEF TypeInv

LEMMA AskBadlyTyped ==
  ASSUME TypeInv, NEW r \in Calls, AskBadly(r)
  PROVE  TypeInv'
<1>1. Failed(NewReport, "request") \in Report
  BY NewReportTyped, ReportsTyped DEF Domains
<1>2. RepliesTyped' /\ Started'
  BY <1>1, AnswerTyped DEF AskBadly, request
<1>3. WorldTyped' /\ MemoryTyped' /\ RequestTyped' /\ ReadingTyped' /\ MetTyped' /\ TaleTyped'
  BY Frames, Groups DEF TypeInv, AskBadly
<1> QED BY <1>2, <1>3, GroupsNext DEF TypeInv

LEMMA WakeTyped ==
  ASSUME TypeInv, NEW r \in Calls, WakeLands(r)
  PROVE  TypeInv'
<1>1. WorldTyped' /\ MemoryTyped' /\ RequestTyped' /\ ReadingTyped' /\ TaleTyped'
  BY Frames, Groups DEF TypeInv, WakeLands
<1>2. CASE Answer(r, Failed(report[r], "tooling")) /\ Meets(r, "tool")
  <2>1. Failed(report[r], "tooling") \in Report
    BY ReportsTyped, Groups DEF TypeInv, RepliesTyped, Domains
  <2>2. RepliesTyped' /\ Started'
    BY <1>2, <2>1, AnswerTyped DEF WakeLands, request
  <2>3. MetTyped'
    BY <1>2, MeetsTyped DEF TypeInv, Truths
  <2> QED BY <1>1, <2>2, <2>3, GroupsNext DEF TypeInv
<1>3. CASE /\ pc' = [pc EXCEPT ![r] = "doctor"] /\ UNCHANGED <<report, answer>>
           /\ \E t \in {"ok", "unwoken"} : Meets(r, t)
  <2>0. MetTyped'
    BY <1>3, MeetsTyped DEF TypeInv, Truths
  <2>1. RepliesTyped' /\ MetTyped'
    BY <1>3, <2>0, Groups DEF TypeInv, RepliesTyped, Waiting, Processes
  <2>2. Started'
    BY <1>3, Groups DEF TypeInv, RepliesTyped, Started, NeedsRun, WakeLands, request
  <2> QED BY <1>1, <2>1, <2>2, GroupsNext DEF TypeInv
<1> QED BY <1>2, <1>3 DEF WakeLands

\* The tools that end with their one process.
LEMMA OneProcessTyped ==
  ASSUME TypeInv, NEW r \in Calls,
         \/ DoctorLands(r) \/ EvalLands(r) \/ RecordLands(r) \/ VerifyLands(r) \/ RunsLands(r)
  PROVE  TypeInv'
<1>1. CASE DoctorLands(r)
  BY <1>1, EndsTyped, FailuresHappen DEF DoctorLands
<1>2. CASE EvalLands(r)
  BY <1>2, EndsTyped, FailuresHappen, Outcomes DEF EvalLands
<1>3. CASE RecordLands(r)
  BY <1>3, EndsTyped, FailuresHappen, Outcomes DEF RecordLands
<1>4. CASE VerifyLands(r)
  BY <1>4, EndsTyped, FailuresHappen DEF VerifyLands
<1>5. CASE RunsLands(r)
  BY <1>5, EndsTyped, FailuresHappen DEF RunsLands
<1> QED BY <1>1, <1>2, <1>3, <1>4, <1>5

LEMMA OpenTyped ==
  ASSUME TypeInv, NEW r \in Calls, OpenLands(r)
  PROVE  TypeInv'
<1>1. WorldTyped /\ MemoryTyped /\ RequestTyped /\ RepliesTyped
  BY Groups DEF TypeInv
<1>2. ReadingTyped' /\ TaleTyped'
  BY Frames, Groups DEF TypeInv, OpenLands
<1>3. ASSUME NEW i \in Ids, life' = [life EXCEPT ![i] = "open"], id' = [id EXCEPT ![r] = i],
             run_dirs' = run_dirs \cup {i}, Meets(r, "ok"),
             \/ Answer(r, report[r])
             \/ pc' = [pc EXCEPT ![r] = "capture"] /\ UNCHANGED <<report, answer>>
      PROVE  TypeInv'
  <2>1. WorldTyped' /\ MemoryTyped' /\ RequestTyped'
    BY <1>1, <1>3 DEF WorldTyped, MemoryTyped, RequestTyped, OpenLands
  <2>2. MetTyped'
    BY <1>3, MeetsTyped DEF TypeInv, Truths
  <2>3. report[r] \in Report
    BY <1>1 DEF RepliesTyped
  <2>4. RepliesTyped'
    BY <1>1, <1>3, <2>3, AnswerTyped DEF RepliesTyped, Waiting, Processes
  <2>5. pc' \in {[pc EXCEPT ![r] = "done"], [pc EXCEPT ![r] = "capture"]}
    BY <1>3 DEF Answer
  <2>6. Started'
    BY <1>1, <1>3, <2>5 DEF OpenLands, RepliesTyped, RequestTyped, Started, TypeInv, NeedsRun
  <2> QED BY <1>2, <2>1, <2>2, <2>4, <2>6, GroupsNext DEF TypeInv
<1>4. ASSUME NEW h \in Failures, Answer(r, Absorb(report[r], h)), Meets(r, TruthOf(h)),
             UNCHANGED <<life, id, run_dirs>>
      PROVE  TypeInv'
  <2>1. Absorb(report[r], h) \in Report
    BY <1>1, ReportsTyped, FailuresHappen DEF RepliesTyped
  <2>2. RepliesTyped' /\ Started'
    BY <1>4, <2>1, AnswerTyped DEF OpenLands
  <2>3. MetTyped'
    BY <1>4, MeetsTyped, TruthTyped DEF TypeInv
  <2>4. WorldTyped' /\ MemoryTyped' /\ RequestTyped'
    BY <1>4, Frames, <1>1 DEF OpenLands, world, memory, request
  <2> QED BY <1>2, <2>2, <2>3, <2>4, GroupsNext DEF TypeInv
<1> QED BY <1>3, <1>4 DEF OpenLands

LEMMA CountedTyped ==
  ASSUME TypeOK, NEW i \in Ids, NEW h, Counted(i, h)
  PROVE  counts' \in [Ids -> [failed : SUBSET {"ui", "tool"}, nothing : BOOLEAN]]
<1>1. counts \in [Ids -> [failed : SUBSET {"ui", "tool"}, nothing : BOOLEAN]]
  BY DEF TypeOK
<1>2. PICK m \in [failed : SUBSET {"ui", "tool"}, nothing : BOOLEAN] : counts' = [counts EXCEPT ![i] = m]
  <2>1. ASSUME NEW F \in SUBSET {"ui", "tool"}, NEW n \in BOOLEAN,
               counts' = [counts EXCEPT ![i] = [failed |-> @.failed \cup F, nothing |-> n]]
        PROVE  \E m \in [failed : SUBSET {"ui", "tool"}, nothing : BOOLEAN] :
                 counts' = [counts EXCEPT ![i] = m]
    <3> DEFINE m == [failed |-> counts[i].failed \cup F, nothing |-> n]
    <3>1. m \in [failed : SUBSET {"ui", "tool"}, nothing : BOOLEAN]
      BY <1>1
    <3>2. counts' = [counts EXCEPT ![i] = m]
      BY <2>1
    <3> QED BY <3>1, <3>2
  <2>2. counts[i].nothing \in BOOLEAN /\ (counts[i].nothing \/ h = "nothing") \in BOOLEAN
    BY <1>1, Zenon
  <2>3. CASE counts' = [counts EXCEPT ![i] = [failed  |-> @.failed \cup ({"ui"} \cap {TruthOf(h)}),
                                             nothing |-> @.nothing \/ h = "nothing"]]
    <3> DEFINE F == {"ui"} \cap {TruthOf(h)}
               n == counts[i].nothing \/ h = "nothing"
    <3>1. counts' = [counts EXCEPT ![i] = [failed |-> @.failed \cup F, nothing |-> n]]
      BY <2>3, Zenon
    <3>2. F \in SUBSET {"ui", "tool"} /\ n \in BOOLEAN
      BY <2>2, Zenon
    <3> HIDE DEF F, n
    <3> QED BY <2>1, <3>1, <3>2
  <2>4. CASE counts' = [counts EXCEPT ![i] = [failed |-> @.failed \cup {"tool"},
                                             nothing |-> @.nothing]]
    BY <2>1, <2>2, <2>4
  <2> QED BY <2>3, <2>4 DEF Counted
<1> QED BY <1>1, <1>2

LEMMA StepTyped ==
  ASSUME TypeInv, NEW r \in Calls, StepLands(r)
  PROVE  TypeInv'
<1>1. WorldTyped /\ MemoryTyped /\ RequestTyped /\ RepliesTyped /\ ReadingTyped /\ TaleTyped
  BY Groups DEF TypeInv
<1>2. id[r] \in Ids /\ left[r] \in 1 .. MaxSteps
  BY <1>1, McpOK DEF StepLands, TypeInv, Started, NeedsRun, RequestTyped
<1>3. PICK h \in InSession(id[r], {"pass", "fail", "nothing"}) :
       /\ Counted(id[r], h)
       /\ Meets(r, TruthOf(h))
       /\ \/ /\ h = "pass" /\ left[r] > 1
             /\ UNCHANGED <<memory, pc, report, reading, answer, tale>>
          \/ /\ h = "pass" /\ left[r] = 1
             /\ SeekEvents(r, id[r], report[r], run_dirs)
          \/ /\ h # "pass"
             /\ \/ Answer(r, Absorb(report[r], h))
                \/ /\ Landing(h) = "failed" \/ Line(h) = "nothing"
                   /\ report' = [report EXCEPT ![r] = Absorb(@, h)]
                   /\ pc' = [pc EXCEPT ![r] = "capture"]
                   /\ UNCHANGED answer
             /\ UNCHANGED <<memory, reading, tale>>
       /\ left' = [left EXCEPT ![r] = IF h = "pass" THEN @ - 1 ELSE @]
  BY DEF StepLands
<1>4. WorldTyped'
  BY <1>1, <1>2, <1>3, CountedTyped DEF StepLands, WorldTyped, TypeInv
<1>5. RequestTyped' /\ id' = id
  BY <1>1, <1>2, <1>3, McpOK DEF StepLands, RequestTyped, request
<1>6. MetTyped'
  BY <1>3, MeetsTyped, TruthTyped DEF TypeInv
<1>7. h \in Happenings /\ report[r] \in Report
  BY <1>1, <1>3, Outcomes, FailuresHappen DEF RepliesTyped
<1>8. CASE h = "pass" /\ left[r] > 1
  <2>1. MemoryTyped' /\ RepliesTyped' /\ ReadingTyped' /\ TaleTyped'
    BY <1>1, <1>3, <1>8, Frames
  <2>2. Started'
    BY <1>1, <1>3, <1>5, <1>8, <1>2 DEF Started, TypeInv, RequestTyped
  <2> QED BY <1>4, <1>5, <1>6, <2>1, <2>2, GroupsNext DEF TypeInv
<1>9. CASE h = "pass" /\ left[r] = 1
  <2>1. SeekEvents(r, id[r], report[r], run_dirs)
    BY <1>3, <1>9
  <2>2. run_dirs \in SUBSET Ids
    BY <1>1 DEF MemoryTyped
  <2>3. MemoryTyped' /\ RepliesTyped' /\ ReadingTyped' /\ TaleTyped'
    BY <1>2, <1>7, <2>1, <2>2, SeekTyped
  <2>4. Started'
    BY <1>1, <1>2, <1>3, <1>5, <1>7, <2>1, <2>2, SeekStarted DEF RequestTyped
  <2> QED BY <1>4, <1>5, <1>6, <2>3, <2>4, GroupsNext DEF TypeInv
<1>10. CASE h # "pass"
  <2>1. Absorb(report[r], h) \in Report /\ left' = left
    BY <1>1, <1>3, <1>7, <1>10, ReportsTyped DEF RequestTyped
  <2>2. MemoryTyped' /\ ReadingTyped' /\ TaleTyped'
    BY <1>1, <1>3, <1>10, Frames
  <2>3. CASE Answer(r, Absorb(report[r], h))
    <3>1. RepliesTyped' /\ Started'
      BY <1>5, <2>1, <2>3, AnswerTyped
    <3> QED BY <1>4, <1>5, <1>6, <2>2, <3>1, GroupsNext DEF TypeInv
  <2>4. CASE /\ report' = [report EXCEPT ![r] = Absorb(@, h)]
             /\ pc' = [pc EXCEPT ![r] = "capture"]
             /\ UNCHANGED answer
    <3>1. RepliesTyped'
      BY <1>1, <2>1, <2>4 DEF RepliesTyped, Waiting, Processes
    <3>2. Started'
      BY <1>1, <1>2, <1>5, <2>1, <2>4 DEF Started, TypeInv, RepliesTyped, NeedsRun
    <3> QED BY <1>4, <1>5, <1>6, <2>2, <3>1, <3>2, GroupsNext DEF TypeInv
  <2> QED BY <1>3, <1>10, <2>3, <2>4
<1> QED BY <1>3, <1>8, <1>9, <1>10

LEMMA CaptureTyped ==
  ASSUME TypeInv, NEW r \in Calls, CaptureLands(r)
  PROVE  TypeInv'
<1>1. WorldTyped /\ MemoryTyped /\ RequestTyped /\ RepliesTyped /\ ReadingTyped /\ TaleTyped
  BY Groups DEF TypeInv
<1>2. WorldTyped' /\ RequestTyped' /\ id' = id /\ left' = left
  BY <1>1, Frames DEF CaptureLands, request
<1>3. id[r] \in Ids /\ report[r] \in Report /\ run_dirs \in SUBSET Ids
  BY <1>1 DEF CaptureLands, TypeInv, Started, NeedsRun, RepliesTyped, MemoryTyped
<1>4. ASSUME NEW page \in Pages, Meets(r, IF page = "blank" THEN "ui" ELSE "ok"),
             SeekEvents(r, id[r], MergeCapture(report[r], page), run_dirs)
      PROVE  TypeInv'
  <2>1. MergeCapture(report[r], page) \in Report
    BY <1>3, ReportsTyped
  <2>2. MemoryTyped' /\ RepliesTyped' /\ ReadingTyped' /\ TaleTyped'
    BY <1>3, <1>4, <2>1, SeekTyped
  <2>3. Started'
    BY <1>2, <1>3, <1>4, <2>1, SeekStarted
  <2>4. MetTyped'
    BY <1>4, MeetsTyped DEF TypeInv, Truths
  <2> QED BY <1>2, <2>2, <2>3, <2>4, GroupsNext DEF TypeInv
<1>5. ASSUME NEW h \in InSession(id[r], {"pass"}), Answer(r, Absorb(report[r], h)),
             Meets(r, TruthOf(h)), UNCHANGED <<memory, reading, tale>>
      PROVE  TypeInv'
  <2>1. Absorb(report[r], h) \in Report
    BY <1>3, ReportsTyped, Outcomes, FailuresHappen
  <2>2. RepliesTyped' /\ Started'
    BY <1>2, <1>5, <2>1, AnswerTyped
  <2>3. MemoryTyped' /\ ReadingTyped' /\ TaleTyped' /\ MetTyped'
    BY <1>1, <1>5, Frames, MeetsTyped, TruthTyped DEF TypeInv
  <2> QED BY <1>2, <2>2, <2>3, GroupsNext DEF TypeInv
<1> QED BY <1>4, <1>5 DEF CaptureLands

LEMMA CloseTyped ==
  ASSUME TypeInv, NEW r \in Calls, CloseLands(r)
  PROVE  TypeInv'
<1>1. WorldTyped /\ MemoryTyped /\ RequestTyped /\ RepliesTyped
  BY Groups DEF TypeInv
<1>2. id[r] \in Ids /\ report[r] \in Report
  BY <1>1 DEF CloseLands, TypeInv, Started, NeedsRun, RepliesTyped
<1>3. MemoryTyped' /\ RequestTyped' /\ ReadingTyped' /\ TaleTyped' /\ id' = id /\ left' = left
  BY Frames, Groups DEF TypeInv, CloseLands, request
<1>4. PICK h \in Failures \cup (IF Closable(id[r]) THEN {"pass"} ELSE {"error"}),
           verdict \in Happenings,
           after \in IF Closable(id[r]) THEN {life[id[r]], "ended", "closed"} ELSE {life[id[r]]} :
        /\ life' = [life EXCEPT ![id[r]] = after]
        /\ \E T \in SUBSET Truths : MeetsAll(r, T)
        /\ Answer(r, IF verdict = "fail" THEN Failed(report[r], "under_test")
                     ELSE Absorb(report[r], verdict))
  <2>1. PICK h \in Failures \cup (IF Closable(id[r]) THEN {"pass"} ELSE {"error"}) :
          LET i       == id[r]
              verdict == IF h # "pass" THEN h
                         ELSE IF counts[i].failed # {} THEN "fail"
                         ELSE IF counts[i].nothing THEN "nothing" ELSE "pass"
          IN /\ \E after \in IF Closable(i) THEN {life[i], "ended", "closed"} ELSE {life[i]} :
                  /\ h = "pass" => after # "open"
                  /\ life' = [life EXCEPT ![i] = after]
             /\ MeetsAll(r, IF verdict = "fail" THEN {"counted"} \cup counts[i].failed
                                                ELSE {TruthOf(verdict)})
             /\ Answer(r, IF verdict = "fail" THEN Failed(report[r], "under_test")
                          ELSE Absorb(report[r], verdict))
    BY DEF CloseLands
  <2>2. h \in Happenings
    BY FailuresHappen
  <2>3. {"counted"} \cup counts[id[r]].failed \in SUBSET Truths
    BY <1>1, <1>2 DEF WorldTyped, Truths
  <2>4. \A v : {TruthOf(v)} \in SUBSET Truths
    BY TruthTyped
  <2> QED BY <2>1, <2>2, <2>3, <2>4, FailuresHappen
<1>5. WorldTyped'
  BY <1>1, <1>2, <1>4 DEF WorldTyped, CloseLands
<1>6. MetTyped'
  BY <1>4, Groups DEF TypeInv, MetTyped, MeetsAll
<1>7. RepliesTyped' /\ Started'
  BY <1>2, <1>3, <1>4, ReportsTyped, AnswerTyped DEF Domains
<1> QED BY <1>3, <1>5, <1>6, <1>7, GroupsNext DEF TypeInv

LEMMA RunTyped ==
  ASSUME TypeInv, NEW r \in Calls, RunLands(r)
  PROVE  TypeInv'
<1>1. WorldTyped /\ MemoryTyped /\ RequestTyped /\ RepliesTyped /\ ReadingTyped /\ TaleTyped
  BY Groups DEF TypeInv
<1>2. left' = left /\ whole' = whole /\ report[r] \in Report
  BY <1>1 DEF RunLands, RepliesTyped
<1>3. ASSUME NEW i \in Ids, NEW h \in {"pass", "fail", "nothing", "odd"}, NEW n \in 0 .. MaxLines,
             life' = [life EXCEPT ![i] = "closed"], log' = [log EXCEPT ![i] = n],
             id' = [id EXCEPT ![r] = i], Meets(r, TruthOf(h)),
             SeekEvents(r, i, Absorb(report[r], h), run_dirs \cup {i})
      PROVE  TypeInv'
  <2>1. WorldTyped' /\ RequestTyped'
    BY <1>1, <1>2, <1>3 DEF WorldTyped, RequestTyped, RunLands
  <2>2. Absorb(report[r], h) \in Report /\ run_dirs \cup {i} \in SUBSET Ids
    BY <1>1, <1>2, ReportsTyped, FailuresHappen DEF MemoryTyped
  <2>3. /\ MemoryTyped' /\ RepliesTyped' /\ ReadingTyped' /\ TaleTyped'
        /\ \A q \in Calls \ {r} : pc'[q] = pc[q]
        /\ pc'[r] \in {"read", "locate"}
    BY <1>3, <2>2, SeekTyped
  <2>4. Started'
    BY <1>1, <1>2, <1>3, <2>3 DEF TypeInv, Started, RequestTyped
  <2>5. MetTyped'
    BY <1>3, MeetsTyped, TruthTyped DEF TypeInv
  <2> QED BY <2>1, <2>3, <2>4, <2>5, GroupsNext DEF TypeInv
<1>4. ASSUME NEW h \in Failures, Answer(r, Absorb(report[r], h)), Meets(r, TruthOf(h)),
             UNCHANGED <<life, log, id, memory, reading, tale>>
      PROVE  TypeInv'
  <2>1. Absorb(report[r], h) \in Report
    BY <1>2, ReportsTyped, FailuresHappen
  <2>2. RepliesTyped' /\ Started'
    BY <1>2, <1>4, <2>1, AnswerTyped
  <2>3. WorldTyped' /\ MemoryTyped' /\ RequestTyped' /\ ReadingTyped' /\ TaleTyped' /\ MetTyped'
    BY <1>1, <1>2, <1>4, Frames, MeetsTyped, TruthTyped DEF TypeInv, RunLands, world, request
  <2> QED BY <2>2, <2>3, GroupsNext DEF TypeInv
<1> QED BY <1>3, <1>4 DEF RunLands

LEMMA ShowTyped ==
  ASSUME TypeInv, NEW r \in Calls, ShowLands(r)
  PROVE  TypeInv'
<1>1. WorldTyped' /\ RequestTyped' /\ id' = id /\ left' = left
  BY Frames, Groups DEF TypeInv, ShowLands, request
<1>2. id[r] \in Ids /\ report[r] \in Report /\ run_dirs \subseteq Ids
  BY Groups DEF ShowLands, TypeInv, Started, NeedsRun, RepliesTyped, MemoryTyped
<1>3. PICK h \in OnRun(id[r], {"pass"}) :
        /\ Meets(r, TruthOf(h))
        /\ SeekEvents(r, id[r], Absorb(report[r], h),
                      IF h = "pass" THEN run_dirs \cup {id[r]} ELSE run_dirs)
  BY DEF ShowLands
<1>4. Absorb(report[r], h) \in Report
  BY <1>2, ReportsTyped, Outcomes, FailuresHappen
<1>5. (IF h = "pass" THEN run_dirs \cup {id[r]} ELSE run_dirs) \in SUBSET Ids
  BY <1>2
<1>6. MemoryTyped' /\ RepliesTyped' /\ ReadingTyped' /\ TaleTyped'
  BY <1>2, <1>3, <1>4, <1>5, SeekTyped
<1>7. Started'
  BY <1>1, <1>2, <1>3, <1>4, <1>5, SeekStarted
<1>8. MetTyped'
  BY <1>3, MeetsTyped, TruthTyped DEF TypeInv
<1> QED BY <1>1, <1>6, <1>7, <1>8, GroupsNext DEF TypeInv

LEMMA LocateTyped ==
  ASSUME TypeInv, NEW r \in Calls, LocateLands(r)
  PROVE  TypeInv'
<1>1. WorldTyped /\ MemoryTyped /\ RequestTyped /\ RepliesTyped /\ ReadingTyped /\ TaleTyped
  BY Groups DEF TypeInv
<1>2. WorldTyped' /\ RequestTyped' /\ MetTyped' /\ id' = id /\ left' = left
  BY Frames, Groups DEF TypeInv, LocateLands, request
<1>3. id[r] \in Ids /\ report[r] \in Report
  BY <1>1 DEF LocateLands, TypeInv, Started, NeedsRun, RepliesTyped
<1>4. CASE /\ run_dirs' = run_dirs \cup {id[r]}
           /\ StartReading(r, id[r])
           /\ UNCHANGED <<report, answer>>
  <2>1. MemoryTyped'
    BY <1>1, <1>3, <1>4 DEF MemoryTyped, LocateLands
  <2>2. RepliesTyped' /\ Started'
    BY <1>1, <1>2, <1>3, <1>4 DEF RepliesTyped, StartReading, Waiting, Processes, Started,
          TypeInv, NeedsRun
  <2>3. ReadingTyped' /\ TaleTyped'
    BY <1>1, <1>3, <1>4, McpOK DEF ReadingTyped, TaleTyped, StartReading, LocateLands,
          MemoryTyped, RequestTyped
  <2> QED BY <1>2, <2>1, <2>2, <2>3, GroupsNext DEF TypeInv
<1>5. CASE Answer(r, report[r]) /\ UNCHANGED <<run_dirs, from, muddled>>
  <2>1. MemoryTyped' /\ ReadingTyped' /\ TaleTyped'
    BY <1>1, <1>5, Frames DEF LocateLands, memory, reading, tale
  <2>2. RepliesTyped' /\ Started'
    BY <1>2, <1>3, <1>5, AnswerTyped
  <2> QED BY <1>2, <2>1, <2>2, GroupsNext DEF TypeInv
<1> QED BY <1>4, <1>5 DEF LocateLands

LEMMA ReadTyped ==
  ASSUME TypeInv, NEW r \in Calls, Read(r)
  PROVE  TypeInv'
<1>1. WorldTyped /\ RepliesTyped /\ ReadingTyped /\ TaleTyped
  BY Groups DEF TypeInv
<1>2. WorldTyped' /\ MemoryTyped' /\ RequestTyped' /\ MetTyped' /\ id' = id /\ left' = left
  BY Frames, Groups DEF TypeInv, Read, request
<1>3. id[r] \in Ids
  BY DEF Read, TypeInv, Started, NeedsRun
<1>4. log[id[r]] \in 0 .. MaxLines /\ 0 \in 0 .. MaxLines
  BY <1>1, <1>3, McpOK DEF WorldTyped
<1>5. ReadingTyped' /\ TaleTyped'
  BY <1>1, <1>3, <1>4 DEF ReadingTyped, TaleTyped, Read
<1>6. RepliesTyped' /\ Started'
  BY <1>1, <1>2, <1>3 DEF RepliesTyped, Started, TypeInv, NeedsRun, Read, Waiting
<1> QED BY <1>2, <1>5, <1>6, GroupsNext DEF TypeInv

LEMMA AdvanceTyped ==
  ASSUME TypeInv, NEW r \in Calls, Advance(r)
  PROVE  TypeInv'
<1>1. MemoryTyped /\ RepliesTyped /\ ReadingTyped /\ TaleTyped
  BY Groups DEF TypeInv
<1>2. WorldTyped' /\ RequestTyped' /\ MetTyped' /\ id' = id /\ left' = left
  BY Frames, Groups DEF TypeInv, Advance, request
<1>3. id[r] \in Ids /\ report[r] \in Report
  BY <1>1 DEF Advance, TypeInv, Started, NeedsRun, RepliesTyped
<1>4. upto[r] \in 0 .. MaxLines /\ New(r) \subseteq 1 .. MaxLines /\ Told(r) \subseteq New(r)
  BY <1>1, McpOK DEF ReadingTyped, Told, New
<1>5. MemoryTyped'
  BY <1>1, <1>4 DEF MemoryTyped, Advance, CursorAfter
<1>6. ReadingTyped'
  BY <1>1, McpOK DEF ReadingTyped, Advance
<1>7. TaleTyped'
  <2>1. told' \in [Ids -> SUBSET (1 .. MaxLines)]
    BY <1>1, <1>3, <1>4 DEF TaleTyped, Advance
  <2>2. again' \in [Ids -> SUBSET (1 .. MaxLines)]
    BY <1>1, <1>3, <1>4 DEF TaleTyped, Advance
  <2>3. more' \in [Ids -> SUBSET (1 .. MaxLines)]
    BY <1>1, <1>3, <1>4 DEF TaleTyped, Advance
  <2> QED BY <1>1, <2>1, <2>2, <2>3 DEF TaleTyped, Advance
<1>8. RepliesTyped' /\ Started'
  BY <1>2, <1>3, AnswerTyped DEF Advance
<1> QED BY <1>2, <1>5, <1>6, <1>7, <1>8, GroupsNext DEF TypeInv

LEMMA OthersTyped ==
  ASSUME TypeInv, NEW i \in Ids, Emits(i) \/ Expires(i) \/ Vanishes(i)
  PROVE  TypeInv'
<1>1. WorldTyped
  BY Groups DEF TypeInv
<1>2. /\ MemoryTyped' /\ RequestTyped' /\ RepliesTyped' /\ ReadingTyped' /\ MetTyped'
      /\ TaleTyped' /\ Started'
  BY Frames, Groups DEF TypeInv, Started, request, Emits, Expires, Vanishes
<1>3. CASE Emits(i)
  <2>1. log[i] \in 0 .. MaxLines /\ log[i] < MaxLines
    BY <1>1, <1>3 DEF WorldTyped, Emits
  <2>2. log[i] + 1 \in 0 .. MaxLines
    BY <2>1, McpOK
  <2>3. WorldTyped'
    BY <1>1, <1>3, <2>2 DEF WorldTyped, Emits
  <2> QED BY <1>2, <2>3, GroupsNext DEF TypeInv
<1>4. CASE Expires(i)
  <2>1. WorldTyped'
    BY <1>1, <1>4 DEF WorldTyped, Expires
  <2> QED BY <1>2, <2>1, GroupsNext DEF TypeInv
<1>5. CASE Vanishes(i)
  <2>1. WorldTyped'
    BY <1>1, <1>5 DEF WorldTyped, Vanishes
  <2> QED BY <1>2, <2>1, GroupsNext DEF TypeInv
<1> QED BY <1>3, <1>4, <1>5

\* The server keeps its shapes: TypeOK, with every call knowing the run it needs.
LEMMA TypeInvariant == Spec => []TypeInv
<1>1. Init => TypeInv
  BY InitTyped
<1>2. TypeInv /\ [Next]_vars => TypeInv'
  <2> SUFFICES ASSUME TypeInv, [Next]_vars PROVE TypeInv'
    OBVIOUS
  <2>1. ASSUME NEW r \in Calls, Ask(r) \/ AskBadly(r) PROVE TypeInv'
    BY <2>1, AskTyped, AskBadlyTyped
  <2>2. ASSUME NEW r \in Calls, Handles(r) PROVE TypeInv'
    BY <2>2, WakeTyped, OneProcessTyped, OpenTyped, StepTyped, CaptureTyped, CloseTyped,
       RunTyped, ShowTyped, LocateTyped, ReadTyped, AdvanceTyped DEF Handles
  <2>3. ASSUME NEW i \in Ids, Emits(i) \/ Expires(i) \/ Vanishes(i) PROVE TypeInv'
    BY <2>3, OthersTyped
  <2>4. CASE UNCHANGED vars
    <3>1. /\ WorldTyped' /\ MemoryTyped' /\ RequestTyped' /\ RepliesTyped' /\ ReadingTyped'
          /\ MetTyped' /\ TaleTyped' /\ Started'
      BY <2>4, Frames, Groups DEF TypeInv, Started, vars, request
    <3> QED BY <3>1, GroupsNext DEF TypeInv
  <2> QED BY <2>1, <2>2, <2>3, <2>4 DEF Next
<1> QED BY <1>1, <1>2, PTL DEF Spec

\* The memory, the reports and the counters of overlapping calls keep their types, and no
\* counter leaves the log's length (McpServer.TypeOK).
THEOREM McpTyped == Spec => []TypeOK
BY TypeInvariant, PTL DEF TypeInv

-----------------------------------------------------------------------------
(* No line is swallowed.  A call that reads starts from lines that have been *)
(* told of or counted: where the cursor is, or the beginning.  It tells of   *)
(* the lines from there to where it then puts the cursor, or counts them,    *)
(* wherever the cursor is by now.                                            *)

ToldInv ==
  /\ NoLineSwallowed
  /\ \A r \in Calls : pc[r] \in {"read", "advance"} => 1 .. from[r] \subseteq told[id[r]] \cup more[id[r]]

\* Nobody begins to read, and no cursor moves.
LEMMA QuietTold ==
  ASSUME ToldInv, cursors' = cursors, told' = told, more' = more,
         \A r \in Calls : pc'[r] \in {"read", "advance"} =>
            pc[r] \in {"read", "advance"} /\ from'[r] = from[r] /\ id'[r] = id[r]
  PROVE  ToldInv'
BY DEF ToldInv, NoLineSwallowed

LEMMA StartTold ==
  ASSUME TypeInv, ToldInv, NEW r \in Calls, NEW i \in Ids, StartReading(r, i),
         cursors' = cursors, told' = told, more' = more, id'[r] = i, \A q \in Calls \ {r} : id'[q] = id[q]
  PROVE  ToldInv'
<1>1. RepliesTyped /\ ReadingTyped
  BY Groups DEF TypeInv
<1>2. /\ from'[r] = (IF whole[r] THEN 0 ELSE cursors[i])
      /\ \A q \in Calls \ {r} : pc'[q] = pc[q] /\ from'[q] = from[q]
  BY <1>1 DEF StartReading, RepliesTyped, ReadingTyped
<1>3. 1 .. 0 = {} /\ 1 .. cursors[i] \subseteq told[i] \cup more[i]
  BY DEF ToldInv, NoLineSwallowed
<1>4. 1 .. from'[r] \subseteq told'[id'[r]] \cup more'[id'[r]]
  BY <1>2, <1>3
<1> QED BY <1>2, <1>4 DEF ToldInv, NoLineSwallowed

LEMMA SeekTold ==
  ASSUME TypeInv, ToldInv, NEW r \in Calls, NEW i \in Ids, NEW rep, NEW dirs,
         SeekEvents(r, i, rep, dirs), id'[r] = i, \A q \in Calls \ {r} : id'[q] = id[q]
  PROVE  ToldInv'
<1>1. cursors' = cursors /\ told' = told /\ more' = more
  BY DEF SeekEvents
<1>2. CASE StartReading(r, i)
  BY <1>1, <1>2, StartTold
<1>3. CASE pc' = [pc EXCEPT ![r] = "locate"] /\ UNCHANGED <<from, muddled>>
  <2>1. \A q \in Calls : pc'[q] \in {"read", "advance"} => q # r /\ pc'[q] = pc[q]
    BY <1>3, Groups DEF TypeInv, RepliesTyped
  <2> QED BY <1>1, <1>3, <2>1, QuietTold
<1> QED BY <1>2, <1>3 DEF SeekEvents

\* What a call does with its answer, or on its way to another process, is quiet.
LEMMA MovesTold ==
  ASSUME TypeInv, ToldInv, NEW r \in Calls, NEW to \in (Waiting \ {"read", "advance"}) \cup {"done"},
         pc' = [pc EXCEPT ![r] = to], \A q \in Calls \ {r} : id'[q] = id[q],
         cursors' = cursors, told' = told, more' = more, from' = from
  PROVE  ToldInv'
<1>1. \A q \in Calls : pc'[q] \in {"read", "advance"} => q # r /\ pc'[q] = pc[q]
  BY Groups DEF TypeInv, RepliesTyped
<1> QED BY <1>1, QuietTold

LEMMA AdvanceTold ==
  ASSUME TypeInv, ToldInv, NEW r \in Calls, Advance(r)
  PROVE  ToldInv'
<1>1. MemoryTyped /\ RepliesTyped /\ ReadingTyped /\ TaleTyped /\ id[r] \in Ids
  BY Groups DEF TypeInv, Started, NeedsRun, Advance
<1>2. \A i \in Ids : told[i] \subseteq told'[i] /\ more[i] \subseteq more'[i]
  BY <1>1 DEF Advance, TaleTyped
<1>3. /\ told'[id[r]] = told[id[r]] \cup Told(r) /\ cursors'[id[r]] = upto[r]
      /\ more'[id[r]] = more[id[r]] \cup (New(r) \ Told(r))
      /\ \A i \in Ids \ {id[r]} : cursors'[i] = cursors[i] /\ more'[i] = more[i]
  BY <1>1 DEF Advance, CursorAfter, TaleTyped, MemoryTyped
<1>4. 1 .. from[r] \subseteq told[id[r]] \cup more[id[r]]
  BY DEF ToldInv, Advance
<1>5. 1 .. upto[r] \subseteq (1 .. from[r]) \cup New(r)
  BY <1>1, McpOK DEF ReadingTyped, New
<1>n. ASSUME NEW i \in Ids PROVE 1 .. cursors'[i] \subseteq told'[i] \cup more'[i]
  BY <1>2, <1>3, <1>4, <1>5 DEF NoLineSwallowed, ToldInv
<1>m. ASSUME NEW i \in Ids, NEW n \in more'[i]
      PROVE  \E m \in MaxEvents .. n - 1 : /\ m - MaxEvents + 1 .. m \subseteq told'[i]
                                            /\ m + 1 .. n \subseteq more'[i]
  <2>1. CASE n \in more[i]
    BY <1>2, <2>1 DEF NoLineSwallowed, ToldInv
  <2>2. CASE n \notin more[i]
    <3>1. i = id[r] /\ n \in New(r) \ Told(r)
      BY <1>3, <1>m, <2>2
    <3> DEFINE k == from[r] + MaxEvents
    <3>2. from[r] \in Nat /\ upto[r] \in Nat /\ MaxEvents \in Nat \ {0}
      BY <1>1, McpOK DEF ReadingTyped
    <3>3. n \in from[r] + 1 .. upto[r] /\ k < n /\ k \in MaxEvents .. n - 1
      BY <3>1, <3>2 DEF New, Told
    <3>4. k - MaxEvents + 1 .. k \subseteq Told(r)
      BY <3>2, <3>3 DEF New, Told
    <3>5. k + 1 .. n \subseteq New(r) \ Told(r)
      BY <3>2, <3>3 DEF New, Told
    <3> HIDE DEF k
    <3> QED BY <1>3, <3>1, <3>3, <3>4, <3>5
  <2> QED BY <2>1, <2>2
<1>6. NoLineSwallowed'
  BY <1>n, <1>m DEF NoLineSwallowed
<1>7. \A q \in Calls : pc'[q] \in {"read", "advance"} =>
         q # r /\ pc'[q] = pc[q] /\ from'[q] = from[q] /\ id'[q] = id[q] /\ id[q] \in Ids
  BY <1>1 DEF Advance, Answer, RepliesTyped, ReadingTyped, request, TypeInv, Started, NeedsRun
<1> QED BY <1>2, <1>6, <1>7 DEF ToldInv

\* However the reads of overlapping calls, their advances, new lines and vanishing files
\* interleave, every line that a cursor has passed was told of or counted, and it was only
\* counted behind MAX_EVENTS lines that were told of (McpServer.NoLineSwallowed).
THEOREM LinesAreTold == Spec => []NoLineSwallowed
<1>1. Init => ToldInv
  <2> SUFFICES ASSUME Init PROVE ToldInv
    OBVIOUS
  <2>1. \A i \in Ids : cursors[i] = 0
    BY DEF Init
  <2>2. 1 .. 0 = {}
    OBVIOUS
  <2> QED BY <2>1, <2>2 DEF Init, ToldInv, NoLineSwallowed
<1>2. TypeInv /\ ToldInv /\ [Next]_vars => ToldInv'
  <2> SUFFICES ASSUME TypeInv, ToldInv, [Next]_vars PROVE ToldInv'
    OBVIOUS
  <2>0. RequestTyped /\ RepliesTyped
    BY Groups DEF TypeInv
  <2>1. ASSUME NEW r \in Calls, Ask(r) PROVE ToldInv'
    <3>1. PICK t \in Tools, i \in Ids :
            /\ id' = [id EXCEPT ![r] = IF t \in AboutARun THEN i ELSE NoId]
            /\ pc' = [pc EXCEPT ![r] = FirstOf(t)]
      BY <2>1 DEF Ask
    <3>2. FirstOf(t) \in Waiting \ {"read", "advance"}
      BY McpOK DEF AllTools, FirstOf, Waiting, Processes
    <3>3. \A q \in Calls \ {r} : id'[q] = id[q]
      BY <3>1, <2>0 DEF RequestTyped
    <3> QED BY <2>1, <3>1, <3>2, <3>3, MovesTold DEF Ask, memory, reading, tale
  <2>2. ASSUME NEW r \in Calls, AskBadly(r) PROVE ToldInv'
    BY <2>2, MovesTold DEF AskBadly, Answer, memory, reading, tale, request
  <2>3. ASSUME NEW r \in Calls, WakeLands(r) PROVE ToldInv'
    BY <2>3, MovesTold DEF WakeLands, Answer, memory, reading, tale, request, Waiting, Processes
  <2>4. ASSUME NEW r \in Calls, NEW p, NEW S, Ends(r, p, S) PROVE ToldInv'
    BY <2>4, MovesTold DEF Ends, Answer, memory, reading, tale, request
  <2>5. ASSUME NEW r \in Calls, OpenLands(r) PROVE ToldInv'
    <3>1. PICK to \in {"done", "capture"} : pc' = [pc EXCEPT ![r] = to]
      BY <2>5 DEF OpenLands, Answer
    <3>2. \A q \in Calls \ {r} : id'[q] = id[q]
      BY <2>0, <2>5 DEF OpenLands, RequestTyped
    <3> QED BY <2>5, <3>1, <3>2, MovesTold DEF OpenLands, reading, tale, Waiting, Processes
  <2>6. ASSUME NEW r \in Calls, StepLands(r) PROVE ToldInv'
    <3>1. id' = id /\ id[r] \in Ids
      BY <2>6 DEF StepLands, request, TypeInv, Started, NeedsRun
    <3>2. CASE UNCHANGED <<memory, pc, report, reading, answer, tale>>
      BY <3>1, <3>2, QuietTold DEF memory, reading, tale
    <3>3. CASE SeekEvents(r, id[r], report[r], run_dirs)
      BY <3>1, <3>3, SeekTold
    <3>4. CASE /\ \E to \in {"done", "capture"} : pc' = [pc EXCEPT ![r] = to]
               /\ UNCHANGED <<memory, reading, tale>>
      BY <3>1, <3>4, MovesTold DEF memory, reading, tale, Waiting, Processes
    <3> QED BY <2>6, <3>2, <3>3, <3>4 DEF StepLands, Answer
  <2>7. ASSUME NEW r \in Calls, CaptureLands(r) PROVE ToldInv'
    <3>1. id' = id /\ id[r] \in Ids
      BY <2>7 DEF CaptureLands, request, TypeInv, Started, NeedsRun
    <3>2. CASE \E rep : SeekEvents(r, id[r], rep, run_dirs)
      BY <3>1, <3>2, SeekTold
    <3>3. CASE /\ pc' = [pc EXCEPT ![r] = "done"]
               /\ UNCHANGED <<memory, reading, tale>>
      BY <3>1, <3>3, MovesTold DEF memory, reading, tale
    <3> QED BY <2>7, <3>2, <3>3 DEF CaptureLands, Answer
  <2>8. ASSUME NEW r \in Calls, CloseLands(r) PROVE ToldInv'
    BY <2>8, MovesTold DEF CloseLands, Answer, memory, reading, tale, request
  <2>9. ASSUME NEW r \in Calls, RunLands(r) PROVE ToldInv'
    <3>1. CASE \E i \in Ids : \E rep, dirs : SeekEvents(r, i, rep, dirs) /\ id' = [id EXCEPT ![r] = i]
      BY <2>0, <3>1, SeekTold DEF RequestTyped
    <3>2. CASE /\ pc' = [pc EXCEPT ![r] = "done"]
               /\ UNCHANGED <<id, memory, reading, tale>>
      BY <3>2, MovesTold DEF memory, reading, tale
    <3> QED BY <2>9, <3>1, <3>2 DEF RunLands, Answer
  <2>10. ASSUME NEW r \in Calls, ShowLands(r) PROVE ToldInv'
    <3>1. id' = id /\ id[r] \in Ids
      BY <2>10 DEF ShowLands, request, TypeInv, Started, NeedsRun
    <3>2. \E rep, dirs : SeekEvents(r, id[r], rep, dirs)
      BY <2>10 DEF ShowLands
    <3> QED BY <3>1, <3>2, SeekTold
  <2>11. ASSUME NEW r \in Calls, LocateLands(r) PROVE ToldInv'
    <3>1. id' = id /\ id[r] \in Ids /\ cursors' = cursors /\ told' = told /\ more' = more
      BY <2>11 DEF LocateLands, request, TypeInv, Started, NeedsRun
    <3>2. CASE StartReading(r, id[r])
      BY <3>1, <3>2, StartTold
    <3>3. CASE pc' = [pc EXCEPT ![r] = "done"] /\ from' = from
      BY <3>1, <3>3, MovesTold
    <3> QED BY <2>11, <3>2, <3>3 DEF LocateLands, Answer
  <2>12. ASSUME NEW r \in Calls, Read(r) PROVE ToldInv'
    <3>1. \A q \in Calls : pc'[q] \in {"read", "advance"} => pc[q] \in {"read", "advance"}
      BY <2>0, <2>12 DEF RepliesTyped, Read
    <3> QED BY <2>12, <3>1, QuietTold DEF Read, memory, request
  <2>13. ASSUME NEW r \in Calls, Advance(r) PROVE ToldInv'
    BY <2>13, AdvanceTold
  <2>14. ASSUME NEW i \in Ids, Emits(i) \/ Expires(i) \/ Vanishes(i) PROVE ToldInv'
    BY <2>14, QuietTold DEF Emits, Expires, Vanishes, memory, reading, tale, request
  <2>15. CASE UNCHANGED vars
    BY <2>15, QuietTold DEF vars, memory, reading, tale, request
  <2> QED
    BY <2>1, <2>2, <2>3, <2>4, <2>5, <2>6, <2>7, <2>8, <2>9, <2>10, <2>11, <2>12, <2>13, <2>14,
       <2>15 DEF Next, Handles, DoctorLands, EvalLands, RecordLands, VerifyLands, RunsLands
<1>3. ToldInv => NoLineSwallowed
  BY DEF ToldInv
<1> QED BY <1>1, <1>2, <1>3, TypeInvariant, PTL DEF Spec

-----------------------------------------------------------------------------
(* Passes are earned and blame is fair: at every moment, what a report says  *)
(* is what the processes of its call have met so far.                        *)

Good(rep) == rep.failure = "none" /\ ~rep.vacuous

\* The report `rep` is true of processes that met `m`.
TrueOf(rep, m) ==
  /\ rep.failure = "under_test" => m \cap {"ui", "counted"} # {}
  /\ rep.failure = "tooling" => "tool" \in m
  /\ rep.failure = "none" => m \subseteq {"ok", "nothing", "unwoken"}
  /\ rep.vacuous => "nothing" \in m
  /\ Good(rep) => m \subseteq {"ok", "unwoken"}

\* A call at `p`, with `l` steps to make and the answer `a`.
FairOne(rep, m, p, l, a) ==
  /\ rep.failure = "request" => m = {} /\ p = "done"
  /\ TrueOf(rep, m)
  /\ p = "step" => Good(rep)
  /\ p # "step" /\ Good(rep) => l = 0
  /\ p \in {"locate", "read", "advance", "done"} /\ Good(rep) => "ok" \in m
  /\ p = "idle" => m = {} /\ rep = NewReport
  /\ a # "none" => p = "done" /\ a = Status(rep)

FairInv == \A r \in Calls : FairOne(report[r], met[r], pc[r], left[r], answer[r])

\* A step of one call leaves the others as they are.
LEMMA LocalFair ==
  ASSUME FairInv, NEW r \in Calls,
         \A q \in Calls \ {r} : /\ report'[q] = report[q] /\ met'[q] = met[q] /\ pc'[q] = pc[q]
                                /\ left'[q] = left[q] /\ answer'[q] = answer[q],
         FairOne(report'[r], met'[r], pc'[r], left'[r], answer'[r])
  PROVE  FairInv'
<1>1. ASSUME NEW q \in Calls
      PROVE  FairOne(report'[q], met'[q], pc'[q], left'[q], answer'[q])
  BY DEF FairInv
<1> QED BY <1>1 DEF FairInv, FairOne, TrueOf, Good, NewReport, Status

\* One more process, one more truth.
LEMMA AbsorbTrue ==
  ASSUME NEW rep \in Report, NEW m, NEW h \in Happenings, TrueOf(rep, m),
         rep.failure # "request"
  PROVE  /\ TrueOf(Absorb(rep, h), m \cup {TruthOf(h)})
         /\ Absorb(rep, h).failure # "request"
         /\ Good(Absorb(rep, h)) => Good(rep) /\ h = "pass"
<1>1. CASE h = "pass"
  <2>1. Absorb(rep, h) = rep /\ TruthOf(h) = "ok"
    BY <1>1 DEF Absorb, Landing, ExitCode, NoCode, ProvedNothing, Line, Mishaps, TruthOf
  <2> QED BY <1>1, <2>1 DEF TrueOf, Good
<1>2. CASE h = "fail"
  <2>1. Absorb(rep, h) = Failed(rep, "under_test") /\ TruthOf(h) = "ui"
    BY <1>2 DEF Absorb, Landing, ExitCode, NoCode, Line, Mishaps, TruthOf
  <2> QED BY <2>1 DEF TrueOf, Good, Failed, FailedAnew, Report
<1>3. CASE h \in {"nothing", "skipped", "odd"}
  <2>1. Absorb(rep, h) = Vacuous(rep) /\ TruthOf(h) = "nothing"
    BY <1>3 DEF Absorb, Landing, ExitCode, NoCode, ProvedNothing, Line, Mishaps, TruthOf
  <2> QED BY <2>1 DEF TrueOf, Good, Vacuous, Report
<1>4. CASE h \in Mishaps
  <2>1. Absorb(rep, h) = Failed(rep, "tooling") /\ TruthOf(h) = "tool"
    BY <1>4 DEF Absorb, Landing, ExitCode, NoCode, Line, Mishaps, TruthOf
  <2>2. h # "pass"
    BY <1>4 DEF Mishaps
  <2> QED BY <2>1, <2>2 DEF TrueOf, Good, Failed, FailedAnew, Report
<1> QED BY <1>1, <1>2, <1>3, <1>4 DEF Happenings

LEMMA FailedTrue ==
  ASSUME NEW rep \in Report, NEW m, TrueOf(rep, m), rep.failure # "request"
  PROVE  /\ \A T \in SUBSET Truths : {"ui", "counted"} \cap T # {} =>
              TrueOf(Failed(rep, "under_test"), m \cup T)
         /\ TrueOf(Failed(rep, "under_test"), m \cup {"ui"})
         /\ TrueOf(Failed(rep, "tooling"), m \cup {"tool"})
         /\ TrueOf(rep, m \cup {"ok"}) /\ TrueOf(rep, m \cup {"unwoken"})
         /\ \A d \in {"under_test", "tooling"} :
              Failed(rep, d).failure # "request" /\ ~Good(Failed(rep, d))
BY DEF TrueOf, Good, Failed, FailedAnew, Report

\* A call is answered.
LEMMA AnswersFair ==
  ASSUME TypeInv, FairInv, NEW r \in Calls, NEW rep \in Report, NEW T \in SUBSET Truths,
         Answer(r, rep), MeetsAll(r, T), left' = left,
         rep.failure # "request", TrueOf(rep, met[r] \cup T),
         Good(rep) => left[r] = 0 /\ "ok" \in T
  PROVE  FairInv'
<1>1. RepliesTyped /\ MetTyped
  BY Groups DEF TypeInv
<1>2. /\ report'[r] = rep /\ answer'[r] = Status(rep) /\ pc'[r] = "done"
      /\ met'[r] = met[r] \cup T
      /\ \A q \in Calls \ {r} : /\ report'[q] = report[q] /\ answer'[q] = answer[q]
                                 /\ pc'[q] = pc[q] /\ met'[q] = met[q]
  BY <1>1 DEF Answer, MeetsAll, RepliesTyped, MetTyped
<1>3. FairOne(rep, met[r] \cup T, "done", left[r], Status(rep))
  BY DEF FairOne
<1> QED BY <1>2, <1>3, LocalFair

\* A report that is still good has met no other truth than this.
LEMMA GoodMet ==
  ASSUME NEW rep, NEW m, NEW t, TrueOf(rep, m \cup {t}), Good(rep), t # "unwoken"
  PROVE  t = "ok"
BY DEF TrueOf

LEMMA AnswerFair ==
  ASSUME TypeInv, FairInv, NEW r \in Calls, NEW rep \in Report, NEW t \in Truths \ {"unwoken"},
         Answer(r, rep), Meets(r, t), left' = left,
         rep.failure # "request", TrueOf(rep, met[r] \cup {t}), Good(rep) => left[r] = 0
  PROVE  FairInv'
<1>1. {t} \in SUBSET Truths /\ MeetsAll(r, {t})
  BY DEF Meets
<1>2. Good(rep) => "ok" \in {t}
  BY GoodMet
<1> QED BY <1>1, <1>2, AnswersFair

\* A process has ended, and the call goes on: to read, or to another process.
LEMMA GoesOnFair ==
  ASSUME TypeInv, FairInv, NEW r \in Calls, NEW rep \in Report, NEW t \in Truths \ {"unwoken"},
         NEW to \in Waiting \ {"step"},
         pc' = [pc EXCEPT ![r] = to], report' = [report EXCEPT ![r] = rep], answer' = answer,
         Meets(r, t), left'[r] = left[r] \/ left'[r] = 0,
         \A q \in Calls \ {r} : left'[q] = left[q],
         pc[r] # "done", rep.failure # "request", TrueOf(rep, met[r] \cup {t}),
         Good(rep) => left'[r] = 0
  PROVE  FairInv'
<1>1. RepliesTyped /\ MetTyped
  BY Groups DEF TypeInv
<1>2. /\ report'[r] = rep /\ pc'[r] = to /\ met'[r] = met[r] \cup {t}
      /\ \A q \in Calls \ {r} : report'[q] = report[q] /\ pc'[q] = pc[q] /\ met'[q] = met[q]
  BY <1>1 DEF Meets, MeetsAll, RepliesTyped, MetTyped
<1>3. answer[r] = "none"
  BY DEF FairInv, FairOne
<1>4. to # "done" /\ to # "idle"
  BY DEF Waiting, Processes
<1>5. FairOne(rep, met[r] \cup {t}, to, left'[r], answer[r])
  BY <1>3, <1>4, GoodMet DEF FairOne
<1> QED BY <1>2, <1>5, LocalFair

\* Before an answer, a report is of no bad request, and true.
LEMMA BeforeAnswer ==
  ASSUME TypeInv, FairInv, NEW r \in Calls, pc[r] # "done"
  PROVE  /\ report[r] \in Report /\ report[r].failure # "request"
         /\ TrueOf(report[r], met[r]) /\ answer[r] = "none"
         /\ pc[r] # "step" /\ Good(report[r]) => left[r] = 0
BY Groups DEF TypeInv, RepliesTyped, FairInv, FairOne

\* Nothing that a report tells of is touched.
LEMMA QuietFair ==
  ASSUME FairInv, UNCHANGED <<report, met, pc, left, answer>>
  PROVE  FairInv'
BY DEF FairInv, FairOne, TrueOf, Good, NewReport, Status

LEMMA SeekFair ==
  ASSUME TypeInv, FairInv, NEW r \in Calls, NEW i \in Ids, NEW rep \in Report, NEW dirs,
         NEW t \in Truths \ {"unwoken"}, SeekEvents(r, i, rep, dirs), Meets(r, t),
         left'[r] = left[r] \/ left'[r] = 0, \A q \in Calls \ {r} : left'[q] = left[q],
         pc[r] # "done", rep.failure # "request", TrueOf(rep, met[r] \cup {t}),
         Good(rep) => left'[r] = 0
  PROVE  FairInv'
<1>1. PICK to \in {"read", "locate"} : pc' = [pc EXCEPT ![r] = to]
  BY DEF SeekEvents, StartReading
<1>2. to \in Waiting \ {"step"}
  BY DEF Waiting, Processes
<1> QED BY <1>1, <1>2, GoesOnFair DEF SeekEvents

\* The call ends with a process that met `h`.
LEMMA AbsorbedFair ==
  ASSUME TypeInv, FairInv, NEW r \in Calls, NEW h \in Happenings, pc[r] # "done",
         Answer(r, Absorb(report[r], h)), Meets(r, TruthOf(h)), left' = left,
         pc[r] = "step" => h # "pass"
  PROVE  FairInv'
<1>1. Absorb(report[r], h) \in Report /\ TruthOf(h) \in Truths \ {"unwoken"}
  BY BeforeAnswer, ReportsTyped, TruthTyped
<1>2. /\ TrueOf(Absorb(report[r], h), met[r] \cup {TruthOf(h)})
      /\ Absorb(report[r], h).failure # "request"
      /\ Good(Absorb(report[r], h)) => left[r] = 0
  BY BeforeAnswer, AbsorbTrue
<1> QED BY <1>1, <1>2, AnswerFair

-----------------------------------------------------------------------------
LEMMA InitFair == Init => FairInv
BY DEF Init, FairInv, FairOne, TrueOf, Good, NewReport

LEMMA AskFair ==
  ASSUME TypeInv, FairInv, NEW r \in Calls, Ask(r)
  PROVE  FairInv'
<1>1. RequestTyped /\ RepliesTyped
  BY Groups DEF TypeInv
<1>2a. PICK t \in Tools :
         /\ pc' = [pc EXCEPT ![r] = FirstOf(t)]
         /\ \E n \in IF t = "act" THEN 1 .. MaxSteps ELSE {0} : left' = [left EXCEPT ![r] = n]
  BY DEF Ask
<1>2. PICK n \in IF t = "act" THEN 1 .. MaxSteps ELSE {0} : left' = [left EXCEPT ![r] = n]
  BY <1>2a
<1>3. /\ FirstOf(t) \in Waiting \ {"locate", "read", "advance"}
      /\ (FirstOf(t) = "step" <=> t = "act")
  BY McpOK DEF AllTools, FirstOf, Waiting, Processes
<1>4. FirstOf(t) \notin {"locate", "read", "advance", "done", "idle"}
  BY <1>3 DEF Waiting, Processes
<1>5. report[r] = NewReport /\ met[r] = {} /\ answer[r] = "none"
  BY DEF Ask, FairInv, FairOne
<1>6. FairOne(report[r], met[r], FirstOf(t), n, answer[r])
  BY <1>2, <1>3, <1>4, <1>5 DEF FairOne, TrueOf, Good, NewReport
<1>7. /\ pc'[r] = FirstOf(t) /\ left'[r] = n
      /\ \A q \in Calls \ {r} : pc'[q] = pc[q] /\ left'[q] = left[q]
  BY <1>1, <1>2a, <1>2 DEF RequestTyped, RepliesTyped
<1>8. report' = report /\ met' = met /\ answer' = answer
  BY DEF Ask
<1> QED BY <1>6, <1>7, <1>8, LocalFair

LEMMA AskBadlyFair ==
  ASSUME TypeInv, FairInv, NEW r \in Calls, AskBadly(r)
  PROVE  FairInv'
<1>1. met[r] = {} /\ answer[r] = "none"
  BY DEF AskBadly, FairInv, FairOne
<1>2. /\ Failed(NewReport, "request").failure = "request"
      /\ ~Failed(NewReport, "request").vacuous
  BY DEF NewReport, Failed, FailedAnew
<1>3. FairOne(Failed(NewReport, "request"), met[r], "done", left[r],
              Status(Failed(NewReport, "request")))
  BY <1>1, <1>2 DEF FairOne, TrueOf, Good
<1>4. RepliesTyped
  BY Groups DEF TypeInv
<1>5. /\ report'[r] = Failed(NewReport, "request") /\ pc'[r] = "done"
      /\ answer'[r] = Status(Failed(NewReport, "request"))
      /\ \A q \in Calls \ {r} : report'[q] = report[q] /\ answer'[q] = answer[q] /\ pc'[q] = pc[q]
  BY <1>4 DEF AskBadly, Answer, RepliesTyped
<1>6. left' = left /\ met' = met
  BY DEF AskBadly
<1> QED BY <1>3, <1>5, <1>6, LocalFair

LEMMA WakeFair ==
  ASSUME TypeInv, FairInv, NEW r \in Calls, WakeLands(r)
  PROVE  FairInv'
<1>1. pc[r] # "done" /\ pc[r] # "step" /\ left' = left
  BY DEF WakeLands
<1>2. CASE Answer(r, Failed(report[r], "tooling")) /\ Meets(r, "tool")
  <2>1. Failed(report[r], "tooling") \in Report
    BY <1>1, BeforeAnswer, ReportsTyped DEF Domains
  <2> QED BY <1>1, <1>2, <2>1, BeforeAnswer, FailedTrue, AnswerFair DEF Truths
<1>3. CASE /\ pc' = [pc EXCEPT ![r] = "doctor"] /\ UNCHANGED <<report, answer>>
           /\ \E t \in {"ok", "unwoken"} : Meets(r, t)
  <2>0. PICK t \in {"ok", "unwoken"} : Meets(r, t)
    BY <1>3
  <2>1. RepliesTyped /\ MetTyped
    BY Groups DEF TypeInv
  <2>2. /\ pc'[r] = "doctor" /\ met'[r] = met[r] \cup {t}
        /\ \A q \in Calls \ {r} : pc'[q] = pc[q] /\ met'[q] = met[q]
    BY <1>3, <2>0, <2>1 DEF RepliesTyped, MetTyped, Meets, MeetsAll
  <2>3. TrueOf(report[r], met[r] \cup {t}) /\ report[r].failure # "request"
    BY <1>1, BeforeAnswer, FailedTrue
  <2>4. FairOne(report[r], met[r] \cup {t}, "doctor", left[r], answer[r])
    BY <1>1, <2>3, BeforeAnswer DEF FairOne
  <2> QED BY <1>1, <1>3, <2>2, <2>4, LocalFair
<1> QED BY <1>2, <1>3 DEF WakeLands

LEMMA EndsFair ==
  ASSUME TypeInv, FairInv, NEW r \in Calls, NEW S \in SUBSET Happenings,
         NEW p \in Waiting \ {"step"}, Ends(r, p, S)
  PROVE  FairInv'
<1>1. pc[r] # "done" /\ pc[r] # "step" /\ left' = left
  BY DEF Ends, Waiting, Processes
<1> QED BY <1>1, AbsorbedFair DEF Ends

LEMMA OneProcessFair ==
  ASSUME TypeInv, FairInv, NEW r \in Calls,
         \/ DoctorLands(r) \/ EvalLands(r) \/ RecordLands(r) \/ VerifyLands(r) \/ RunsLands(r)
  PROVE  FairInv'
<1>0. {"doctor", "eval", "record", "verify", "runs"} \subseteq Waiting \ {"step"}
  BY DEF Waiting, Processes
<1>1. CASE DoctorLands(r)
  BY <1>0, <1>1, EndsFair, FailuresHappen DEF DoctorLands
<1>2. CASE EvalLands(r)
  BY <1>0, <1>2, EndsFair, FailuresHappen, Outcomes DEF EvalLands
<1>3. CASE RecordLands(r)
  BY <1>0, <1>3, EndsFair, FailuresHappen, Outcomes DEF RecordLands
<1>4. CASE VerifyLands(r)
  BY <1>0, <1>4, EndsFair, FailuresHappen DEF VerifyLands
<1>5. CASE RunsLands(r)
  BY <1>0, <1>5, EndsFair, FailuresHappen DEF RunsLands
<1> QED BY <1>1, <1>2, <1>3, <1>4, <1>5

LEMMA OpenFair ==
  ASSUME TypeInv, FairInv, NEW r \in Calls, OpenLands(r)
  PROVE  FairInv'
<1>1. pc[r] # "done" /\ pc[r] # "step" /\ left' = left
  BY DEF OpenLands
<1>2. CASE Meets(r, "ok") /\ Answer(r, report[r])
  <2>1. TrueOf(report[r], met[r] \cup {"ok"})
    BY <1>1, BeforeAnswer, FailedTrue
  <2> QED BY <1>1, <1>2, <2>1, BeforeAnswer, AnswerFair DEF Truths
<1>3. CASE /\ Meets(r, "ok") /\ pc' = [pc EXCEPT ![r] = "capture"]
           /\ UNCHANGED <<report, answer>>
  <2>1. TrueOf(report[r], met[r] \cup {"ok"})
    BY <1>1, BeforeAnswer, FailedTrue
  <2>2. report' = [report EXCEPT ![r] = report[r]]
    BY <1>3, Groups DEF TypeInv, RepliesTyped
  <2>3. "capture" \in Waiting \ {"step"} /\ "ok" \in Truths
    BY DEF Waiting, Processes, Truths
  <2> QED BY <1>1, <1>3, <2>1, <2>2, <2>3, BeforeAnswer, GoesOnFair
<1>4. ASSUME NEW h \in Failures, Answer(r, Absorb(report[r], h)), Meets(r, TruthOf(h))
      PROVE  FairInv'
  BY <1>1, <1>4, AbsorbedFair, FailuresHappen
<1> QED BY <1>2, <1>3, <1>4 DEF OpenLands

LEMMA StepFair ==
  ASSUME TypeInv, FairInv, NEW r \in Calls, StepLands(r)
  PROVE  FairInv'
<1>1. RequestTyped /\ RepliesTyped /\ MetTyped /\ pc[r] = "step"
  BY Groups DEF TypeInv, StepLands
<1>2. id[r] \in Ids /\ left[r] \in 1 .. MaxSteps
  BY <1>1, McpOK DEF TypeInv, Started, NeedsRun, RequestTyped
<1>3. PICK h \in InSession(id[r], {"pass", "fail", "nothing"}) :
       /\ Meets(r, TruthOf(h))
       /\ \/ /\ h = "pass" /\ left[r] > 1
             /\ UNCHANGED <<memory, pc, report, reading, answer, tale>>
          \/ /\ h = "pass" /\ left[r] = 1
             /\ SeekEvents(r, id[r], report[r], run_dirs)
          \/ /\ h # "pass"
             /\ \/ Answer(r, Absorb(report[r], h))
                \/ /\ report' = [report EXCEPT ![r] = Absorb(@, h)]
                   /\ pc' = [pc EXCEPT ![r] = "capture"]
                   /\ UNCHANGED answer
       /\ left' = [left EXCEPT ![r] = IF h = "pass" THEN @ - 1 ELSE @]
  BY DEF StepLands
<1>4. h \in Happenings
  BY <1>2, Outcomes, FailuresHappen
<1>5. /\ report[r] \in Report /\ report[r].failure # "request" /\ TrueOf(report[r], met[r])
      /\ answer[r] = "none" /\ Good(report[r])
  BY <1>1, BeforeAnswer DEF FairInv, FairOne
<1>6. TrueOf(report[r], met[r] \cup {"ok"})
  BY <1>5, FailedTrue
<1>7. CASE h = "pass" /\ left[r] > 1
  <2>1. TruthOf(h) = "ok"
    BY <1>7 DEF TruthOf
  <2>2. /\ met'[r] = met[r] \cup {"ok"} /\ pc' = pc /\ report' = report /\ answer' = answer
        /\ \A q \in Calls \ {r} : met'[q] = met[q] /\ left'[q] = left[q]
    BY <1>1, <1>3, <1>7, <2>1 DEF Meets, MeetsAll, MetTyped, RequestTyped
  <2>3. FairOne(report[r], met[r] \cup {"ok"}, "step", left'[r], answer[r])
    BY <1>5, <1>6 DEF FairOne
  <2> QED BY <1>1, <2>2, <2>3, LocalFair
<1>8. CASE h = "pass" /\ left[r] = 1
  <2>1. TruthOf(h) = "ok" /\ "ok" \in Truths \ {"unwoken"}
    BY <1>8 DEF TruthOf, Truths
  <2>2. left'[r] = 0 /\ \A q \in Calls \ {r} : left'[q] = left[q]
    BY <1>1, <1>3, <1>8 DEF RequestTyped
  <2>3. SeekEvents(r, id[r], report[r], run_dirs) /\ Meets(r, "ok")
    BY <1>3, <1>8, <2>1
  <2> QED BY <1>1, <1>2, <1>5, <1>6, <2>1, <2>2, <2>3, SeekFair
<1>9. CASE h # "pass"
  <2>1. left' = left
    BY <1>1, <1>3, <1>9 DEF RequestTyped
  <2>2. CASE Answer(r, Absorb(report[r], h))
    BY <1>1, <1>3, <1>4, <1>9, <2>1, <2>2, AbsorbedFair
  <2>3. CASE /\ report' = [report EXCEPT ![r] = Absorb(@, h)]
             /\ pc' = [pc EXCEPT ![r] = "capture"] /\ answer' = answer
    <3>1. /\ Absorb(report[r], h) \in Report /\ TruthOf(h) \in Truths \ {"unwoken"}
          /\ "capture" \in Waiting \ {"step"}
      BY <1>4, <1>5, ReportsTyped, TruthTyped DEF Waiting, Processes
    <3>2. /\ TrueOf(Absorb(report[r], h), met[r] \cup {TruthOf(h)})
          /\ Absorb(report[r], h).failure # "request" /\ ~Good(Absorb(report[r], h))
      BY <1>4, <1>5, <1>9, AbsorbTrue
    <3>3. report' = [report EXCEPT ![r] = Absorb(report[r], h)]
      BY <2>3
    <3> QED BY <1>1, <1>3, <2>1, <2>3, <3>1, <3>2, <3>3, GoesOnFair
  <2> QED BY <1>3, <1>9, <2>2, <2>3
<1> QED BY <1>2, <1>3, <1>7, <1>8, <1>9

\* An empty snapshot blames the application, any other changes nothing.
LEMMA MergedTrue ==
  ASSUME NEW rep \in Report, NEW m, NEW page, TrueOf(rep, m), rep.failure # "request"
  PROVE  /\ TrueOf(MergeCapture(rep, page), m \cup {IF page = "blank" THEN "ui" ELSE "ok"})
         /\ MergeCapture(rep, page).failure # "request"
         /\ Good(MergeCapture(rep, page)) => Good(rep)
BY FailedTrue DEF MergeCapture

LEMMA CaptureFair ==
  ASSUME TypeInv, FairInv, NEW r \in Calls, CaptureLands(r)
  PROVE  FairInv'
<1>1. pc[r] = "capture" /\ left' = left /\ id[r] \in Ids
  BY DEF CaptureLands, TypeInv, Started, NeedsRun
<1>2. PICK h \in InSession(id[r], {"pass"}) :
       IF h = "pass"
         THEN \E page \in Pages :
                /\ Meets(r, IF page = "blank" THEN "ui" ELSE "ok")
                /\ SeekEvents(r, id[r], MergeCapture(report[r], page), run_dirs)
         ELSE Answer(r, Absorb(report[r], h)) /\ Meets(r, TruthOf(h))
  BY DEF CaptureLands
<1>3. h \in Happenings
  BY <1>1, Outcomes, FailuresHappen
<1>4. CASE h = "pass"
  <2>1. PICK page \in Pages :
          /\ Meets(r, IF page = "blank" THEN "ui" ELSE "ok")
          /\ SeekEvents(r, id[r], MergeCapture(report[r], page), run_dirs)
    BY <1>2, <1>4
  <2> DEFINE t == IF page = "blank" THEN "ui" ELSE "ok"
  <2>2. t \in Truths \ {"unwoken"}
    BY DEF Truths
  <2>3. MergeCapture(report[r], page) \in Report
    BY <1>1, BeforeAnswer, ReportsTyped
  <2>4. /\ TrueOf(MergeCapture(report[r], page), met[r] \cup {t})
        /\ MergeCapture(report[r], page).failure # "request"
        /\ Good(MergeCapture(report[r], page)) => left'[r] = 0
    BY <1>1, BeforeAnswer, MergedTrue
  <2> QED BY <1>1, <2>1, <2>2, <2>3, <2>4, SeekFair
<1>5. CASE h # "pass"
  BY <1>1, <1>2, <1>3, <1>5, AbsorbedFair
<1> QED BY <1>4, <1>5

LEMMA CloseFair ==
  ASSUME TypeInv, FairInv, NEW r \in Calls, CloseLands(r)
  PROVE  FairInv'
<1>1. pc[r] = "close" /\ left' = left /\ id[r] \in Ids
  BY DEF CloseLands, TypeInv, Started, NeedsRun
<1>2. PICK v \in Happenings :
        /\ MeetsAll(r, IF v = "fail" THEN {"counted"} \cup counts[id[r]].failed
                                    ELSE {TruthOf(v)})
        /\ Answer(r, IF v = "fail" THEN Failed(report[r], "under_test")
                     ELSE Absorb(report[r], v))
  <2>1. PICK h \in Failures \cup {"pass", "error"} :
          \E v \in {h, "fail", "nothing", "pass"} :
            /\ MeetsAll(r, IF v = "fail" THEN {"counted"} \cup counts[id[r]].failed
                                        ELSE {TruthOf(v)})
            /\ Answer(r, IF v = "fail" THEN Failed(report[r], "under_test")
                         ELSE Absorb(report[r], v))
    BY DEF CloseLands
  <2> QED BY <2>1, FailuresHappen
<1>3. CASE v = "fail"
  <2> DEFINE T == {"counted"} \cup counts[id[r]].failed
  <2>1. T \in SUBSET Truths /\ "counted" \in T
    BY <1>1, Groups DEF TypeInv, WorldTyped, Truths
  <2>2. Failed(report[r], "under_test") \in Report
    BY <1>1, BeforeAnswer, ReportsTyped DEF Domains
  <2>3. MeetsAll(r, T) /\ Answer(r, Failed(report[r], "under_test"))
    BY <1>2, <1>3
  <2> HIDE DEF T
  <2>4. /\ TrueOf(Failed(report[r], "under_test"), met[r] \cup T)
        /\ Failed(report[r], "under_test").failure # "request"
        /\ ~Good(Failed(report[r], "under_test"))
    BY <1>1, <2>1, BeforeAnswer, FailedTrue
  <2> QED BY <1>1, <2>1, <2>2, <2>3, <2>4, AnswersFair
<1>4. CASE v # "fail"
  <2>1. Answer(r, Absorb(report[r], v)) /\ Meets(r, TruthOf(v))
    BY <1>2, <1>4 DEF Meets
  <2> QED BY <1>1, <2>1, AbsorbedFair
<1> QED BY <1>3, <1>4

LEMMA RunFair ==
  ASSUME TypeInv, FairInv, NEW r \in Calls, RunLands(r)
  PROVE  FairInv'
<1>1. pc[r] = "run" /\ left' = left
  BY DEF RunLands
<1>2. ASSUME NEW i \in Ids, NEW h \in {"pass", "fail", "nothing", "odd"}, NEW dirs,
             Meets(r, TruthOf(h)), SeekEvents(r, i, Absorb(report[r], h), dirs)
      PROVE  FairInv'
  <2>1. h \in Happenings /\ TruthOf(h) \in Truths \ {"unwoken"}
    BY FailuresHappen, TruthTyped DEF Happenings
  <2>2. Absorb(report[r], h) \in Report
    BY <1>1, <2>1, BeforeAnswer, ReportsTyped
  <2>3. /\ TrueOf(Absorb(report[r], h), met[r] \cup {TruthOf(h)})
        /\ Absorb(report[r], h).failure # "request"
        /\ Good(Absorb(report[r], h)) => left'[r] = 0
    BY <1>1, <2>1, BeforeAnswer, AbsorbTrue
  <2> QED BY <1>1, <1>2, <2>1, <2>2, <2>3, SeekFair
<1>3. ASSUME NEW h \in Failures, Answer(r, Absorb(report[r], h)), Meets(r, TruthOf(h))
      PROVE  FairInv'
  BY <1>1, <1>3, AbsorbedFair, FailuresHappen
<1> QED BY <1>2, <1>3 DEF RunLands

LEMMA ShowFair ==
  ASSUME TypeInv, FairInv, NEW r \in Calls, ShowLands(r)
  PROVE  FairInv'
<1>1. pc[r] = "show" /\ left' = left /\ id[r] \in Ids
  BY DEF ShowLands, TypeInv, Started, NeedsRun
<1>2. PICK h \in OnRun(id[r], {"pass"}) :
        /\ Meets(r, TruthOf(h))
        /\ SeekEvents(r, id[r], Absorb(report[r], h),
                      IF h = "pass" THEN run_dirs \cup {id[r]} ELSE run_dirs)
  BY DEF ShowLands
<1>3. h \in Happenings /\ TruthOf(h) \in Truths \ {"unwoken"}
  BY <1>1, Outcomes, FailuresHappen, TruthTyped
<1>4. Absorb(report[r], h) \in Report
  BY <1>1, <1>3, BeforeAnswer, ReportsTyped
<1>5. /\ TrueOf(Absorb(report[r], h), met[r] \cup {TruthOf(h)})
      /\ Absorb(report[r], h).failure # "request"
      /\ Good(Absorb(report[r], h)) => left'[r] = 0
  BY <1>1, <1>3, BeforeAnswer, AbsorbTrue
<1> QED BY <1>1, <1>2, <1>3, <1>4, <1>5, SeekFair

\* Reading meets nothing: the report is true of what it was true of.
LEMMA ReadingFair ==
  ASSUME TypeInv, FairInv, NEW r \in Calls, LocateLands(r) \/ Read(r) \/ Advance(r)
  PROVE  FairInv'
<1>1. pc[r] \in {"locate", "read", "advance"} /\ left' = left /\ met' = met
  BY DEF LocateLands, Read, Advance
<1>2. /\ TrueOf(report[r], met[r]) /\ report[r].failure # "request" /\ answer[r] = "none"
      /\ Good(report[r]) => left[r] = 0 /\ "ok" \in met[r]
  BY <1>1 DEF FairInv, FairOne
<1>3. RepliesTyped
  BY Groups DEF TypeInv
<1>4. CASE Answer(r, report[r])
  <2>1. /\ report'[r] = report[r] /\ answer'[r] = Status(report[r]) /\ pc'[r] = "done"
        /\ \A q \in Calls \ {r} : /\ report'[q] = report[q] /\ answer'[q] = answer[q]
                                   /\ pc'[q] = pc[q]
    BY <1>3, <1>4 DEF Answer, RepliesTyped
  <2>2. FairOne(report[r], met[r], "done", left[r], Status(report[r]))
    BY <1>2 DEF FairOne
  <2> QED BY <1>1, <2>1, <2>2, LocalFair
<1>5. CASE /\ pc' \in {[pc EXCEPT ![r] = "read"], [pc EXCEPT ![r] = "advance"]}
           /\ report' = report /\ answer' = answer
  <2>1. pc'[r] \in {"read", "advance"} /\ \A q \in Calls \ {r} : pc'[q] = pc[q]
    BY <1>3, <1>5 DEF RepliesTyped
  <2>2. FairOne(report[r], met[r], pc'[r], left[r], answer[r])
    BY <1>2, <2>1 DEF FairOne
  <2> QED BY <1>1, <1>5, <2>1, <2>2, LocalFair
<1> QED BY <1>4, <1>5 DEF LocateLands, Read, Advance, StartReading

\* At every moment, what a report says is what the processes of its call have met.
LEMMA FairNext ==
  ASSUME TypeInv, FairInv, [Next]_vars
  PROVE  FairInv'
<1>1. ASSUME NEW r \in Calls, Ask(r) \/ AskBadly(r) PROVE FairInv'
  BY <1>1, AskFair, AskBadlyFair
<1>2. ASSUME NEW r \in Calls, Handles(r) PROVE FairInv'
  BY <1>2, WakeFair, OneProcessFair, OpenFair, StepFair, CaptureFair, CloseFair, RunFair,
     ShowFair, ReadingFair DEF Handles
<1>3. ASSUME NEW i \in Ids, Emits(i) \/ Expires(i) \/ Vanishes(i) PROVE FairInv'
  BY <1>3, QuietFair DEF Emits, Expires, Vanishes
<1>4. CASE UNCHANGED vars
  BY <1>4, QuietFair DEF vars
<1> QED BY <1>1, <1>2, <1>3, <1>4 DEF Next

\* "passed" is earned: every process of the call but a `wake` did what it was asked, and a
\* batch of steps was made to its end, whatever else goes on.
THEOREM PassesAreEarned == Spec => []PassIsEarned
<1>1. TypeInv /\ FairInv => PassIsEarned
  <2> SUFFICES ASSUME TypeInv, FairInv, NEW r \in Calls, answer[r] = "passed"
               PROVE  /\ "ok" \in met[r] /\ met[r] \subseteq {"ok", "unwoken"}
                      /\ left[r] = 0
    BY DEF PassIsEarned
  <2>1. pc[r] = "done" /\ Status(report[r]) = "passed"
    BY DEF FairInv, FairOne
  <2>2. Good(report[r])
    BY <2>1, Groups DEF TypeInv, RepliesTyped, Report, Domains, Status, Good
  <2> QED BY <2>1, <2>2 DEF FairInv, FairOne, TrueOf
<1> QED BY <1>1, InitFair, FairNext, TypeInvariant, PTL DEF Spec

\* The blame is fair: the application is blamed when a process saw it fail, or when `close`
\* finds steps that were counted as failed; ui-box when a process of it failed; and arguments
\* when nothing was run.
THEOREM BlameIsEarned == Spec => []BlameIsFair
<1>1. TypeInv /\ FairInv => BlameIsFair
  <2> SUFFICES ASSUME TypeInv, FairInv, NEW r \in Calls
               PROVE  /\ answer[r] = "ui_test_failed" => met[r] \cap {"ui", "counted"} # {}
                      /\ answer[r] = "uibox_unusable" => "tool" \in met[r]
                      /\ answer[r] = "nothing_verified" =>
                           /\ "nothing" \in met[r]
                           /\ met[r] \subseteq {"ok", "nothing", "unwoken"}
                      /\ answer[r] = "invalid_request" => met[r] = {}
    BY DEF BlameIsFair
  <2>1. /\ report[r] \in Report /\ TrueOf(report[r], met[r])
        /\ report[r].failure = "request" => met[r] = {}
        /\ answer[r] # "none" => answer[r] = Status(report[r])
    BY Groups DEF TypeInv, RepliesTyped, FairInv, FairOne
  <2> QED BY <2>1 DEF Status, TrueOf, Report, Domains
<1> QED BY <1>1, InitFair, FairNext, TypeInvariant, PTL DEF Spec

\* A failed report stays with its failure, whatever is absorbed after it.
LEMMA FailuresStay ==
  ASSUME NEW rep, rep.failure # "none"
  PROVE  /\ \A h : Absorb(rep, h).failure = rep.failure
         /\ \A d : Failed(rep, d) = rep
         /\ \A page : MergeCapture(rep, page) = rep
BY DEF Absorb, Failed, Vacuous, MergeCapture

Decided(r) ==
  report[r].failure # "none" => report'[r].failure = report[r].failure /\ left'[r] = left[r]

\* The first trouble decides: nothing that a later process meets turns a failure of the
\* application into one of ui-box or back, and no step is made after it.
THEOREM FirstTroubleStays == Spec => FirstTroubleDecides
<1>1. ASSUME TypeInv, FairInv, [Next]_vars PROVE \A r \in Calls : Decided(r)
  <2> SUFFICES ASSUME NEW r \in Calls, report[r].failure # "none"
               PROVE  report'[r].failure = report[r].failure /\ left'[r] = left[r]
    BY DEF Decided
  <2>0. RepliesTyped /\ RequestTyped /\ pc[r] # "idle" /\ pc[r] # "step"
    BY <1>1, Groups DEF TypeInv, FairInv, FairOne, NewReport, Good
  <2>1. CASE \E q \in Calls : Ask(q)
    BY <2>0, <2>1 DEF Ask, RequestTyped
  <2>2. CASE \E q \in Calls : AskBadly(q)
    BY <2>0, <2>2 DEF AskBadly, Answer, RepliesTyped
  <2>3. ASSUME NEW q \in Calls, StepLands(q)
        PROVE  report'[r].failure = report[r].failure /\ left'[r] = left[r]
    <3>1. q # r
      BY <2>0, <2>3 DEF StepLands
    <3>2. left'[r] = left[r]
      BY <2>0, <2>3, <3>1 DEF StepLands, RequestTyped
    <3>3. report'[r] = report[r]
      BY <2>0, <2>3, <3>1 DEF StepLands, Answer, SeekEvents, RepliesTyped
    <3> QED BY <3>2, <3>3
  <2>4. ASSUME NEW q \in Calls, NEW rep, report' = [report EXCEPT ![q] = rep], left' = left,
               rep.failure = report[q].failure \/ report[q].failure = "none"
        PROVE  report'[r].failure = report[r].failure /\ left'[r] = left[r]
    BY <2>0, <2>4 DEF RepliesTyped
  <2>5. ASSUME NEW q \in Calls, Handles(q), ~StepLands(q)
        PROVE  /\ left' = left
               /\ \/ report' = report
                  \/ \E rep : /\ report' = [report EXCEPT ![q] = rep]
                              /\ rep.failure = report[q].failure \/ report[q].failure = "none"
    <3>1. CASE WakeLands(q)
      BY <3>1, FailuresStay DEF WakeLands, Answer
    <3>2. CASE \/ DoctorLands(q) \/ EvalLands(q) \/ RecordLands(q) \/ VerifyLands(q)
               \/ RunsLands(q)
      <4>1. \E p, S : Ends(q, p, S)
        BY <3>2 DEF DoctorLands, EvalLands, RecordLands, VerifyLands, RunsLands
      <4> QED BY <4>1, FailuresStay DEF Ends, Answer
    <3>3. CASE OpenLands(q)
      BY <3>3, FailuresStay DEF OpenLands, Answer
    <3>4. CASE CaptureLands(q)
      BY <3>4, FailuresStay DEF CaptureLands, Answer, SeekEvents
    <3>5. CASE CloseLands(q)
      <4>1. left' = left /\ \E v : report' =
              [report EXCEPT ![q] = IF v = "fail" THEN Failed(report[q], "under_test")
                                    ELSE Absorb(report[q], v)]
        BY <3>5 DEF CloseLands, Answer
      <4> QED BY <4>1, FailuresStay
    <3>6. CASE RunLands(q)
      BY <3>6, FailuresStay DEF RunLands, Answer, SeekEvents
    <3>7. CASE ShowLands(q)
      <4>1. PICK h : \E dirs : SeekEvents(q, id[q], Absorb(report[q], h), dirs)
        BY <3>7 DEF ShowLands
      <4>2. report' = [report EXCEPT ![q] = Absorb(report[q], h)] /\ left' = left
        BY <3>7, <4>1 DEF SeekEvents, ShowLands
      <4> QED BY <4>2, FailuresStay
    <3>8. CASE LocateLands(q) \/ Read(q) \/ Advance(q)
      BY <3>8 DEF LocateLands, Read, Advance, Answer
    <3> QED BY <2>5, <3>1, <3>2, <3>3, <3>4, <3>5, <3>6, <3>7, <3>8 DEF Handles
  <2>6. CASE \E q \in Calls : Handles(q)
    BY <2>3, <2>4, <2>5, <2>6
  <2>7. CASE \E i \in Ids : Emits(i) \/ Expires(i) \/ Vanishes(i)
    BY <2>7 DEF Emits, Expires, Vanishes
  <2>8. CASE UNCHANGED vars
    BY <2>8 DEF vars
  <2> QED BY <1>1, <2>1, <2>2, <2>6, <2>7, <2>8 DEF Next
<1>2. TypeInv /\ FairInv /\ [Next]_vars =>
        [\A r \in Calls : report[r].failure # "none" =>
           report'[r].failure = report[r].failure /\ left'[r] = left[r]]_vars
  BY <1>1 DEF Decided
<1> QED BY <1>2, InitFair, FairNext, TypeInvariant, PTL DEF Spec, FirstTroubleDecides

-----------------------------------------------------------------------------
(* No line is told of twice, as long as reads of a run do not overlap: what  *)
(* has been told of ends at the cursor, where the one call that reads began, *)
(* and logs only grow.  A run that is not there has not been read.           *)

AtWork == {"read", "advance"}

UnreadInv ==
  \A i \in Ids : life[i] = "none" =>
    /\ i \notin run_dirs /\ cursors[i] = 0
    /\ \A r \in Calls : ~Reading(r, i)

TurnOf(i) ==
  /\ again[i] = {} /\ told[i] \subseteq 1 .. cursors[i] /\ cursors[i] <= log[i]
  /\ \A r, q \in Calls : Reading(r, i) /\ Reading(q, i) => r = q
  /\ \A r \in Calls : Reading(r, i) =>
       /\ ~whole[r] => from[r] = cursors[i]
       /\ pc[r] = "advance" => cursors[i] <= upto[r] /\ upto[r] <= log[i]

TurnInv == UnreadInv /\ \A i \in Ids \ muddled : TurnOf(i)

\* What a step leaves of a run's log and directory.
Grows(i) ==
  /\ log'[i] >= log[i] \/ life[i] = "none"
  /\ life'[i] = "none" => life[i] = "none" /\ (i \in run_dirs' => i \in run_dirs)

\* Nobody begins to read or goes on reading.
LEMMA QuietTurn ==
  ASSUME TypeInv, TypeInv', TurnInv, \A i \in Ids : Grows(i),
         UNCHANGED <<cursors, told, again, muddled>>,
         \A r \in Calls : pc'[r] \in AtWork =>
            /\ pc'[r] = pc[r] /\ id'[r] = id[r] /\ whole'[r] = whole[r]
            /\ from'[r] = from[r] /\ upto'[r] = upto[r]
  PROVE  TurnInv'
<1>1. UnreadInv'
  BY DEF TurnInv, UnreadInv, Reading, Grows, AtWork
<1>2. ASSUME NEW i \in Ids \ muddled PROVE TurnOf(i)'
  <2>1. cursors[i] \in Nat /\ log[i] \in Nat /\ log'[i] \in Nat
    BY Groups, GroupsNext, McpOK DEF TypeInv, MemoryTyped, WorldTyped
  <2>2. cursors[i] <= log'[i] /\ (log'[i] >= log[i] \/ \A r \in Calls : ~Reading(r, i))
    BY <2>1 DEF TurnInv, TurnOf, UnreadInv, Grows
  <2>3. \A r \in Calls : upto[r] \in Nat
    BY Groups, McpOK DEF TypeInv, ReadingTyped
  <2> QED BY <2>1, <2>2, <2>3 DEF TurnInv, TurnOf, Reading, AtWork
<1> QED BY <1>1, <1>2 DEF TurnInv

\* Call `r` begins to read of run `i`, which is there.
LEMMA StartTurn ==
  ASSUME TypeInv, TypeInv', TurnInv, \A j \in Ids : Grows(j),
         NEW r \in Calls, NEW i \in Ids, StartReading(r, i), id'[r] = i, life'[i] # "none",
         pc[r] \notin AtWork,
         \A q \in Calls \ {r} : id'[q] = id[q],
         UNCHANGED <<cursors, told, again, whole, upto>>
  PROVE  TurnInv'
<1>0. RepliesTyped /\ ReadingTyped
  BY Groups DEF TypeInv
<1>1. /\ pc'[r] = "read" /\ from'[r] = (IF whole[r] THEN 0 ELSE cursors[i])
      /\ \A q \in Calls \ {r} : pc'[q] = pc[q] /\ from'[q] = from[q]
      /\ muddled' = IF \E q \in Calls \ {r} : Reading(q, i) THEN muddled \cup {i} ELSE muddled
  BY <1>0 DEF StartReading, RepliesTyped, ReadingTyped
<1>2. \A q \in Calls, j \in Ids : Reading(q, j)' <=> IF q = r THEN j = i ELSE Reading(q, j)
  BY <1>1 DEF Reading
<1>3. UnreadInv'
  BY <1>2 DEF TurnInv, UnreadInv, Grows
<1>4. ASSUME NEW j \in Ids \ muddled' PROVE TurnOf(j)'
  <2>1. cursors[j] \in Nat /\ log[j] \in Nat /\ log'[j] \in Nat /\ \A q \in Calls : upto[q] \in Nat
    BY Groups, GroupsNext, McpOK DEF TypeInv, MemoryTyped, WorldTyped, ReadingTyped
  <2>2. j \notin muddled /\ TurnOf(j) /\ (j = i => \A q \in Calls \ {r} : ~Reading(q, i))
    BY <1>1 DEF TurnInv
  <2>3. cursors[j] <= log'[j] /\ (log'[j] >= log[j] \/ \A q \in Calls : ~Reading(q, j))
    BY <2>1, <2>2 DEF TurnOf, TurnInv, UnreadInv, Grows
  <2>4. \A p, q \in Calls : Reading(p, j)' /\ Reading(q, j)' => p = q
    BY <1>2, <2>2 DEF TurnOf
  <2>5. \A q \in Calls : Reading(q, j)' =>
          /\ ~whole[q] => from'[q] = cursors[j]
          /\ pc'[q] = "advance" => cursors[j] <= upto[q] /\ upto[q] <= log'[j]
    <3> SUFFICES ASSUME NEW q \in Calls, Reading(q, j)'
                 PROVE  /\ ~whole[q] => from'[q] = cursors[j]
                        /\ pc'[q] = "advance" => cursors[j] <= upto[q] /\ upto[q] <= log'[j]
      OBVIOUS
    <3>1. CASE q = r
      BY <1>1, <1>2, <3>1
    <3>2. CASE q # r
      BY <1>1, <1>2, <2>1, <2>2, <2>3, <3>2 DEF TurnOf
    <3> QED BY <3>1, <3>2
  <2> QED BY <2>2, <2>3, <2>4, <2>5 DEF TurnOf
<1> QED BY <1>3, <1>4 DEF TurnInv

LEMMA SeekTurn ==
  ASSUME TypeInv, TypeInv', TurnInv, \A j \in Ids : Grows(j),
         NEW r \in Calls, NEW i \in Ids, NEW rep, NEW dirs, SeekEvents(r, i, rep, dirs),
         id'[r] = i, i \in dirs => life'[i] # "none", pc[r] \notin AtWork,
         \A q \in Calls \ {r} : id'[q] = id[q], whole' = whole
  PROVE  TurnInv'
<1>1. CASE i \in dirs
  BY <1>1, StartTurn DEF SeekEvents
<1>2. CASE i \notin dirs
  <2>1. pc' = [pc EXCEPT ![r] = "locate"] /\ UNCHANGED <<from, upto, muddled, cursors, told, again>>
    BY <1>2 DEF SeekEvents
  <2>2. \A q \in Calls : pc'[q] \in AtWork => q # r /\ pc'[q] = pc[q]
    BY <2>1, Groups DEF TypeInv, RepliesTyped, AtWork
  <2> QED BY <2>1, <2>2, QuietTurn
<1> QED BY <1>1, <1>2

LEMMA ReadTurn ==
  ASSUME TypeInv, TypeInv', TurnInv, NEW r \in Calls, Read(r)
  PROVE  TurnInv'
<1>0. RepliesTyped /\ ReadingTyped
  BY Groups DEF TypeInv
<1>1. /\ pc[r] = "read" /\ pc'[r] = "advance"
      /\ \A q \in Calls \ {r} : pc'[q] = pc[q] /\ upto'[q] = upto[q]
      /\ UNCHANGED <<life, log, run_dirs, cursors, whole, id, from, told, again>>
      /\ \/ upto'[r] = log[id[r]] /\ muddled' = muddled
         \/ muddled' = muddled \cup {id[r]}
  BY <1>0 DEF Read, RepliesTyped, ReadingTyped, world, memory, request
<1>2. \A q \in Calls, j \in Ids : Reading(q, j)' <=> Reading(q, j)
  BY <1>1 DEF Reading
<1>3. UnreadInv'
  BY <1>1, <1>2 DEF TurnInv, UnreadInv
<1>4. ASSUME NEW j \in Ids \ muddled' PROVE TurnOf(j)'
  <2>1. cursors[j] \in Nat /\ log[j] \in Nat
    BY Groups, McpOK DEF TypeInv, MemoryTyped, WorldTyped
  <2>2. TurnOf(j)
    BY <1>1 DEF TurnInv
  <2>3. ASSUME NEW q \in Calls, Reading(q, j)
        PROVE  /\ ~whole[q] => from[q] = cursors[j]
               /\ pc'[q] = "advance" => cursors[j] <= upto'[q] /\ upto'[q] <= log[j]
    BY <1>1, <2>1, <2>2, <2>3 DEF TurnOf, Reading
  <2> QED BY <1>1, <1>2, <2>2, <2>3 DEF TurnOf
<1> QED BY <1>3, <1>4 DEF TurnInv

LEMMA AdvanceTurn ==
  ASSUME TypeInv, TypeInv', TurnInv, NEW r \in Calls, Advance(r)
  PROVE  TurnInv'
<1>0. RepliesTyped /\ ReadingTyped /\ MemoryTyped /\ TaleTyped
  BY Groups DEF TypeInv
<1>1. PICK i \in Ids : i = id[r]
  BY DEF TypeInv, Started, NeedsRun, Advance
<1>2. /\ Reading(r, i) /\ pc[r] = "advance" /\ pc'[r] = "done"
      /\ \A q \in Calls \ {r} : pc'[q] = pc[q] /\ from'[q] = from[q] /\ upto'[q] = upto[q]
      /\ UNCHANGED <<life, log, run_dirs, whole, id, muddled>>
      /\ cursors' = [cursors EXCEPT ![i] = upto[r]]
      /\ told' = [told EXCEPT ![i] = @ \cup Told(r)]
      /\ again' = [again EXCEPT ![i] = IF whole[r] THEN @ ELSE @ \cup (told[i] \cap Told(r))]
  BY <1>0, <1>1 DEF Advance, Answer, Reading, RepliesTyped, ReadingTyped, CursorAfter, world, request
<1>3. \A q \in Calls, j \in Ids : Reading(q, j)' <=> q # r /\ Reading(q, j)
  BY <1>2 DEF Reading
<1>4. UnreadInv'
  BY <1>0, <1>2, <1>3 DEF TurnInv, UnreadInv, MemoryTyped
<1>5. ASSUME NEW j \in Ids \ muddled, j # i PROVE TurnOf(j)'
  <2>1. cursors'[j] = cursors[j] /\ told'[j] = told[j] /\ again'[j] = again[j]
    BY <1>0, <1>2, <1>5 DEF MemoryTyped, TaleTyped
  <2> QED BY <1>2, <1>3, <1>5, <2>1 DEF TurnInv, TurnOf
<1>6. ASSUME i \notin muddled PROVE TurnOf(i)'
  <2>1. /\ cursors[i] \in Nat /\ upto[r] \in Nat /\ log[i] \in Nat /\ from[r] \in Nat
    BY Groups, McpOK DEF TypeInv, MemoryTyped, WorldTyped, ReadingTyped
  <2>2. /\ again[i] = {} /\ told[i] \subseteq 1 .. cursors[i]
        /\ cursors[i] <= upto[r] /\ upto[r] <= log[i] /\ (~whole[r] => from[r] = cursors[i])
        /\ \A q \in Calls \ {r} : ~Reading(q, i)
    BY <1>2, <1>6 DEF TurnInv, TurnOf
  <2>3. cursors'[i] = upto[r] /\ told'[i] = told[i] \cup Told(r)
        /\ again'[i] = IF whole[r] THEN again[i] ELSE again[i] \cup (told[i] \cap Told(r))
    BY <1>0, <1>2 DEF MemoryTyped, TaleTyped
  <2>4. told'[i] \subseteq 1 .. cursors'[i]
    BY <2>1, <2>2, <2>3 DEF Told, New
  <2>5. again'[i] = {}
    <3>1. CASE whole[r]
      BY <2>2, <2>3, <3>1
    <3>2. CASE ~whole[r]
      <4>1. told[i] \cap Told(r) = {}
        BY <2>1, <2>2, <3>2 DEF Told, New
      <4> QED BY <2>2, <2>3, <3>2, <4>1
    <3> QED BY <3>1, <3>2
  <2>6. \A q \in Calls : ~Reading(q, i)'
    BY <1>3, <2>2
  <2> QED BY <1>2, <2>2, <2>3, <2>4, <2>5, <2>6 DEF TurnOf
<1> QED BY <1>2, <1>4, <1>5, <1>6 DEF TurnInv

\* What a call does with its answer, or on its way to another process, is quiet.
LEMMA MovesTurn ==
  ASSUME TypeInv, TypeInv', TurnInv, \A i \in Ids : Grows(i),
         NEW r \in Calls, NEW to \in (Waiting \ AtWork) \cup {"done"},
         pc' = [pc EXCEPT ![r] = to],
         \A q \in Calls \ {r} : id'[q] = id[q] /\ whole'[q] = whole[q],
         UNCHANGED <<cursors, reading, tale>>
  PROVE  TurnInv'
<1>1. \A q \in Calls : pc'[q] \in AtWork => q # r /\ pc'[q] = pc[q]
  BY Groups DEF TypeInv, RepliesTyped, AtWork
<1> QED BY <1>1, QuietTurn DEF reading, tale

\* Nothing grows where nothing is touched, and what a step opens or closes was there or is.
LEMMA StillGrows ==
  ASSUME TypeInv, TypeInv', log' = log, \A i \in Ids : life'[i] = "none" => life[i] = "none",
         \A i \in Ids : life'[i] = "none" /\ i \in run_dirs' => i \in run_dirs
  PROVE  \A i \in Ids : Grows(i)
<1>1. \A i \in Ids : log[i] \in Nat
  BY Groups, McpOK DEF TypeInv, WorldTyped
<1> QED BY <1>1 DEF Grows

LEMMA TurnNext ==
  ASSUME TypeInv, TypeInv', TurnInv, [Next]_vars
  PROVE  TurnInv'
<1>0. /\ WorldTyped /\ RequestTyped /\ RepliesTyped /\ run_dirs \subseteq Ids
      /\ \A i \in Ids : life[i] = "none" => i \notin run_dirs
  BY Groups DEF TypeInv, MemoryTyped, TurnInv, UnreadInv
<1>1. ASSUME NEW r \in Calls, Ask(r) PROVE TurnInv'
  <2>1. PICK t \in Tools, i \in Ids :
          /\ whole' = [whole EXCEPT ![r] = t \in {"run", "show"}]
          /\ id' = [id EXCEPT ![r] = IF t \in AboutARun THEN i ELSE NoId]
          /\ pc' = [pc EXCEPT ![r] = FirstOf(t)]
    BY <1>1 DEF Ask
  <2>2. FirstOf(t) \in Waiting \ AtWork
    BY McpOK DEF AllTools, FirstOf, Waiting, Processes, AtWork
  <2>3. \A q \in Calls \ {r} : id'[q] = id[q] /\ whole'[q] = whole[q]
    BY <1>0, <2>1 DEF RequestTyped
  <2>4. \A j \in Ids : Grows(j)
    BY <1>1, StillGrows DEF Ask, world, memory
  <2> QED BY <1>1, <2>1, <2>2, <2>3, <2>4, MovesTurn DEF Ask, memory
<1>2. ASSUME NEW r \in Calls,
             UNCHANGED <<world, memory, request, reading, tale>>,
             \E to \in (Waiting \ AtWork) \cup {"done"} : pc' = [pc EXCEPT ![r] = to]
      PROVE  TurnInv'
  <2>1. \A j \in Ids : Grows(j)
    BY <1>2, StillGrows DEF world, memory
  <2> QED BY <1>2, <2>1, MovesTurn DEF memory, request
<1>3. ASSUME NEW r \in Calls, AskBadly(r) PROVE TurnInv'
  BY <1>2, <1>3 DEF AskBadly, Answer
<1>4. ASSUME NEW r \in Calls, WakeLands(r) PROVE TurnInv'
  BY <1>2, <1>4 DEF WakeLands, Answer, Waiting, Processes, AtWork
<1>5. ASSUME NEW r \in Calls, NEW p, NEW S, Ends(r, p, S) PROVE TurnInv'
  BY <1>2, <1>5 DEF Ends, Answer
<1>6. ASSUME NEW r \in Calls, OpenLands(r) PROVE TurnInv'
  <2>1. PICK to \in {"done", "capture"} : pc' = [pc EXCEPT ![r] = to]
    BY <1>6 DEF OpenLands, Answer
  <2>2. \A q \in Calls \ {r} : id'[q] = id[q] /\ whole'[q] = whole[q]
    BY <1>0, <1>6 DEF OpenLands, RequestTyped
  <2>3. \A j \in Ids : life'[j] = "none" => life[j] = "none" /\ (j \in run_dirs' => j \in run_dirs)
    BY <1>0, <1>6 DEF OpenLands, WorldTyped
  <2>4. \A j \in Ids : Grows(j)
    BY <1>6, <2>3, StillGrows DEF OpenLands
  <2> QED BY <1>6, <2>1, <2>2, <2>4, MovesTurn DEF OpenLands, Waiting, Processes, AtWork
<1>7. ASSUME NEW r \in Calls, NEW rep, SeekEvents(r, id[r], rep, run_dirs),
             UNCHANGED <<world, request>>, pc[r] \in NeedsRun \ AtWork
      PROVE  TurnInv'
  <2>1. id[r] \in Ids /\ run_dirs' = run_dirs
    BY <1>7 DEF TypeInv, Started, SeekEvents
  <2>2. \A j \in Ids : Grows(j)
    BY <1>7, <2>1, StillGrows DEF world
  <2> QED BY <1>0, <1>7, <2>1, <2>2, SeekTurn DEF world, request
<1>8. ASSUME NEW r \in Calls, StepLands(r) PROVE TurnInv'
  <2>1. CASE UNCHANGED <<memory, pc, report, reading, answer, tale>>
    <3>1. \A j \in Ids : Grows(j)
      BY <1>8, <2>1, StillGrows DEF StepLands, memory
    <3> QED BY <1>8, <2>1, <3>1, QuietTurn DEF StepLands, memory, reading, tale, request
  <2>2. CASE SeekEvents(r, id[r], report[r], run_dirs)
    <3>1. id[r] \in Ids /\ run_dirs' = run_dirs
      BY <1>8, <2>2 DEF TypeInv, Started, SeekEvents, StepLands, NeedsRun
    <3>2. \A j \in Ids : Grows(j)
      BY <1>8, <3>1, StillGrows DEF StepLands
    <3> QED BY <1>0, <1>8, <2>2, <3>1, <3>2, SeekTurn DEF StepLands, request, AtWork
  <2>3. CASE /\ \E to \in {"done", "capture"} : pc' = [pc EXCEPT ![r] = to]
             /\ UNCHANGED <<memory, reading, tale>>
    <3>1. \A j \in Ids : Grows(j)
      BY <1>8, <2>3, StillGrows DEF StepLands, memory
    <3> QED BY <1>8, <2>3, <3>1, MovesTurn
            DEF StepLands, memory, request, Waiting, Processes, AtWork
  <2> QED BY <1>8, <2>1, <2>2, <2>3 DEF StepLands, Answer
<1>9. ASSUME NEW r \in Calls, CaptureLands(r) PROVE TurnInv'
  <2>1. CASE \E rep : SeekEvents(r, id[r], rep, run_dirs)
    BY <1>7, <1>9, <2>1 DEF CaptureLands, NeedsRun, AtWork
  <2>2. CASE /\ pc' = [pc EXCEPT ![r] = "done"]
             /\ UNCHANGED <<memory, reading, tale>>
    BY <1>2, <1>9, <2>2 DEF CaptureLands
  <2> QED BY <1>9, <2>1, <2>2 DEF CaptureLands, Answer
<1>10. ASSUME NEW r \in Calls, CloseLands(r) PROVE TurnInv'
  <2>1. /\ pc' = [pc EXCEPT ![r] = "done"]
        /\ UNCHANGED <<log, memory, request, reading, tale>>
    BY <1>10 DEF CloseLands, Answer
  <2>2. \A j \in Ids : life'[j] = "none" => life[j] = "none"
    <3>1. PICK after : /\ life' = [life EXCEPT ![id[r]] = after]
                       /\ after = "none" => life[id[r]] = "none"
      BY <1>10 DEF CloseLands, Closable
    <3> QED BY <1>0, <3>1 DEF WorldTyped
  <2>3. \A j \in Ids : Grows(j)
    BY <2>1, <2>2, StillGrows DEF memory
  <2> QED BY <2>1, <2>3, MovesTurn DEF memory, request
<1>11. ASSUME NEW r \in Calls, RunLands(r) PROVE TurnInv'
  <2>1. CASE \E i \in Ids, n \in 0 .. MaxLines : \E rep :
               /\ life[i] = "none"
               /\ life' = [life EXCEPT ![i] = "closed"]
               /\ log' = [log EXCEPT ![i] = n]
               /\ id' = [id EXCEPT ![r] = i]
               /\ SeekEvents(r, i, rep, run_dirs \cup {i})
    <3>1. PICK i \in Ids, n \in 0 .. MaxLines : \E rep :
               /\ life[i] = "none"
               /\ life' = [life EXCEPT ![i] = "closed"]
               /\ log' = [log EXCEPT ![i] = n]
               /\ id' = [id EXCEPT ![r] = i]
               /\ SeekEvents(r, i, rep, run_dirs \cup {i})
      BY <2>1
    <3>2. run_dirs' = run_dirs \cup {i}
      BY <3>1 DEF SeekEvents
    <3>3. \A j \in Ids : Grows(j)
      <4>1. \A j \in Ids : log[j] \in Nat
        BY <1>0, McpOK DEF WorldTyped
      <4>2. life'[i] = "closed" /\ \A j \in Ids \ {i} : life'[j] = life[j] /\ log'[j] = log[j]
        BY <1>0, <3>1 DEF WorldTyped
      <4> QED BY <3>1, <3>2, <4>1, <4>2 DEF Grows
    <3>4. /\ id'[r] = i /\ life'[i] # "none" /\ whole' = whole /\ pc[r] \notin AtWork
          /\ \A q \in Calls \ {r} : id'[q] = id[q]
      BY <1>0, <1>11, <3>1 DEF RequestTyped, WorldTyped, RunLands, AtWork
    <3> QED BY <3>1, <3>3, <3>4, SeekTurn
  <2>2. CASE /\ pc' = [pc EXCEPT ![r] = "done"]
             /\ UNCHANGED <<life, log, id, memory, reading, tale>>
    BY <1>2, <1>11, <2>2 DEF RunLands, world, request
  <2> QED BY <1>11, <2>1, <2>2 DEF RunLands, Answer
<1>12. ASSUME NEW r \in Calls, NEW h \in OnRun(id[r], {"pass"}), h = "pass"
       PROVE  life[id[r]] # "none"
  BY <1>12, McpOK DEF OnRun, Mishaps
<1>13. ASSUME NEW r \in Calls, ShowLands(r) PROVE TurnInv'
  <2>1. PICK h \in OnRun(id[r], {"pass"}) : \E rep :
          SeekEvents(r, id[r], rep, IF h = "pass" THEN run_dirs \cup {id[r]} ELSE run_dirs)
    BY <1>13 DEF ShowLands
  <2>2. CASE h # "pass"
    BY <1>7, <1>13, <2>1, <2>2 DEF ShowLands, NeedsRun, AtWork
  <2>3. CASE h = "pass"
    <3>1. id[r] \in Ids /\ life[id[r]] # "none" /\ run_dirs' = run_dirs \cup {id[r]}
      BY <1>12, <1>13, <2>1, <2>3 DEF TypeInv, Started, SeekEvents, ShowLands, NeedsRun
    <3>2. \A j \in Ids : Grows(j)
      BY <1>13, <3>1, StillGrows DEF ShowLands, world
    <3> QED BY <1>13, <2>1, <2>3, <3>1, <3>2, SeekTurn DEF ShowLands, world, request, AtWork
  <2> QED BY <2>2, <2>3
<1>14. ASSUME NEW r \in Calls, LocateLands(r) PROVE TurnInv'
  <2>1. PICK h \in OnRun(id[r], {"pass"}) :
          \/ h = "pass" /\ run_dirs' = run_dirs \cup {id[r]} /\ StartReading(r, id[r])
          \/ Answer(r, report[r]) /\ UNCHANGED <<run_dirs, from, muddled>>
    BY <1>14 DEF LocateLands
  <2>2. CASE h = "pass" /\ run_dirs' = run_dirs \cup {id[r]} /\ StartReading(r, id[r])
    <3>1. id[r] \in Ids /\ life[id[r]] # "none"
      BY <1>12, <1>14, <2>2 DEF TypeInv, Started, LocateLands, NeedsRun
    <3>2. \A j \in Ids : Grows(j)
      BY <1>14, <2>2, <3>1, StillGrows DEF LocateLands, world
    <3> QED BY <1>14, <2>2, <3>1, <3>2, StartTurn DEF LocateLands, world, request, AtWork
  <2>3. CASE Answer(r, report[r]) /\ UNCHANGED <<run_dirs, from, muddled>>
    BY <1>2, <1>14, <2>3 DEF LocateLands, Answer, memory, reading, tale
  <2> QED BY <2>1, <2>2, <2>3
<1>15. ASSUME NEW i \in Ids, Emits(i) \/ Expires(i) \/ Vanishes(i) PROVE TurnInv'
  <2>1. \A j \in Ids : log'[j] >= log[j] /\ (life'[j] = "none" => life[j] = "none")
    <3>1. \A j \in Ids : log[j] \in Nat
      BY <1>0, McpOK DEF WorldTyped
    <3> QED BY <1>0, <1>15, <3>1 DEF Emits, Expires, Vanishes, WorldTyped
  <2>2. \A j \in Ids : Grows(j)
    BY <1>15, <2>1 DEF Grows, Emits, Expires, Vanishes, memory
  <2> QED BY <1>15, <2>2, QuietTurn DEF Emits, Expires, Vanishes, memory, reading, tale, request
<1>16. CASE UNCHANGED vars
  <2>1. \A j \in Ids : Grows(j)
    BY <1>16, StillGrows DEF vars, world, memory
  <2> QED BY <1>16, <2>1, QuietTurn DEF vars, memory, reading, tale, request
<1> QED
  BY <1>1, <1>3, <1>4, <1>5, <1>6, <1>8, <1>9, <1>10, <1>11, <1>13, <1>14, <1>15, <1>16,
     ReadTurn, AdvanceTurn
     DEF Next, Handles, DoctorLands, EvalLands, RecordLands, VerifyLands, RunsLands

\* As long as the reads of a run neither overlap nor fail, no line is told of twice to
\* a caller who did not ask for all of them, whichever calls and new lines come between
\* a read and its advance (McpServer.ToldOnceInTurn).
THEOREM LinesAreToldOnce == Spec => []ToldOnceInTurn
<1>1. Init => TurnInv
  <2> SUFFICES ASSUME Init PROVE TurnInv
    OBVIOUS
  <2>1. \A i \in Ids : cursors[i] = 0 /\ log[i] = 0 /\ told[i] = {} /\ again[i] = {}
    BY DEF Init
  <2>2. run_dirs = {} /\ \A r \in Calls, i \in Ids : ~Reading(r, i)
    BY DEF Init, Reading
  <2> QED BY <2>1, <2>2 DEF TurnInv, UnreadInv, TurnOf
<1>2. TypeInv /\ TypeInv' /\ TurnInv /\ [Next]_vars => TurnInv'
  BY TurnNext
<1>3. TurnInv => ToldOnceInTurn
  BY DEF TurnInv, TurnOf, ToldOnceInTurn
<1> QED BY <1>1, <1>2, <1>3, TypeInvariant, PTL DEF Spec
==============================================================================
