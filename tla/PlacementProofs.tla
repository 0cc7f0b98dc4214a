--------------------------- MODULE PlacementProofs ---------------------------
(***************************************************************************)
(* Theorems about Placement, for every number of processes, placements,    *)
(* edits and losses, trees of any size, and any requests and layouts.      *)
(***************************************************************************)
EXTENDS Placement, TLAPS

\* A tree, or an artifact, or what is left of one that is not there.
Lines == [Files -> Vers \cup {"none"}]

LEMMA Artifacts ==
  /\ Maybe \subseteq Lines /\ None \in Maybe /\ Tree \subseteq Maybe
  /\ \A t \in Lines : (\A f \in Files : t[f] \in Vers) => t \in Tree
  /\ \A t \in Maybe : t # None => t \in Tree
BY DEF Maybe, Lines, None, Tree

LEMMA Constants ==
  /\ AnyRequest \in Request /\ Requests \subseteq Request /\ Layouts \subseteq Layout
  /\ MaxPlacements \in Nat /\ MaxEdits \in Nat /\ MaxLosses \in Nat
BY PlacementOK DEF AnyRequest

-----------------------------------------------------------------------------
(* Types.  What is built is a whole tree: a process has synced every file   *)
(* before, and no file of the staging directory goes away.                  *)

LabTyped ==
  /\ trees \in [Sources -> Tree] /\ layout \in Layout
  /\ staging \in Lines
  /\ out \in [{"staging", "checkout"} -> Maybe]

TargetTyped == remote \in Maybe /\ stores \in [{"lab", "target"} -> SUBSET Tree]

Records == Record \cup {NoRecord}

FilesTyped ==
  /\ cache \in File /\ tmp \in File
  /\ handle \in [Procs -> {"none", "tmp", "cache", "gone"}]

Counters ==
  {"idle", "load", "wake", "check", "stage", "sync", "build", "hash", "ship", "create",
   "write", "rename"}

LocalTyped ==
  /\ req \in [Procs -> Request]
  /\ source \in [Procs -> Maybe] /\ loaded \in [Procs -> Records]
  /\ synced \in [Procs -> SUBSET Files]
  /\ built \in [Procs -> Maybe] /\ hash \in [Procs -> Maybe]

CountersTyped == pc \in [Procs -> Counters]

AnswerTyped ==
  answer \in [given : BOOLEAN, cached : BOOLEAN, source : Maybe, rec : Records, content : Maybe]

BoundsTyped == begun \in 0 .. MaxPlacements /\ edits \in 0 .. MaxEdits /\ losses \in 0 .. MaxLosses

TruthTyped == placed \subseteq Record /\ disturbed \in BOOLEAN

\* What process `p` has in hand.
Late == {"ship", "create", "write", "rename"}

Steady ==
  \A p \in Procs :
    /\ pc[p] # "idle" => source[p] \in Tree
    /\ pc[p] \in Late => hash[p] \in Tree
    /\ pc[p] = "build" /\ req[p].source = "host" => synced[p] = Files
    /\ \A f \in synced[p] : staging[f] \in Vers

TypeInv ==
  /\ LabTyped /\ TargetTyped /\ FilesTyped /\ LocalTyped /\ CountersTyped /\ AnswerTyped
  /\ BoundsTyped /\ TruthTyped /\ Steady

LEMMA TypeInvOK == TypeInv => TypeOK
BY Artifacts DEF TypeInv, TypeOK, LabTyped, TargetTyped, FilesTyped, LocalTyped, CountersTyped,
   AnswerTyped, BoundsTyped, TruthTyped, Lines, Records, Counters

\* What is left alone keeps its type.
LEMMA Frames ==
  ASSUME TypeInv
  PROVE  /\ UNCHANGED lab => LabTyped'
         /\ UNCHANGED target => TargetTyped'
         /\ UNCHANGED <<cache, tmp, handle>> => FilesTyped'
         /\ UNCHANGED local => LocalTyped'
         /\ UNCHANGED answer => AnswerTyped'
         /\ UNCHANGED bounds => BoundsTyped'
         /\ UNCHANGED truth => TruthTyped'
<1>1. UNCHANGED lab => LabTyped'
  BY DEF TypeInv, lab, LabTyped
<1>2. UNCHANGED target => TargetTyped'
  BY DEF TypeInv, target, TargetTyped
<1>3. UNCHANGED <<cache, tmp, handle>> => FilesTyped'
  BY DEF TypeInv, FilesTyped
<1>4. UNCHANGED local => LocalTyped'
  BY DEF TypeInv, local, LocalTyped
<1>5. UNCHANGED answer => AnswerTyped'
  BY DEF TypeInv, AnswerTyped
<1>6. UNCHANGED bounds => BoundsTyped'
  BY DEF TypeInv, bounds, BoundsTyped
<1>7. UNCHANGED truth => TruthTyped'
  BY DEF TypeInv, truth, TruthTyped
<1> QED BY <1>1, <1>2, <1>3, <1>4, <1>5, <1>6, <1>7

LEMMA NoRecordTyped ==
  NoRecord \in Records /\ NoRecord.path \in Path /\ NoFile \in File /\ Torn \in File
BY Artifacts DEF Records, NoRecord, Path, Places, NoFile, Torn, File, Maybe

LEMMA NoAnswerTyped == answer' = NoAnswer => AnswerTyped'
BY NoRecordTyped, Artifacts DEF AnswerTyped, NoAnswer

\* A process that goes from one place to another keeps what it has in hand.
LEMMA GoesSteady ==
  ASSUME TypeInv, NEW p \in Procs, NEW to \in Counters, Goes(p, to), UNCHANGED <<local, staging>>,
         to # "idle" => pc[p] # "idle",
         to \in Late => pc[p] \in Late,
         to = "build" => req[p].source # "host" \/ synced[p] = Files
  PROVE  Steady' /\ CountersTyped'
<1>1. CountersTyped'
  BY DEF TypeInv, CountersTyped, Goes
<1>2. Steady'
  BY DEF TypeInv, CountersTyped, Steady, Goes, local
<1> QED BY <1>1, <1>2

LEMMA ForgetsTyped ==
  ASSUME TypeInv, NEW p \in Procs, Forgets(p), Goes(p, "idle"), UNCHANGED staging
  PROVE  LocalTyped' /\ Steady' /\ CountersTyped'
<1>1. LocalTyped'
  BY Constants, Artifacts, NoRecordTyped DEF TypeInv, LocalTyped, Forgets
<1>2. CountersTyped'
  BY DEF TypeInv, CountersTyped, Goes, Counters
<1>3. Steady'
  BY DEF TypeInv, CountersTyped, LocalTyped, Steady, Forgets, Goes, Late
<1> QED BY <1>1, <1>2, <1>3

\* What lies at a path is an artifact.
LEMMA ContentTyped ==
  ASSUME TypeInv, NEW pa \in Path, NEW same \in BOOLEAN
  PROVE  Content(pa, same) \in Maybe
BY Artifacts DEF TypeInv, LabTyped, TargetTyped, Path, Places, Content, TargetOf

\* What a process builds from is a whole tree.
LEMMA WholeTree ==
  ASSUME TypeInv, NEW p \in Procs, pc[p] = "build"
  PROVE  TreeIn(p) \in Tree
BY Artifacts DEF TypeInv, LabTyped, LocalTyped, Steady, TreeIn, Sources, Request

LEMMA ArtifactTyped ==
  ASSUME TypeInv, NEW p \in Procs
  PROVE  /\ Artifact(p) \in Maybe /\ (Readable(p) => Artifact(p) \in Tree)
         /\ Readable(p) /\ ~req[p].native => built[p] \in Tree
         /\ Directory(p) \in {"staging", "checkout"}
BY Artifacts DEF TypeInv, LabTyped, TargetTyped, LocalTyped, Artifact, Readable, Directory

LEMMA ShippedTyped ==
  ASSUME TypeInv, NEW p \in Procs
  PROVE  ShippedPath(p) \in Path
BY Artifacts, ArtifactTyped DEF TypeInv, LocalTyped, ShippedPath, Path, Places, Directory

LEMMA NewRecordTyped ==
  ASSUME TypeInv, NEW p \in Procs, pc[p] \in Late
  PROVE  NewRecord(p) \in Record
BY ShippedTyped DEF TypeInv, LocalTyped, Steady, NewRecord, Record, Late, Request

LEMMA AnswersTyped ==
  ASSUME TypeInv, NEW p \in Procs, NEW rec \in Records, NEW cached \in BOOLEAN,
         Answers(p, rec, cached), UNCHANGED staging
  PROVE  AnswerTyped' /\ LocalTyped' /\ Steady' /\ CountersTyped'
<1>1. LocalTyped' /\ Steady' /\ CountersTyped'
  BY ForgetsTyped DEF Answers
<1>2. rec.path \in Path /\ source[p] \in Maybe /\ req[p].same \in BOOLEAN
  BY NoRecordTyped DEF TypeInv, LocalTyped, Request, Records, Record
<1>3. Content(rec.path, req[p].same) \in Maybe
  BY <1>2, ContentTyped
<1>4. AnswerTyped'
  BY <1>2, <1>3 DEF Answers, AnswerTyped
<1> QED BY <1>1, <1>4

-----------------------------------------------------------------------------
LEMMA InitTyped == Init => TypeInv
<1> SUFFICES ASSUME Init PROVE TypeInv
  OBVIOUS
<1>1. LabTyped
  BY Constants, Artifacts DEF Init, LabTyped, Sources
<1>2. TargetTyped
  BY Artifacts DEF Init, TargetTyped
<1>3. FilesTyped /\ LocalTyped
  BY Constants, Artifacts, NoRecordTyped DEF Init, FilesTyped, LocalTyped
<1>4. CountersTyped /\ TruthTyped /\ Steady
  BY DEF Init, CountersTyped, Counters, TruthTyped, Steady, Late
<1>5. AnswerTyped
  BY NoRecordTyped, Artifacts DEF Init, AnswerTyped, NoAnswer
<1>6. BoundsTyped
  BY Constants DEF Init, BoundsTyped
<1> QED BY <1>1, <1>2, <1>3, <1>4, <1>5, <1>6 DEF TypeInv

LEMMA IdentifyTyped ==
  ASSUME TypeInv, NEW p \in Procs, NEW r \in Requests, Identify(p, r), answer' = NoAnswer
  PROVE  TypeInv'
<1>1. r \in Request /\ trees[r.source] \in Tree
  BY Constants DEF TypeInv, LabTyped, Request
<1>2. LocalTyped' /\ CountersTyped'
  BY <1>1, Artifacts DEF TypeInv, LocalTyped, CountersTyped, Identify, Goes, Counters
<1>3. BoundsTyped'
  BY Constants DEF TypeInv, BoundsTyped, Identify
<1>4. Steady'
  BY <1>1 DEF TypeInv, LocalTyped, CountersTyped, Steady, Identify, Goes, Late, lab
<1> QED BY <1>2, <1>3, <1>4, Frames, NoAnswerTyped DEF TypeInv, Identify, files

LEMMA LoadTyped ==
  ASSUME TypeInv, NEW p \in Procs, Load(p), answer' = NoAnswer
  PROVE  TypeInv'
<1>1. PICK to \in {"wake", "stage", "build"} :
        Goes(p, to) /\ (to = "build" => req[p].source # "host")
  BY DEF Load, AfterLoad
<1>2. cache.rec \in Records
  BY DEF TypeInv, FilesTyped, File, Records
<1>3. LocalTyped'
  BY <1>2 DEF TypeInv, LocalTyped, Load
<1>4. CountersTyped'
  BY <1>1 DEF TypeInv, CountersTyped, Goes, Counters
<1>5. Steady'
  BY <1>1 DEF TypeInv, CountersTyped, Steady, Load, At, Goes, Late, lab
<1> QED BY <1>3, <1>4, <1>5, Frames, NoAnswerTyped DEF TypeInv, Load, files

\* Steps in which a process only goes on.
LEMMA GoingTyped ==
  ASSUME TypeInv, NEW p \in Procs, Wake(p) \/ Miss(p) \/ Stage(p), answer' = NoAnswer
  PROVE  TypeInv'
<1>1. PICK to \in {"check", "stage", "sync", "build"} :
        Goes(p, to) /\ (to = "build" => req[p].source # "host")
  BY DEF Wake, Miss, Stage, AfterLoad
<1>2. pc[p] # "idle" /\ UNCHANGED <<lab, target, files, local, bounds, truth>>
  BY DEF Wake, Miss, Stage, At
<1>3. Steady' /\ CountersTyped'
  BY <1>1, <1>2, GoesSteady DEF lab, Counters, Late
<1> QED BY <1>2, <1>3, Frames, NoAnswerTyped DEF TypeInv, files

LEMMA SyncTyped ==
  ASSUME TypeInv, NEW p \in Procs, Sync(p), answer' = NoAnswer
  PROVE  TypeInv'
<1>1. PICK f \in Files \ synced[p] :
       /\ staging' = [staging EXCEPT ![f] = trees["host"][f]]
       /\ trees' = IF layout \in {"apart", "below"} THEN trees
                   ELSE [trees EXCEPT !["lab"] = [@ EXCEPT ![f] = trees["host"][f]]]
       /\ synced' = [synced EXCEPT ![p] = @ \cup {f}]
       /\ Goes(p, IF Files = synced[p] \cup {f} THEN "build" ELSE "sync")
  BY DEF Sync
<1>2. trees["host"] \in Tree /\ trees["host"][f] \in Vers /\ trees["lab"] \in Tree
  BY DEF TypeInv, LabTyped, Sources, Tree
<1>3. [trees["lab"] EXCEPT ![f] = trees["host"][f]] \in Tree
  BY <1>2 DEF Tree
<1>4. trees' \in [Sources -> Tree]
  BY <1>1, <1>3 DEF TypeInv, LabTyped
<1>5. staging' \in Lines
  BY <1>1, <1>2 DEF TypeInv, LabTyped, Lines
<1>6. LabTyped'
  BY <1>4, <1>5 DEF TypeInv, LabTyped, Sync
<1>7. LocalTyped' /\ CountersTyped'
  BY <1>1 DEF TypeInv, LocalTyped, CountersTyped, Sync, Goes, Counters
<1>8. \A q \in Procs : \A g \in synced'[q] : staging'[g] \in Vers
  BY <1>1, <1>2 DEF TypeInv, LabTyped, LocalTyped, Steady, Lines
<1>9. Steady'
  BY <1>1, <1>8 DEF TypeInv, LocalTyped, CountersTyped, Steady, Sync, At, Goes, Late
<1> QED BY <1>6, <1>7, <1>9, Frames, NoAnswerTyped DEF TypeInv, Sync, files

LEMMA BuildTyped ==
  ASSUME TypeInv, NEW p \in Procs, Build(p), answer' = NoAnswer
  PROVE  TypeInv'
<1>1. TreeIn(p) \in Tree /\ TreeIn(p) \in Maybe
  BY WholeTree, Artifacts DEF Build, At
<1>2. LabTyped'
  BY <1>1, ArtifactTyped DEF TypeInv, LabTyped, Build
<1>3. TargetTyped'
  BY <1>1 DEF TypeInv, TargetTyped, Build
<1>4. LocalTyped' /\ CountersTyped'
  BY <1>1 DEF TypeInv, LocalTyped, CountersTyped, Build, Goes, Counters
<1>5. Steady'
  BY DEF TypeInv, CountersTyped, Steady, Build, At, Goes, Late
<1> QED BY <1>2, <1>3, <1>4, <1>5, Frames, NoAnswerTyped DEF TypeInv, Build, files

LEMMA HashTyped ==
  ASSUME TypeInv, NEW p \in Procs, Hash(p), answer' = NoAnswer
  PROVE  TypeInv'
<1>1. PICK t \in Tree : t = Artifact(p)
  BY ArtifactTyped DEF Hash
<1>2. t \in Maybe
  BY Artifacts
<1>3. /\ hash' = [hash EXCEPT ![p] = t] /\ pc' = [pc EXCEPT ![p] = "ship"] /\ pc[p] = "hash"
      /\ UNCHANGED <<lab, target, files, req, source, loaded, synced, built, bounds, truth>>
  BY <1>1 DEF Hash, Goes, At, AfterHash
<1>4. LocalTyped' /\ CountersTyped'
  BY <1>2, <1>3 DEF TypeInv, LocalTyped, CountersTyped, Counters
<1>5. Steady'
  BY <1>3 DEF TypeInv, LocalTyped, CountersTyped, Steady, Late, lab
<1> QED BY <1>3, <1>4, <1>5, Frames, NoAnswerTyped DEF TypeInv, files

LEMMA ShipTyped ==
  ASSUME TypeInv, NEW p \in Procs, Ship(p), answer' = NoAnswer
  PROVE  TypeInv'
<1>1. TargetTyped'
  BY ArtifactTyped DEF TypeInv, TargetTyped, Ship
<1>2. TruthTyped'
  BY NewRecordTyped DEF TypeInv, TruthTyped, Ship, At, Late
<1>3. UNCHANGED <<lab, local>> /\ pc[p] = "ship" /\ Goes(p, "create")
  BY DEF Ship, local, At
<1>4. Steady' /\ CountersTyped'
  BY <1>3, GoesSteady DEF lab, Counters, Late
<1>5. BoundsTyped' /\ FilesTyped' /\ LocalTyped' /\ LabTyped'
  BY <1>3, Frames DEF Ship, files
<1> QED BY <1>1, <1>2, <1>4, <1>5, NoAnswerTyped DEF TypeInv

LEMMA WrittenTyped ==
  ASSUME TypeInv, NEW p \in Procs, pc[p] \in Late, NEW old, NEW new \in Written(old, p)
  PROVE  new \in File
BY NewRecordTyped, NoRecordTyped DEF Written, File

LEMMA SaveTyped ==
  ASSUME TypeInv, NEW p \in Procs, Create(p) \/ Write(p), answer' = NoAnswer
  PROVE  TypeInv'
<1>1. PICK to \in {"write", "rename"} : Goes(p, to)
  BY DEF Create, Write
<1>2. pc[p] \in Late /\ UNCHANGED <<lab, target, local, bounds, truth>>
  BY DEF Create, Write, At, Late
<1>3. Steady' /\ CountersTyped'
  BY <1>1, <1>2, GoesSteady DEF lab, Counters, Late
<1>4. FilesTyped'
  BY <1>2, WrittenTyped, NoRecordTyped DEF TypeInv, FilesTyped, Create, Write
<1> QED BY <1>2, <1>3, <1>4, Frames, NoAnswerTyped DEF TypeInv

LEMMA BreaksTyped ==
  ASSUME TypeInv, NEW p \in Procs, Breaks(p), answer' = NoAnswer
  PROVE  TypeInv'
<1>1. LocalTyped' /\ Steady' /\ CountersTyped'
  BY ForgetsTyped DEF Breaks
<1>2. FilesTyped'
  BY DEF TypeInv, FilesTyped, Breaks
<1>3. disturbed' \in BOOLEAN
  BY DEF Breaks
<1>4. TruthTyped'
  BY <1>3 DEF TypeInv, TruthTyped, Breaks
<1>5. out' \in [{"staging", "checkout"} -> Maybe]
  <2>1. At(p, "build") => TreeIn(p) \in Tree
    BY WholeTree DEF At
  <2>2. ASSUME NEW o \in Leaves(p) PROVE o \in [{"staging", "checkout"} -> Maybe]
    BY <2>1, Artifacts DEF Leaves, TypeInv, LabTyped
  <2> QED BY <2>2 DEF Breaks
<1>6. LabTyped'
  BY <1>5 DEF TypeInv, LabTyped, Breaks
<1> QED BY <1>1, <1>2, <1>4, <1>6, Frames, NoAnswerTyped DEF TypeInv, Breaks

LEMMA WorksTyped ==
  ASSUME TypeInv, NEW p \in Procs, Works(p), answer' = NoAnswer
  PROVE  TypeInv'
BY IdentifyTyped, LoadTyped, GoingTyped, SyncTyped, BuildTyped, HashTyped, ShipTyped, SaveTyped,
   BreaksTyped DEF Works

LEMMA HitTyped ==
  ASSUME TypeInv, NEW p \in Procs, Hit(p)
  PROVE  TypeInv'
<1>1. loaded[p] \in Records
  BY DEF TypeInv, LocalTyped
<1>2. AnswerTyped' /\ LocalTyped' /\ Steady' /\ CountersTyped'
  BY <1>1, AnswersTyped DEF Hit, lab
<1> QED BY <1>2, Frames DEF TypeInv, Hit, files

LEMMA RenameTyped ==
  ASSUME TypeInv, NEW p \in Procs, Rename(p)
  PROVE  TypeInv'
<1>1. NewRecord(p) \in Records
  BY NewRecordTyped DEF Rename, At, Late, Records
<1>2. AnswerTyped' /\ LocalTyped' /\ Steady' /\ CountersTyped'
  BY <1>1, AnswersTyped DEF Rename, lab
<1>3. FilesTyped'
  BY NoRecordTyped DEF TypeInv, FilesTyped, Rename
<1> QED BY <1>2, <1>3, Frames DEF TypeInv, Rename

LEMMA EditTyped ==
  ASSUME TypeInv, NEW s \in Sources, Edit(s), answer' = NoAnswer
  PROVE  TypeInv'
<1>1. PICK f \in Files, v \in Vers : trees' = [trees EXCEPT ![s] = [@ EXCEPT ![f] = v]]
  BY DEF Edit
<1>2. [trees[s] EXCEPT ![f] = v] \in Tree
  BY DEF TypeInv, LabTyped, Tree
<1>3. LabTyped'
  BY <1>1, <1>2 DEF TypeInv, LabTyped, Edit
<1>4. BoundsTyped'
  BY Constants DEF TypeInv, BoundsTyped, Edit
<1>5. disturbed' \in BOOLEAN
  BY DEF Edit
<1>6. TruthTyped'
  BY <1>5 DEF TypeInv, TruthTyped, Edit
<1>7. Steady' /\ CountersTyped'
  BY DEF TypeInv, Steady, CountersTyped, Edit, local
<1> QED BY <1>3, <1>4, <1>6, <1>7, Frames, NoAnswerTyped DEF TypeInv, Edit, files

LEMMA CollectTyped ==
  ASSUME TypeInv, Collect, answer' = NoAnswer
  PROVE  TypeInv'
<1>1. TargetTyped'
  BY Artifacts DEF TypeInv, TargetTyped, Collect
<1>2. BoundsTyped'
  BY Constants DEF TypeInv, BoundsTyped, Collect
<1>3. Steady' /\ CountersTyped'
  BY DEF TypeInv, Steady, CountersTyped, Collect, local, lab
<1> QED BY <1>1, <1>2, <1>3, Frames, NoAnswerTyped DEF TypeInv, Collect, files

LEMMA StutterTyped ==
  ASSUME TypeInv, UNCHANGED vars
  PROVE  TypeInv'
<1>1. Steady' /\ CountersTyped'
  BY DEF TypeInv, Steady, CountersTyped, vars
<1> QED BY <1>1, Frames DEF TypeInv, vars, lab, target, local, bounds, truth

LEMMA TypeInvariant == Spec => []TypeInv
<1>1. TypeInv /\ [Next]_vars => TypeInv'
  BY WorksTyped, HitTyped, RenameTyped, EditTyped, CollectTyped, StutterTyped DEF Next
<1> QED BY <1>1, InitTyped, PTL DEF Spec

\* The variables keep their types: a record, an artifact and an answer are always of a
\* whole tree, however the placements of overlapping processes interleave.
THEOREM PlacementTyped == Spec => []TypeOK
BY TypeInvariant, TypeInvOK, PTL

-----------------------------------------------------------------------------
(* A record is that of one placement which was shipped.                     *)

Saving == {"create", "write", "rename"}

\* What process `p` records stays the same.
Same(p) ==
  req'[p] = req[p] /\ source'[p] = source[p] /\ built'[p] = built[p] /\ hash'[p] = hash[p]

SavedInv ==
  /\ RecordIsPlaced
  /\ \A p \in Procs : pc[p] \in Saving => NewRecord(p) \in placed

\* What is shipped stays shipped, and a process that was saving still does.
LEMMA KeptSaved ==
  ASSUME SavedInv, placed \subseteq placed', cache' = cache, tmp' = tmp,
         \A p \in Procs : pc'[p] \in Saving => pc[p] \in Saving /\ Same(p)
  PROVE  SavedInv'
<1>1. RecordIsPlaced'
  BY DEF SavedInv, RecordIsPlaced
<1>2. ASSUME NEW p \in Procs, pc'[p] \in Saving PROVE NewRecord(p)' \in placed'
  BY <1>2 DEF SavedInv, Same, NewRecord, ShippedPath, Directory
<1> QED BY <1>1, <1>2 DEF SavedInv

\* A process that leaves, or is not there yet, saves nothing.
LEMMA LeavesSaved ==
  ASSUME TypeInv, NEW p \in Procs, NEW to \in Counters \ Saving, Goes(p, to),
         \A q \in Procs \ {p} : Same(q)
  PROVE  \A q \in Procs : pc'[q] \in Saving => pc[q] \in Saving /\ Same(q)
BY DEF TypeInv, CountersTyped, Goes

LEMMA ForgetsSaved ==
  ASSUME TypeInv, NEW p \in Procs, Forgets(p), Goes(p, "idle")
  PROVE  \A q \in Procs : pc'[q] \in Saving => pc[q] \in Saving /\ Same(q)
<1>1. \A q \in Procs \ {p} : Same(q)
  BY DEF TypeInv, LocalTyped, Forgets, Same
<1> QED BY <1>1, LeavesSaved DEF Counters, Saving

\* What is written to the file is a record of what the process has shipped.
LEMMA WrittenSaved ==
  ASSUME SavedInv, NEW p \in Procs, pc[p] \in Saving, NEW old, NEW new \in Written(old, p),
         new.kind = "whole"
  PROVE  new.rec \in placed
BY DEF SavedInv, Written, Torn

LEMMA WorksSaved ==
  ASSUME TypeInv, SavedInv, NEW p \in Procs, Works(p)
  PROVE  SavedInv'
<1>1. ASSUME NEW r \in Requests, Identify(p, r) PROVE SavedInv'
  <2>1. \A q \in Procs \ {p} : Same(q)
    BY <1>1 DEF TypeInv, LocalTyped, Identify, Same
  <2> QED BY <1>1, <2>1, LeavesSaved, KeptSaved DEF Identify, Counters, Saving, files, truth
<1>2. CASE Load(p) \/ Wake(p) \/ Miss(p) \/ Stage(p) \/ Sync(p) \/ Hash(p)
  <2>1. PICK to \in {"wake", "check", "stage", "sync", "build", "ship"} : Goes(p, to)
    BY <1>2 DEF Load, Wake, Miss, Stage, Sync, Hash, AfterLoad, AfterHash
  <2>2. UNCHANGED <<cache, tmp, placed>> /\ \A q \in Procs \ {p} : Same(q)
    BY <1>2 DEF Load, Wake, Miss, Stage, Sync, Hash, local, files, truth, Same, TypeInv, LocalTyped
  <2> QED BY <2>1, <2>2, LeavesSaved, KeptSaved DEF Counters, Saving
<1>3. CASE Build(p)
  <2>1. \A q \in Procs \ {p} : Same(q)
    BY <1>3 DEF TypeInv, LocalTyped, Build, Same
  <2> QED BY <1>3, <2>1, LeavesSaved, KeptSaved DEF Build, Counters, Saving, files, truth
<1>4. CASE Ship(p)
  <2>1. /\ placed' = placed \cup {NewRecord(p)} /\ Goes(p, "create")
        /\ UNCHANGED <<req, source, built, hash, cache, tmp>>
    BY <1>4 DEF Ship, files
  <2>2. RecordIsPlaced'
    BY <2>1 DEF SavedInv, RecordIsPlaced
  <2>3. ASSUME NEW q \in Procs, pc'[q] \in Saving PROVE NewRecord(q)' \in placed'
    BY <2>1, <2>3 DEF SavedInv, Same, NewRecord, ShippedPath, Directory, Goes, TypeInv, CountersTyped
  <2> QED BY <2>2, <2>3 DEF SavedInv
<1>5. CASE Create(p) \/ Write(p)
  <2>1. pc[p] \in Saving /\ UNCHANGED <<req, source, built, hash, placed>>
    BY <1>5 DEF Create, Write, At, Saving, local, truth
  <2>2. /\ cache' = cache \/ cache' \in Written(cache, p)
        /\ tmp' = tmp \/ tmp' = Torn \/ tmp' \in Written(tmp, p)
    BY <1>5 DEF Create, Write
  <2>3. RecordIsPlaced'
    BY <2>1, <2>2, WrittenSaved DEF SavedInv, RecordIsPlaced, Torn
  <2>4. ASSUME NEW q \in Procs, pc'[q] \in Saving PROVE NewRecord(q)' \in placed'
    <3>1. pc[q] \in Saving
      BY <1>5, <2>1, <2>4 DEF Create, Write, Goes, TypeInv, CountersTyped
    <3> QED BY <2>1, <3>1 DEF SavedInv, Same, NewRecord, ShippedPath, Directory
  <2> QED BY <2>3, <2>4 DEF SavedInv
<1>6. CASE Breaks(p)
  BY <1>6, ForgetsSaved, KeptSaved DEF Breaks
<1> QED BY <1>1, <1>2, <1>3, <1>4, <1>5, <1>6 DEF Works

LEMMA RenameSaved ==
  ASSUME TypeInv, SavedInv, NEW p \in Procs, Rename(p)
  PROVE  SavedInv'
<1>1. cache' = tmp /\ tmp' = NoFile /\ placed' = placed
  BY DEF Rename, truth
<1>2. RecordIsPlaced'
  BY <1>1 DEF SavedInv, RecordIsPlaced, NoFile
<1>3. ASSUME NEW q \in Procs, pc'[q] \in Saving PROVE NewRecord(q)' \in placed'
  <2>1. pc[q] \in Saving /\ Same(q)
    BY <1>3, ForgetsSaved DEF Rename, Answers
  <2> QED BY <1>1, <2>1 DEF SavedInv, Same, NewRecord, ShippedPath, Directory
<1> QED BY <1>2, <1>3 DEF SavedInv

\* A record that can be parsed is that of one placement which was shipped, its tree, hash
\* and path together, whatever fails, is killed or overlaps.
THEOREM RecordsArePlaced == Spec => []RecordIsPlaced
<1>1. Init => SavedInv
  BY DEF Init, SavedInv, RecordIsPlaced, NoFile, Saving
<1>2. TypeInv /\ SavedInv /\ [Next]_vars => SavedInv'
  <2> SUFFICES ASSUME TypeInv, SavedInv, [Next]_vars PROVE SavedInv'
    OBVIOUS
  <2>1. ASSUME NEW p \in Procs, Hit(p) PROVE SavedInv'
    BY <2>1, ForgetsSaved, KeptSaved DEF Hit, Answers, files, truth
  <2>2. ASSUME NEW s \in Sources, Edit(s) PROVE SavedInv'
    BY <2>2, KeptSaved DEF Edit, local, files, Same
  <2>3. CASE Collect
    BY <2>3, KeptSaved DEF Collect, local, files, truth, Same
  <2>4. CASE UNCHANGED vars
    BY <2>4, KeptSaved DEF vars, Same
  <2> QED BY <2>1, <2>2, <2>3, <2>4, WorksSaved, RenameSaved DEF Next
<1>3. SavedInv => RecordIsPlaced
  BY DEF SavedInv
<1> QED BY <1>1, <1>2, <1>3, TypeInvariant, PTL DEF Spec

-----------------------------------------------------------------------------
(* A process syncs only into a staging directory that is not the checkout.  *)

ApartInv == \A p \in Procs : pc[p] = "sync" => layout \in {"apart", "below"}

LEMMA ApartStep ==
  ASSUME TypeInv, ApartInv, [Next]_vars
  PROVE  ApartInv'
<1>0. layout' = layout
  BY DEF Next, Works, Identify, Load, Wake, Hit, Miss, Stage, Sync, Build, Hash, Ship, Create,
         Write, Rename, Breaks, Edit, Collect, lab, vars
<1>1. ASSUME NEW p \in Procs, Sync(p) PROVE ApartInv'
  BY <1>0, <1>1 DEF Sync, At, Goes, ApartInv, TypeInv, CountersTyped
<1>2. ASSUME NEW p \in Procs,
             \/ \E r \in Requests : Identify(p, r)
             \/ Load(p) \/ Wake(p) \/ Miss(p) \/ Stage(p) \/ Build(p) \/ Hash(p) \/ Ship(p)
             \/ Create(p) \/ Write(p) \/ Breaks(p) \/ Hit(p) \/ Rename(p)
      PROVE  \E to \in Counters :
               Goes(p, to) /\ (to = "sync" => layout \in {"apart", "below"})
  <2>1. StagingIsApart /\ layout \in Layout => layout \in {"apart", "below"}
    BY DEF StagingIsApart, NamesApart, ResolveApart, Layout
  <2>2. layout \in Layout
    BY DEF TypeInv, LabTyped
  <2>3. CASE Stage(p)
    BY <2>1, <2>2, <2>3 DEF Stage, Counters
  <2>4. CASE ~Stage(p)
    <3>1. \E to \in Counters \ {"sync"} : Goes(p, to)
      BY <1>2, <2>4 DEF Identify, Load, Wake, Hit, Miss, Build, Hash, Ship, Create, Write, Rename,
                        Breaks, Answers, AfterLoad, AfterHash, Counters
    <3> QED BY <3>1 DEF Counters
  <2> QED BY <2>3, <2>4
<1>3. ASSUME NEW s \in Sources, Edit(s) PROVE ApartInv'
  BY <1>0, <1>3 DEF ApartInv, Edit
<1>4. CASE Collect \/ UNCHANGED vars
  BY <1>0, <1>4 DEF Collect, vars, ApartInv
<1>5. ASSUME NEW p \in Procs, NEW to \in Counters, Goes(p, to),
             to = "sync" => layout \in {"apart", "below"}
      PROVE  ApartInv'
  BY <1>0, <1>5 DEF ApartInv, Goes, TypeInv, CountersTyped
<1> QED BY <1>1, <1>2, <1>3, <1>4, <1>5 DEF Next, Works

-----------------------------------------------------------------------------
(* Answers are genuine.  Processes share what they build from, build into   *)
(* and ship to; what keeps them from each other's artifacts is that those   *)
(* who are at work on a tree that nobody edits build the same one, and that *)
(* a record is replaced by whoever overwrites what it names.  That takes    *)
(* requests which meet in a record, one of them native, to be for the same  *)
(* tree: a placement of the lab's checkout may be handed what a native      *)
(* build of the host's tree has left at the path they share.                *)

OneTree == \A a, b \in Requests : a.native /\ a.same = b.same => a.source = b.source

Building == {"hash", "ship", "create", "write", "rename"}

\* Where a native build of a request ends up.
NativePlace(r) == IF ~r.same THEN "remote" ELSE IF r.source = "host" THEN "staging" ELSE "checkout"

\* What a record says of itself, in any case,
StoreNamesHash(r) == r.path.at = "store" => r.hash = r.path.tree

\* and as long as nothing was disturbed: which tree it is of, which request it is from,
OfItsTree(r) ==
  /\ r.hash = r.source
  /\ r.path.at = "store" => r.path.tree = r.source
  /\ r.path.at # "store" =>
       \E a \in Requests : a.native /\ a.same = r.same /\ r.path.at = NativePlace(a)

\* and what lies where it says.
Lies(r) == Content(r.path, r.same) \in {r.source, None}

\* A placement of another tree is about to replace the record, and may have overwritten
\* what it names.
Overwrites(p, r) ==
  /\ pc[p] \in Building /\ req[p].native /\ trees[req[p].source] # r.source
  /\ \/ r.path.at = Directory(p)
     \/ r.path.at = "remote" /\ ~req[p].same

BuiltHash == \A p \in Procs : pc[p] \in Late /\ ~req[p].native => hash[p] = built[p]

Checks == {"wake", "check"}

LoadedFits ==
  \A p \in Procs : pc[p] \in Checks =>
    /\ loaded[p].source = source[p] /\ loaded[p].same = req[p].same
    /\ StoreNamesHash(loaded[p])

FilesName == /\ cache.kind = "whole" => StoreNamesHash(cache.rec)
             /\ tmp.kind = "whole" => StoreNamesHash(tmp.rec)

\* What a process that is at work knows.
Synced(p) ==
  req[p].source = "host" => /\ \A f \in synced[p] : staging[f] = trees["host"][f]
                            /\ pc[p] \in Building => synced[p] = Files

Loaded(p) == pc[p] \in Checks => OfItsTree(loaded[p]) /\ Lies(loaded[p])

Made(p) ==
  /\ pc[p] \in Building =>
       built[p] = source[p] /\ (req[p].native => out[Directory(p)] = source[p])
  /\ pc[p] \in Late => hash[p] = source[p]
  /\ pc[p] \in Saving /\ req[p].native /\ ~req[p].same => remote \in {source[p], None}

AtWork(p) ==
  /\ req[p] \in Requests /\ source[p] = trees[req[p].source]
  /\ Synced(p) /\ Loaded(p) /\ Made(p)

Fine(p) == IF pc[p] = "idle" THEN synced[p] = {} ELSE AtWork(p)

WorkInv == \A p \in Procs : Fine(p)

CacheInv ==
  cache.kind = "whole" => /\ OfItsTree(cache.rec)
                          /\ Lies(cache.rec) \/ \E p \in Procs : Overwrites(p, cache.rec)

Renames(p) == pc[p] = "rename" /\ req[p].native /\ tmp.rec = NewRecord(p)

TmpInv ==
  tmp.kind = "whole" => /\ OfItsTree(tmp.rec)
                        /\ tmp.rec.path.at # "store" => \E p \in Procs : Renames(p)

GenuineInv ==
  /\ BuiltHash /\ LoadedFits /\ FilesName /\ AnswersAreGenuine
  /\ ~disturbed => WorkInv /\ CacheInv /\ TmpInv

\* A process leaves what another one has in hand.
LEMMA Alone ==
  ASSUME TypeInv, NEW p \in Procs, NEW q \in Procs, p # q, Works(p) \/ Hit(p) \/ Rename(p)
  PROVE  /\ pc'[q] = pc[q] /\ req'[q] = req[q] /\ source'[q] = source[q] /\ loaded'[q] = loaded[q]
         /\ synced'[q] = synced[q] /\ built'[q] = built[q] /\ hash'[q] = hash[q]
<1>1. (\E to : Goes(p, to)) => pc'[q] = pc[q]
  BY DEF Goes, TypeInv, CountersTyped
<1>2. pc'[q] = pc[q]
  BY <1>1 DEF Works, Hit, Rename, Answers, Identify, Load, Wake, Miss, Stage, Sync, Build, Hash,
     Ship, Create, Write, Breaks
<1>3. CASE Hit(p) \/ Rename(p) \/ Breaks(p)
  <2>1. Forgets(p)
    BY <1>3 DEF Hit, Rename, Answers, Breaks
  <2> QED BY <1>2, <2>1 DEF Forgets, TypeInv, LocalTyped
<1>4. CASE Works(p) /\ ~Breaks(p)
  BY <1>2, <1>4 DEF Works, Identify, Load, Wake, Miss, Stage, Sync, Build, Hash, Ship, Create,
     Write, local, TypeInv, LocalTyped
<1> QED BY <1>3, <1>4

LEMMA BuiltHashStep ==
  ASSUME TypeInv, BuiltHash, [Next]_vars
  PROVE  BuiltHash'
<1>1. ASSUME NEW p \in Procs, Works(p) \/ Hit(p) \/ Rename(p),
             pc'[p] \in Late /\ ~req'[p].native => hash'[p] = built'[p]
      PROVE  BuiltHash'
  BY <1>1, Alone DEF BuiltHash
<1>2. ASSUME NEW p \in Procs, Works(p) \/ Hit(p) \/ Rename(p) PROVE BuiltHash'
  <2>1. CASE Ship(p) \/ Create(p) \/ Write(p)
    BY <1>1, <2>1 DEF Works, BuiltHash, Ship, Create, Write, At, Late, local
  <2>2. CASE Hash(p)
    <3>1. ~req[p].native => Artifact(p) = built[p]
      BY <2>2 DEF Hash, Readable, Artifact
    <3>2. req' = req /\ built' = built /\ hash'[p] = Artifact(p)
      BY <2>2 DEF Hash, TypeInv, LocalTyped
    <3> QED BY <1>1, <2>2, <3>1, <3>2 DEF Works
  <2>3. CASE \/ \E r \in Requests : Identify(p, r)
             \/ Load(p) \/ Wake(p) \/ Miss(p) \/ Stage(p) \/ Sync(p) \/ Build(p) \/ Breaks(p)
             \/ Hit(p) \/ Rename(p)
    <3>1. \E to \in Counters \ Late : Goes(p, to)
      BY <2>3 DEF Identify, Load, Wake, Miss, Stage, Sync, Build, Breaks, Hit, Rename, Answers,
         AfterLoad, Counters, Late
    <3>2. pc'[p] \notin Late
      BY <3>1 DEF Goes, TypeInv, CountersTyped
    <3> QED BY <1>1, <2>3, <3>2 DEF Works
  <2> QED BY <1>2, <2>1, <2>2, <2>3 DEF Works
<1>3. CASE \/ \E s \in Sources : Edit(s)
           \/ Collect \/ UNCHANGED vars
  BY <1>3 DEF BuiltHash, Edit, Collect, local, vars
<1> QED BY <1>2, <1>3 DEF Next

LEMMA LoadedFitsStep ==
  ASSUME TypeInv, LoadedFits, FilesName, [Next]_vars
  PROVE  LoadedFits'
<1>1. ASSUME NEW p \in Procs, Works(p) \/ Hit(p) \/ Rename(p),
             pc'[p] \in Checks =>
               /\ loaded'[p].source = source'[p] /\ loaded'[p].same = req'[p].same
               /\ StoreNamesHash(loaded'[p])
      PROVE  LoadedFits'
  BY <1>1, Alone DEF LoadedFits, StoreNamesHash
<1>2. ASSUME NEW p \in Procs, Works(p) \/ Hit(p) \/ Rename(p) PROVE LoadedFits'
  <2>1. CASE Wake(p)
    BY <1>1, <2>1 DEF Works, LoadedFits, Wake, At, Checks, local
  <2>2. CASE Load(p) /\ Matches(p)
    <3>1. loaded'[p] = cache.rec /\ req' = req /\ source' = source
      BY <2>2 DEF Load, TypeInv, LocalTyped
    <3> QED BY <1>1, <2>2, <3>1 DEF Works, Matches, FilesName
  <2>3. CASE \/ \E r \in Requests : Identify(p, r)
             \/ Load(p) /\ ~Matches(p)
             \/ Miss(p) \/ Stage(p) \/ Sync(p) \/ Build(p) \/ Hash(p) \/ Ship(p) \/ Create(p)
             \/ Write(p) \/ Breaks(p) \/ Hit(p) \/ Rename(p)
    <3>1. \E to \in Counters \ Checks : Goes(p, to)
      BY <2>3 DEF Identify, Load, Miss, Stage, Sync, Build, Hash, Ship, Create, Write, Breaks, Hit,
         Rename, Answers, AfterLoad, AfterHash, Counters, Checks
    <3>2. pc'[p] \notin Checks
      BY <3>1 DEF Goes, TypeInv, CountersTyped
    <3> QED BY <1>1, <2>3, <3>2 DEF Works
  <2> QED BY <1>2, <2>1, <2>2, <2>3 DEF Works
<1>3. CASE \/ \E s \in Sources : Edit(s)
           \/ Collect \/ UNCHANGED vars
  BY <1>3 DEF LoadedFits, Edit, Collect, local, vars
<1> QED BY <1>2, <1>3 DEF Next

\* A record that a process saves names the hash of its store path.
LEMMA SavedName ==
  ASSUME BuiltHash, NEW p \in Procs, pc[p] \in Saving
  PROVE  StoreNamesHash(NewRecord(p))
BY DEF BuiltHash, Saving, Late, StoreNamesHash, NewRecord, ShippedPath, Directory

LEMMA FilesNameStep ==
  ASSUME TypeInv, BuiltHash, FilesName, [Next]_vars
  PROVE  FilesName'
<1>1. ASSUME NEW p \in Procs, Write(p) PROVE FilesName'
  <2>1. \A old : \A new \in Written(old, p) : new.kind = "whole" => StoreNamesHash(new.rec)
    BY <1>1, SavedName DEF Written, Torn, Write, At, Saving
  <2>2. /\ cache' = cache \/ cache' \in Written(cache, p)
        /\ tmp' = tmp \/ tmp' \in Written(tmp, p)
    BY <1>1 DEF Write
  <2> QED BY <2>1, <2>2 DEF FilesName
<1>2. ASSUME NEW p \in Procs, Create(p) \/ Rename(p) PROVE FilesName'
  <2>1. /\ cache' \in {cache, tmp}
        /\ tmp' \in {Torn, NoFile}
    BY <1>2 DEF Create, Rename
  <2>2. Torn.kind # "whole" /\ NoFile.kind # "whole"
    BY DEF Torn, NoFile
  <2> QED BY <2>1, <2>2 DEF FilesName, StoreNamesHash
<1>3. ASSUME NEW p \in Procs,
             \/ \E r \in Requests : Identify(p, r)
             \/ Load(p) \/ Wake(p) \/ Miss(p) \/ Stage(p) \/ Sync(p) \/ Build(p) \/ Hash(p)
             \/ Ship(p) \/ Breaks(p) \/ Hit(p)
      PROVE  FilesName'
  BY <1>3 DEF Identify, Load, Wake, Miss, Stage, Sync, Build, Hash, Ship, Breaks, Hit, files,
     FilesName
<1>4. CASE \/ \E s \in Sources : Edit(s)
           \/ Collect \/ UNCHANGED vars
  BY <1>4 DEF FilesName, Edit, Collect, files, vars
<1> QED BY <1>1, <1>2, <1>3, <1>4 DEF Next, Works

\* What an invocation answers with.
LEMMA AnswerStep ==
  ASSUME TypeInv, GenuineInv, [Next]_vars
  PROVE  AnswersAreGenuine'
<1>1. ASSUME NEW p \in Procs, Hit(p) PROVE AnswersAreGenuine'
  <2>1. /\ answer' = [given |-> TRUE, cached |-> TRUE, source |-> source[p], rec |-> loaded[p],
                      content |-> Content(loaded[p].path, req[p].same)]
        /\ Content(loaded[p].path, req[p].same) # None
        /\ disturbed' = disturbed /\ pc[p] = "check"
    BY <1>1 DEF Hit, Answers, Exists, truth, At
  <2>2. loaded[p].source = source[p] /\ loaded[p].same = req[p].same /\ StoreNamesHash(loaded[p])
    BY <2>1 DEF GenuineInv, LoadedFits, Checks
  <2>3. ~disturbed => OfItsTree(loaded[p]) /\ Lies(loaded[p])
    BY <2>1 DEF GenuineInv, WorkInv, Fine, AtWork, Loaded, Checks
  <2> QED BY <2>1, <2>2, <2>3 DEF AnswersAreGenuine, StoreNamesHash, OfItsTree, Lies
<1>2. ASSUME NEW p \in Procs, Rename(p) PROVE AnswersAreGenuine'
  <2>1. /\ answer' = [given |-> TRUE, cached |-> FALSE, source |-> source[p], rec |-> NewRecord(p),
                      content |-> Content(ShippedPath(p), req[p].same)]
        /\ disturbed' = disturbed /\ pc[p] = "rename"
    BY <1>2 DEF Rename, Answers, truth, At, NewRecord
  <2>2. StoreNamesHash(NewRecord(p))
    BY <2>1, SavedName DEF GenuineInv, Saving
  <2>3. ~disturbed => Made(p)
    BY <2>1 DEF GenuineInv, WorkInv, Fine, AtWork
  <2>4. ASSUME ~disturbed PROVE /\ hash[p] = source[p]
                                /\ Content(ShippedPath(p), req[p].same) \in {source[p], None}
    BY <2>1, <2>3, <2>4 DEF Made, Building, Late, Saving, Content, ShippedPath, Directory
  <2>5. NewRecord(p).source = source[p] /\ NewRecord(p).hash = hash[p]
    BY DEF NewRecord
  <2> QED BY <2>1, <2>2, <2>4, <2>5 DEF AnswersAreGenuine, StoreNamesHash
<1>3. CASE answer' = NoAnswer
  BY <1>3 DEF AnswersAreGenuine, NoAnswer
<1>4. CASE UNCHANGED vars
  BY <1>4 DEF GenuineInv, AnswersAreGenuine, vars
<1> QED BY <1>1, <1>2, <1>3, <1>4 DEF Next

\* Where two requests meet, their trees are the same.
LEMMA SameTree ==
  ASSUME OneTree, NEW a \in Requests, NEW b \in Requests, b.native,
         NEW r, OfItsTree(r), r.same = a.same, r.path.at # "store",
         \/ r.path.at = (IF b.source = "host" THEN "staging" ELSE "checkout")
         \/ r.path.at = "remote" /\ ~b.same
  PROVE  a.source = b.source
<1>1. a \in Request /\ b \in Request
  BY Constants
<1>2. PICK c \in Requests : c.native /\ c.same = r.same /\ r.path.at = NativePlace(c)
  BY DEF OfItsTree
<1>3. c \in Request /\ c.source = a.source
  BY <1>2, Constants DEF OneTree
<1>4. CASE r.path.at = "remote"
  <2>1. ~c.same /\ ~b.same /\ ~a.same
    BY <1>1, <1>2, <1>3, <1>4 DEF NativePlace, Request
  <2> QED BY <1>1, <2>1 DEF OneTree, Request
<1>5. CASE r.path.at # "remote"
  BY <1>1, <1>2, <1>3, <1>5 DEF NativePlace, Request, Sources
<1> QED BY <1>4, <1>5

\* What another does leaves a process at work as it is, as long as the tree it is of, and
\* what it has made of it, stay.
LEMMA StaysFine ==
  ASSUME WorkInv, NEW q \in Procs,
         pc'[q] = pc[q], req'[q] = req[q], source'[q] = source[q], loaded'[q] = loaded[q],
         synced'[q] = synced[q], built'[q] = built[q], hash'[q] = hash[q],
         pc[q] # "idle" => trees'[req[q].source] = trees[req[q].source],
         pc[q] # "idle" /\ req[q].source = "host" =>
           \A f \in synced[q] : staging'[f] = staging[f] \/ staging'[f] = trees["host"][f],
         pc[q] \in Building /\ req[q].native =>
           out'[Directory(q)] \in {out[Directory(q)], source[q]},
         pc[q] \in Saving /\ req[q].native /\ ~req[q].same => remote' \in {remote, source[q], None},
         pc[q] \in Checks => Lies(loaded[q])'
  PROVE  Fine(q)'
<1>1. CASE pc[q] = "idle"
  BY <1>1 DEF WorkInv, Fine
<1>2. CASE pc[q] # "idle"
  <2>1. AtWork(q)
    BY <1>2 DEF WorkInv, Fine
  <2>2. req'[q] \in Requests /\ source'[q] = trees'[req'[q].source]
    BY <1>2, <2>1 DEF AtWork
  <2>3. Synced(q)'
    BY <1>2, <2>1 DEF AtWork, Synced
  <2>4. Loaded(q)'
    BY <2>1 DEF AtWork, Loaded, OfItsTree, Lies
  <2>5. Made(q)'
    BY <2>1 DEF AtWork, Made, Directory
  <2> QED BY <1>2, <2>2, <2>3, <2>4, <2>5 DEF Fine, AtWork
<1> QED BY <1>1, <1>2

\* What lies at a path is there still when only the lab's trees have changed.
LEMMA LiesStill ==
  ASSUME UNCHANGED <<out, remote, stores>>
  PROVE  \A r : Lies(r)' <=> Lies(r)
BY DEF Lies, Content

\* Nothing was disturbed, and nothing is now.
Quiet == TypeInv /\ ApartInv /\ GenuineInv /\ ~disturbed /\ OneTree

LEMMA QuietHas ==
  ASSUME Quiet
  PROVE  /\ TypeInv /\ ApartInv /\ OneTree /\ BuiltHash /\ LoadedFits
         /\ WorkInv /\ CacheInv /\ TmpInv
BY DEF Quiet, GenuineInv

\* A process that shares nothing in its step leaves the others alone.
LEMMA OthersFine ==
  ASSUME TypeInv, WorkInv, NEW p \in Procs, Works(p) \/ Hit(p) \/ Rename(p), Fine(p)',
         UNCHANGED <<trees, staging, out, remote, stores>>
  PROVE  WorkInv'
<1>1. ASSUME NEW q \in Procs, q # p PROVE Fine(q)'
  BY <1>1, Alone, StaysFine, LiesStill DEF WorkInv, Fine, AtWork, Loaded
<1> QED BY <1>1 DEF WorkInv

LEMMA IdentifyWork ==
  ASSUME Quiet, NEW p \in Procs, NEW r \in Requests, Identify(p, r)
  PROVE  WorkInv'
<1>1. /\ pc'[p] = "load" /\ req'[p] = r /\ source'[p] = trees[r.source] /\ synced'[p] = {}
      /\ UNCHANGED <<trees, staging, out, remote, stores>>
  BY QuietHas DEF Identify, At, Goes, TypeInv, CountersTyped, LocalTyped, WorkInv, Fine, lab, target
<1>2. AtWork(p)'
  BY <1>1 DEF AtWork, Synced, Loaded, Made, Building, Late, Saving, Checks
<1> QED BY <1>1, <1>2, QuietHas, OthersFine DEF Fine, Works

\* A record that a process finds to match is of its tree, and nobody overwrites it.
LEMMA MatchLies ==
  ASSUME Quiet, NEW p \in Procs, pc[p] # "idle", Matches(p)
  PROVE  OfItsTree(cache.rec) /\ Lies(cache.rec)
<1>1. /\ OfItsTree(cache.rec) /\ cache.rec.source = source[p] /\ cache.rec.same = req[p].same
      /\ Lies(cache.rec) \/ \E q \in Procs : Overwrites(q, cache.rec)
  BY QuietHas DEF Matches, CacheInv
<1>2. req[p] \in Requests /\ source[p] = trees[req[p].source]
  BY QuietHas DEF WorkInv, Fine, AtWork
<1>3. ASSUME NEW q \in Procs, Overwrites(q, cache.rec) PROVE FALSE
  <2>1. pc[q] # "idle" /\ req[q].native /\ trees[req[q].source] # cache.rec.source
    BY <1>3 DEF Overwrites, Building
  <2>2. req[q] \in Requests
    BY <2>1, QuietHas DEF WorkInv, Fine, AtWork
  <2>3. \/ cache.rec.path.at = (IF req[q].source = "host" THEN "staging" ELSE "checkout")
        \/ cache.rec.path.at = "remote" /\ ~req[q].same
    BY <1>3 DEF Overwrites, Directory
  <2>4. req[p].source = req[q].source
    BY <1>1, <1>2, <2>1, <2>2, <2>3, SameTree, QuietHas
  <2> QED BY <1>1, <1>2, <2>1, <2>4
<1> QED BY <1>1, <1>3

LEMMA LoadWork ==
  ASSUME Quiet, NEW p \in Procs, Load(p)
  PROVE  WorkInv'
<1>1. /\ UNCHANGED <<trees, staging, out, remote, stores, req, source, synced>>
      /\ pc[p] = "load" /\ pc'[p] \in {"wake", "stage", "build"}
  BY QuietHas DEF Load, At, Goes, AfterLoad, TypeInv, CountersTyped, lab, target
<1>2. AtWork(p)
  BY <1>1, QuietHas DEF WorkInv, Fine
<1>3. Loaded(p)'
  <2>1. CASE Matches(p)
    <3>1. loaded'[p] = cache.rec
      BY <2>1, QuietHas DEF Load, TypeInv, LocalTyped
    <3>2. OfItsTree(cache.rec) /\ Lies(cache.rec)
      BY <1>1, <2>1, MatchLies
    <3>3. Lies(loaded'[p])
      BY <3>1, <3>2
    <3> QED BY <1>1, <3>1, <3>2, <3>3 DEF Loaded, OfItsTree, Lies, Content
  <2>2. CASE ~Matches(p)
    <3>1. pc'[p] \in {"stage", "build"}
      BY <2>2, QuietHas DEF Load, Goes, AfterLoad, TypeInv, CountersTyped
    <3> QED BY <3>1 DEF Loaded, Checks
  <2> QED BY <2>1, <2>2
<1>4. AtWork(p)'
  BY <1>1, <1>2, <1>3 DEF AtWork, Synced, Made, Building, Late, Saving
<1> QED BY <1>1, <1>4, QuietHas, OthersFine DEF Fine, Works

\* Steps in which a process only goes on, or leaves.
LEMMA GoingWork ==
  ASSUME Quiet, NEW p \in Procs,
         Wake(p) \/ Miss(p) \/ Stage(p) \/ Create(p) \/ Write(p)
  PROVE  WorkInv'
<1>1. /\ UNCHANGED <<trees, staging, out, remote, stores, req, source, synced, loaded, built, hash>>
      /\ pc[p] # "idle" /\ pc'[p] # "idle"
      /\ pc'[p] \in Checks => pc[p] \in Checks
      /\ pc'[p] \in Building => pc[p] \in Building
      /\ pc'[p] \in Late => pc[p] \in Late
      /\ pc'[p] \in Saving => pc[p] \in Saving
  <2>1. PICK to \in Counters :
          /\ Goes(p, to) /\ to # "idle" /\ (to \in Checks => pc[p] \in Checks)
          /\ to \in Building => pc[p] \in Building
          /\ to \in Late => pc[p] \in Late
          /\ to \in Saving => pc[p] \in Saving
    BY DEF Wake, Miss, Stage, Create, Write, At, AfterLoad, Counters, Checks, Building, Late, Saving
  <2>2. pc'[p] = to
    BY <2>1, QuietHas DEF Goes, TypeInv, CountersTyped
  <2> QED BY <2>1, <2>2 DEF Wake, Miss, Stage, Create, Write, At, lab, target, local
<1>2. AtWork(p)
  BY <1>1, QuietHas DEF WorkInv, Fine
<1>3. Loaded(p)'
  BY <1>1, <1>2, LiesStill DEF AtWork, Loaded, OfItsTree, Lies, Content
<1>4. AtWork(p)'
  BY <1>1, <1>2, <1>3 DEF AtWork, Synced, Made, Directory
<1> QED BY <1>1, <1>4, QuietHas, OthersFine DEF Fine, Works

\* A placement that breaks off and disturbs nothing leaves what was built.
LEMMA BreaksQuietly ==
  ASSUME NEW p \in Procs, Breaks(p), ~disturbed'
  PROVE  UNCHANGED <<trees, staging, out, remote, stores, cache, tmp>>
BY DEF Breaks, Leaves, At, target

LEMMA LeavesWork ==
  ASSUME Quiet, ~disturbed', NEW p \in Procs, Breaks(p) \/ Hit(p) \/ Rename(p)
  PROVE  WorkInv'
<1>1. Forgets(p) /\ Goes(p, "idle") /\ UNCHANGED <<trees, staging, out, remote, stores>>
  BY BreaksQuietly DEF Breaks, Hit, Rename, Answers, lab, target
<1>2. pc'[p] = "idle" /\ synced'[p] = {}
  BY <1>1, QuietHas DEF Forgets, Goes, TypeInv, CountersTyped, LocalTyped
<1> QED BY <1>1, <1>2, QuietHas, OthersFine DEF Fine, Works

LEMMA SyncWork ==
  ASSUME Quiet, NEW p \in Procs, Sync(p)
  PROVE  WorkInv'
<1>1. PICK f \in Files :
        /\ staging' = [staging EXCEPT ![f] = trees["host"][f]]
        /\ synced' = [synced EXCEPT ![p] = @ \cup {f}]
        /\ Goes(p, IF Files = synced[p] \cup {f} THEN "build" ELSE "sync")
  BY DEF Sync
<1>2. /\ UNCHANGED <<trees, out, remote, stores, req, source, loaded, built, hash>>
      /\ pc[p] = "sync" /\ pc'[p] \in {"build", "sync"}
  BY <1>1, QuietHas DEF Sync, At, Goes, ApartInv, TypeInv, CountersTyped, target
<1>3. \A g \in Files : staging'[g] = staging[g] \/ staging'[g] = trees["host"][g]
  BY <1>1, QuietHas DEF TypeInv, LabTyped, Lines
<1>4. \A q \in Procs : synced[q] \subseteq Files
  BY QuietHas DEF TypeInv, LocalTyped
<1>5. ASSUME NEW q \in Procs, q # p PROVE Fine(q)'
  BY <1>2, <1>3, <1>4, <1>5, Alone, StaysFine, LiesStill, QuietHas
     DEF WorkInv, Fine, AtWork, Loaded, Works
<1>6. AtWork(p)
  BY <1>2, QuietHas DEF WorkInv, Fine
<1>7. Synced(p)'
  <2>1. synced'[p] = synced[p] \cup {f} /\ staging'[f] = trees["host"][f]
    BY <1>1, QuietHas DEF TypeInv, LocalTyped, LabTyped, Lines
  <2> QED BY <1>2, <1>3, <1>4, <1>6, <2>1 DEF AtWork, Synced, Building
<1>8. AtWork(p)'
  BY <1>2, <1>6, <1>7 DEF AtWork, Loaded, Made, Building, Late, Saving, Checks
<1> QED BY <1>2, <1>5, <1>8 DEF WorkInv, Fine

\* What a process builds from is the tree it has identified.
LEMMA BuildsItsTree ==
  ASSUME Quiet, NEW p \in Procs, pc[p] = "build"
  PROVE  /\ req[p] \in Requests /\ source[p] = trees[req[p].source] /\ TreeIn(p) = source[p]
         /\ req[p].source = "host" =>
              synced[p] = Files /\ \A f \in Files : staging[f] = trees["host"][f]
<1>1. AtWork(p)
  BY QuietHas DEF WorkInv, Fine
<1>2. req[p] \in Request /\ req[p].source \in {"host", "lab"}
  BY QuietHas DEF TypeInv, LocalTyped, Request, Sources
<1>3. CASE req[p].source = "host"
  <2>1. synced[p] = Files
    BY <1>3, QuietHas DEF TypeInv, Steady
  <2>2. \A f \in Files : staging[f] = trees["host"][f]
    BY <1>1, <1>3, <2>1 DEF AtWork, Synced
  <2>3. staging = trees["host"]
    BY <2>2, QuietHas DEF TypeInv, LabTyped, Lines, Tree, Sources
  <2> QED BY <1>1, <1>3, <2>1, <2>2, <2>3 DEF AtWork, TreeIn
<1>4. CASE req[p].source = "lab"
  BY <1>1, <1>4 DEF AtWork, TreeIn
<1> QED BY <1>2, <1>3, <1>4

\* Who builds where another one has built, builds the same tree.
LEMMA SameDirectory ==
  ASSUME Quiet, NEW p \in Procs, NEW q \in Procs, pc[p] # "idle", pc[q] # "idle",
         Directory(p) = Directory(q)
  PROVE  source[p] = source[q]
<1>1. /\ source[p] = trees[req[p].source] /\ source[q] = trees[req[q].source]
      /\ req[p].source \in {"host", "lab"} /\ req[q].source \in {"host", "lab"}
  BY QuietHas DEF WorkInv, Fine, AtWork, TypeInv, LocalTyped, Request, Sources
<1> QED BY <1>1 DEF Directory

\* What one builds or ships does not hide from another the record it has loaded.
LEMMA StillLies ==
  ASSUME Quiet, NEW p \in Procs, NEW q \in Procs, pc[p] # "idle", pc[q] \in Checks,
         \A l \in {"lab", "target"} : stores[l] \subseteq stores'[l],
         \A d \in {"staging", "checkout"} :
           out'[d] = out[d] \/ (out'[d] = source[p] /\ d = Directory(p) /\ req[p].native),
         remote' = remote \/ (remote' = source[p] /\ req[p].native /\ ~req[p].same)
  PROVE  \A r : r = loaded[q] => Lies(r)'
<1>1. AtWork(p) /\ AtWork(q)
  BY QuietHas DEF WorkInv, Fine, Checks
<1> SUFFICES ASSUME NEW r, r = loaded[q] PROVE Lies(r)'
  OBVIOUS
<1>2. OfItsTree(r) /\ Lies(r) /\ r.source = source[q] /\ r.same = req[q].same
  BY <1>1, QuietHas DEF AtWork, Loaded, LoadedFits
<1>3. r.path.at \in Places
  BY QuietHas, NoRecordTyped DEF TypeInv, LocalTyped, Records, Record, Path
<1>4. CASE r.path.at = "store"
  BY <1>2, <1>4 DEF Lies, Content, OfItsTree
<1>5. CASE r.path.at = "remote"
  <2>1. remote' # remote => req[q].source = req[p].source
    BY <1>1, <1>2, <1>5, SameTree, QuietHas DEF AtWork
  <2>2. remote' # remote => remote' = r.source
    BY <1>1, <1>2, <2>1 DEF AtWork
  <2> QED BY <1>2, <1>5, <2>2 DEF Lies, Content
<1>6. CASE r.path.at \in {"staging", "checkout"}
  <2>1. out'[r.path.at] # out[r.path.at] => req[q].source = req[p].source
    BY <1>1, <1>2, <1>6, SameTree, QuietHas DEF AtWork, Directory
  <2>2. out'[r.path.at] # out[r.path.at] => out'[r.path.at] = r.source
    BY <1>1, <1>2, <1>6, <2>1 DEF AtWork
  <2> QED BY <1>2, <1>6, <2>2 DEF Lies, Content
<1> QED BY <1>3, <1>4, <1>5, <1>6 DEF Places

LEMMA BuildWork ==
  ASSUME Quiet, NEW p \in Procs, Build(p)
  PROVE  WorkInv'
<1>1. /\ UNCHANGED <<trees, staging, remote, req, source, loaded, synced, hash>>
      /\ pc[p] = "build" /\ pc'[p] = "hash" /\ built'[p] = source[p]
      /\ req[p].native => out' = [out EXCEPT ![Directory(p)] = source[p]] /\ stores' = stores
      /\ ~req[p].native => out' = out /\ stores' = [stores EXCEPT !["lab"] = @ \cup {source[p]}]
  BY BuildsItsTree, QuietHas DEF Build, At, Goes, TypeInv, CountersTyped, LocalTyped
<1>2. /\ \A l \in {"lab", "target"} : stores[l] \subseteq stores'[l]
      /\ \A d \in {"staging", "checkout"} :
           out'[d] = out[d] \/ (out'[d] = source[p] /\ d = Directory(p) /\ req[p].native)
      /\ req[p].native => out'[Directory(p)] = source[p]
  BY <1>1, ArtifactTyped, QuietHas DEF TypeInv, TargetTyped, LabTyped
<1>3. ASSUME NEW q \in Procs, q # p PROVE Fine(q)'
  <2>1. pc[q] \in Checks => \A r : r = loaded[q] => Lies(r)'
    BY <1>1, <1>2, StillLies
  <2>2. pc[q] \in Building /\ req[q].native => out'[Directory(q)] \in {out[Directory(q)], source[q]}
    <3>1. Directory(q) \in {"staging", "checkout"}
      BY QuietHas, ArtifactTyped
    <3>2. pc[q] \in Building /\ Directory(q) = Directory(p) => source[q] = source[p]
      BY <1>1, SameDirectory DEF Building
    <3> QED BY <1>2, <3>1, <3>2
  <2>3. pc[q] \in Checks => Lies(loaded[q])'
    BY <1>1, <2>1
  <2> QED BY <1>1, <1>3, <2>2, <2>3, Alone, StaysFine, QuietHas DEF Works
<1>4. AtWork(p)
  BY <1>1, QuietHas DEF WorkInv, Fine
<1>5. Synced(p)'
  BY <1>1, <1>4, BuildsItsTree DEF AtWork, Synced
<1>6. Made(p)'
  BY <1>1, <1>2 DEF Made, Directory, Late, Saving
<1>7. AtWork(p)'
  BY <1>1, <1>4, <1>5, <1>6 DEF AtWork, Loaded, Checks
<1> QED BY <1>1, <1>3, <1>7 DEF WorkInv, Fine

LEMMA HashWork ==
  ASSUME Quiet, NEW p \in Procs, Hash(p)
  PROVE  WorkInv'
<1>1. /\ UNCHANGED <<trees, staging, out, remote, stores, req, source, loaded, synced, built>>
      /\ pc[p] = "hash" /\ pc'[p] = "ship" /\ hash'[p] = Artifact(p) /\ Readable(p)
  BY QuietHas DEF Hash, At, Goes, AfterHash, TypeInv, CountersTyped, LocalTyped, lab, target
<1>2. AtWork(p)
  BY <1>1, QuietHas DEF WorkInv, Fine
<1>3. Artifact(p) = source[p]
  BY <1>1, <1>2 DEF AtWork, Made, Building, Artifact, Readable
<1>4. AtWork(p)'
  BY <1>1, <1>2, <1>3 DEF AtWork, Synced, Loaded, Made, Directory, Building, Saving, Checks
<1> QED BY <1>1, <1>4, QuietHas, OthersFine DEF Fine, Works

LEMMA ShipWork ==
  ASSUME Quiet, NEW p \in Procs, Ship(p)
  PROVE  WorkInv'
<1>1. /\ UNCHANGED <<trees, staging, out, req, source, loaded, synced, built, hash>>
      /\ pc[p] = "ship" /\ pc'[p] = "create"
      /\ \A l \in {"lab", "target"} : stores[l] \subseteq stores'[l]
  BY QuietHas DEF Ship, At, Goes, TypeInv, CountersTyped, TargetTyped, lab, local
<1>2. AtWork(p)
  BY <1>1, QuietHas DEF WorkInv, Fine
<1>3. remote' = IF req[p].native /\ ~req[p].same THEN source[p] ELSE remote
  BY <1>1, <1>2 DEF Ship, AtWork, Made, Building, Artifact
<1>4. ASSUME NEW q \in Procs, q # p PROVE Fine(q)'
  <2>1. pc[q] \in Checks => \A r : r = loaded[q] => Lies(r)'
    BY <1>1, <1>3, StillLies
  <2>2. pc[q] \in Saving /\ req[q].native /\ ~req[q].same => remote' \in {remote, source[q], None}
    <3>1. ASSUME pc[q] \in Saving, req[q].native, ~req[q].same, req[p].native, ~req[p].same
          PROVE  source[q] = source[p]
      <4>1. AtWork(q)
        BY <3>1, QuietHas DEF WorkInv, Fine, Saving
      <4> QED BY <1>2, <3>1, <4>1, QuietHas, Constants DEF AtWork, OneTree, Request
    <3> QED BY <1>3, <3>1
  <2>3. pc[q] \in Checks => Lies(loaded[q])'
    BY <1>1, <2>1
  <2> QED BY <1>1, <1>4, <2>2, <2>3, Alone, StaysFine, QuietHas DEF Works
<1>5. AtWork(p)'
  BY <1>1, <1>2, <1>3 DEF AtWork, Synced, Loaded, Made, Directory, Building, Late, Checks
<1> QED BY <1>1, <1>4, <1>5 DEF WorkInv, Fine

\* An edit that disturbs nobody, and what is collected.
LEMMA WorldWork ==
  ASSUME Quiet, ~disturbed',
         \/ \E s \in Sources : Edit(s)
         \/ Collect \/ UNCHANGED vars
  PROVE  WorkInv'
<1>1. ASSUME NEW s \in Sources, Edit(s), NEW q \in Procs PROVE Fine(q)'
  <2>1. /\ UNCHANGED <<staging, out, remote, stores, pc, req, source, loaded, synced, built, hash>>
        /\ pc[q] # "idle" => req[q].source # s
        /\ trees'[req[q].source] # trees[req[q].source] => req[q].source = s
    BY <1>1, QuietHas DEF Edit, At, local, target, TypeInv, LabTyped, LocalTyped, Request
  <2>2. pc[q] \in Checks => Lies(loaded[q])'
    BY <2>1, LiesStill, QuietHas DEF WorkInv, Fine, AtWork, Loaded, Checks
  <2> QED BY <2>1, <2>2, StaysFine, QuietHas
<1>2. ASSUME Collect, NEW q \in Procs PROVE Fine(q)'
  <2>1. /\ UNCHANGED <<trees, staging, out, pc, req, source, loaded, synced, built, hash>>
        /\ remote' \in {remote, None}
    BY <1>2 DEF Collect, local, lab
  <2>2. ASSUME pc[q] \in Checks, NEW r, r = loaded[q] PROVE Lies(r)'
    <3>1. OfItsTree(r) /\ Lies(r)
      BY <2>2, QuietHas DEF WorkInv, Fine, AtWork, Loaded, Checks
    <3> QED BY <2>1, <3>1 DEF OfItsTree, Lies, Content
  <2>3. pc[q] \in Checks => Lies(loaded[q])'
    BY <2>1, <2>2
  <2> QED BY <2>1, <2>3, StaysFine, QuietHas
<1>3. CASE UNCHANGED vars
  BY <1>3, LiesStill, StaysFine, QuietHas DEF vars, WorkInv, Fine, AtWork, Loaded
<1> QED BY <1>1, <1>2, <1>3 DEF WorkInv

LEMMA WorkStep ==
  ASSUME Quiet, [Next]_vars, ~disturbed'
  PROVE  WorkInv'
BY IdentifyWork, LoadWork, GoingWork, LeavesWork, SyncWork, BuildWork, HashWork, ShipWork, WorldWork
   DEF Next, Works

-----------------------------------------------------------------------------
(* The record, in step with what it names.                                  *)

\* Who overwrites a record still does, while it goes on and its tree stays.
LEMMA OverwritesStill ==
  ASSUME NEW p \in Procs,
         pc[p] \in Building => /\ pc'[p] \in Building /\ req'[p] = req[p]
                               /\ trees'[req[p].source] = trees[req[p].source]
  PROVE  \A r : Overwrites(p, r) => Overwrites(p, r)'
BY DEF Overwrites, Directory

\* The record in the file stays as good as it was.
LEMMA CacheStays ==
  ASSUME CacheInv, cache' = cache,
         \A p \in Procs : \A r : Overwrites(p, r) => Overwrites(p, r)',
         \A r : r = cache.rec /\ OfItsTree(r) /\ Lies(r) =>
                  Lies(r)' \/ \E p \in Procs : Overwrites(p, r)'
  PROVE  CacheInv'
<1> SUFFICES ASSUME cache.kind = "whole" PROVE CacheInv'
  BY DEF CacheInv
<1>1. PICK r : r = cache.rec
  OBVIOUS
<1>2. OfItsTree(r) /\ (Lies(r) \/ \E p \in Procs : Overwrites(p, r))
  BY <1>1 DEF CacheInv
<1>3. Lies(r)' \/ \E p \in Procs : Overwrites(p, r)'
  BY <1>1, <1>2
<1>4. OfItsTree(r)'
  BY <1>2 DEF OfItsTree
<1>5. r = cache'.rec
  BY <1>1
<1> QED BY <1>3, <1>4, <1>5 DEF CacheInv, OfItsTree, Lies, Overwrites, Content, Directory

\* What a process saves is a record of its tree, and its artifact lies where it says.
LEMMA SavedLies ==
  ASSUME Quiet, NEW p \in Procs, pc[p] \in Saving
  PROVE  OfItsTree(NewRecord(p)) /\ Lies(NewRecord(p))
<1>1. AtWork(p)
  BY QuietHas DEF WorkInv, Fine, Saving
<1>2. req[p].same \in BOOLEAN /\ req[p].native \in BOOLEAN
  BY QuietHas DEF TypeInv, LocalTyped, Request
<1>3. hash[p] = source[p] /\ built[p] = source[p]
  BY <1>1 DEF AtWork, Made, Saving, Late, Building
<1>4. CASE ~req[p].native
  BY <1>3, <1>4 DEF OfItsTree, Lies, Content, NewRecord, ShippedPath
<1>5. CASE req[p].native /\ req[p].same
  <2>1. ShippedPath(p).at = Directory(p) /\ out[Directory(p)] = source[p]
    BY <1>1, <1>5 DEF ShippedPath, AtWork, Made, Saving, Building
  <2>2. Directory(p) = NativePlace(req[p]) /\ Directory(p) \in {"staging", "checkout"}
    BY <1>5 DEF Directory, NativePlace
  <2>3. req[p] \in Requests
    BY <1>1 DEF AtWork
  <2> QED BY <1>3, <1>5, <2>1, <2>2, <2>3 DEF OfItsTree, Lies, Content, NewRecord
<1>6. CASE req[p].native /\ ~req[p].same
  <2>1. ShippedPath(p).at = "remote" /\ remote \in {source[p], None}
    BY <1>1, <1>6 DEF ShippedPath, AtWork, Made, Saving
  <2>2. "remote" = NativePlace(req[p]) /\ req[p] \in Requests
    BY <1>1, <1>6 DEF AtWork, NativePlace
  <2> QED BY <1>3, <1>6, <2>1, <2>2 DEF OfItsTree, Lies, Content, NewRecord
<1> QED BY <1>2, <1>4, <1>5, <1>6

\* Those who are about to save what they built, and those about to rename it, go on.
LEMMA StillSaving ==
  ASSUME Quiet, ~disturbed', NEW p \in Procs, Works(p), NEW q \in Procs
  PROVE  /\ pc[q] \in Building /\ req[q].native => pc'[q] \in Building /\ req'[q] = req[q]
         /\ pc[q] = "rename" /\ req[q].native =>
              /\ pc'[q] = "rename" /\ req'[q] = req[q] /\ source'[q] = source[q]
              /\ hash'[q] = hash[q] /\ built'[q] = built[q]
<1>1. CASE q # p
  BY <1>1, Alone, QuietHas
<1>2. CASE q = p
  <2>1. pc[q] \in Building /\ req[q].native =>
          Hash(q) \/ Ship(q) \/ Create(q) \/ Write(q)
    BY <1>2 DEF Works, Building, Identify, Load, Wake, Miss, Stage, Sync, Build, Breaks, At
  <2>2. pc[q] # "rename" \/ ~req[q].native
    BY <2>1 DEF Building, Hash, Ship, Create, Write, At
  <2>3. Hash(q) \/ Ship(q) \/ Create(q) \/ Write(q) => pc'[q] \in Building /\ req' = req
    BY QuietHas DEF Hash, Ship, Create, Write, Goes, AfterHash, Building, local, TypeInv,
       CountersTyped
  <2> QED BY <2>1, <2>2, <2>3
<1> QED BY <1>1, <1>2

LEMMA TreesStay ==
  ASSUME Quiet, NEW p \in Procs, Works(p) \/ Hit(p) \/ Rename(p)
  PROVE  trees' = trees
BY QuietHas DEF ApartInv, Works, Hit, Rename, Identify, Load, Wake, Miss, Stage, Sync, Build, Hash,
   Ship, Create, Write, Breaks, At, lab

\* A step that neither writes the record nor makes an artifact.
LEMMA CacheRests ==
  ASSUME Quiet, ~disturbed', NEW p \in Procs, Works(p), cache' = cache,
         UNCHANGED <<out, remote, stores>>
  PROVE  CacheInv'
<1>1. \A q \in Procs : \A r : Overwrites(q, r) => Overwrites(q, r)'
  BY StillSaving, TreesStay, OverwritesStill DEF Overwrites
<1> QED BY <1>1, CacheStays, LiesStill, QuietHas

\* A process that makes an artifact of the record's tree, or is the one that overwrites it.
LEMMA CacheMade ==
  ASSUME Quiet, ~disturbed', NEW p \in Procs, Build(p) \/ Ship(p)
  PROVE  CacheInv'
<1>1. ASSUME NEW q \in Procs, NEW r, Overwrites(q, r) PROVE Overwrites(q, r)'
  <2>1. pc[q] \in Building /\ req[q].native => pc'[q] \in Building /\ req'[q] = req[q]
    BY StillSaving DEF Works
  <2> QED BY <1>1, <2>1, TreesStay DEF Overwrites, Directory, Works
<1>2. ASSUME NEW r, r = cache.rec, OfItsTree(r), Lies(r)
      PROVE  Lies(r)' \/ \E q \in Procs : Overwrites(q, r)'
  <2>1. r.path.at \in Places
    BY <1>2, QuietHas, NoRecordTyped DEF TypeInv, FilesTyped, File, Records, Record, Path
  <2>2. /\ pc'[p] \in Building /\ req' = req /\ trees' = trees
        /\ source[p] = trees[req[p].source]
        /\ pc[p] # "idle"
    BY TreesStay, QuietHas DEF Works, Build, Ship, At, Goes, Building, local, TypeInv, CountersTyped,
       WorkInv, Fine, AtWork
  <2>3. CASE Build(p)
    <3>1. /\ remote' = remote
          /\ req[p].native => out' = [out EXCEPT ![Directory(p)] = source[p]] /\ stores' = stores
          /\ ~req[p].native => out' = out
      BY <2>3, BuildsItsTree DEF Build, At
    <3>2. CASE r.path.at = "store"
      BY <1>2, <3>2 DEF OfItsTree, Lies, Content
    <3>3. CASE r.path.at = "remote"
      BY <1>2, <3>1, <3>3 DEF Lies, Content
    <3>4. CASE r.path.at \in {"staging", "checkout"}
      <4>1. CASE req[p].native /\ r.path.at = Directory(p) /\ source[p] # r.source
        <5>1. Overwrites(p, r)'
          BY <2>2, <4>1 DEF Overwrites, Directory
        <5> QED BY <5>1
      <4>2. CASE ~(req[p].native /\ r.path.at = Directory(p) /\ source[p] # r.source)
        <5>1. out'[r.path.at] = out[r.path.at] \/ out'[r.path.at] = r.source
          BY <3>1, <3>4, <4>2, QuietHas DEF TypeInv, LabTyped
        <5> QED BY <1>2, <3>4, <5>1 DEF Lies, Content
      <4> QED BY <4>1, <4>2
    <3> QED BY <2>1, <3>2, <3>3, <3>4 DEF Places
  <2>4. CASE Ship(p)
    <3>1. AtWork(p) /\ pc[p] = "ship"
      BY <2>2, <2>4, QuietHas DEF WorkInv, Fine, Ship, At
    <3>2. out' = out /\ remote' = IF req[p].native /\ ~req[p].same THEN source[p] ELSE remote
      BY <2>4, <3>1 DEF Ship, AtWork, Made, Building, Artifact, lab
    <3>3. CASE r.path.at = "store"
      BY <1>2, <3>3 DEF OfItsTree, Lies, Content
    <3>4. CASE r.path.at \in {"staging", "checkout"}
      BY <1>2, <3>2, <3>4 DEF Lies, Content
    <3>5. CASE r.path.at = "remote"
      <4>1. CASE req[p].native /\ ~req[p].same /\ source[p] # r.source
        <5>1. Overwrites(p, r)'
          BY <2>2, <3>5, <4>1 DEF Overwrites
        <5> QED BY <5>1
      <4>2. CASE ~(req[p].native /\ ~req[p].same /\ source[p] # r.source)
        BY <1>2, <3>2, <3>5, <4>2 DEF Lies, Content
      <4> QED BY <4>1, <4>2
    <3> QED BY <2>1, <3>3, <3>4, <3>5 DEF Places
  <2> QED BY <2>3, <2>4
<1>3. cache' = cache
  BY DEF Build, Ship, files
<1> QED BY <1>1, <1>2, <1>3, CacheStays, QuietHas

LEMMA WriteCache ==
  ASSUME Quiet, ~disturbed', NEW p \in Procs, Write(p)
  PROVE  CacheInv'
<1>1. UNCHANGED <<out, remote, stores>> /\ (cache' = cache \/ cache' \in Written(cache, p))
  BY DEF Write, lab, target
<1>2. CASE cache' = cache
  BY <1>1, <1>2, CacheRests DEF Works
<1>3. CASE cache' \in Written(cache, p)
  <2>1. PICK r : r = NewRecord(p)
    OBVIOUS
  <2>2. OfItsTree(r) /\ Lies(r)
    BY <2>1, SavedLies DEF Write, At, Saving
  <2>3. OfItsTree(r)' /\ Lies(r)'
    BY <1>1, <2>2, LiesStill DEF OfItsTree
  <2>4. cache'.kind = "whole" => cache'.rec = r
    BY <1>3, <2>1 DEF Written, Torn
  <2> QED BY <2>3, <2>4 DEF CacheInv, OfItsTree, Lies, Content
<1> QED BY <1>1, <1>2, <1>3

LEMMA RenameCache ==
  ASSUME Quiet, NEW p \in Procs, Rename(p)
  PROVE  CacheInv'
<1>1. UNCHANGED <<out, remote, stores>> /\ cache' = tmp
  BY DEF Rename, lab, target
<1> SUFFICES ASSUME tmp.kind = "whole" PROVE CacheInv'
  BY <1>1 DEF CacheInv
<1>2. PICK r : r = tmp.rec
  OBVIOUS
<1>3. OfItsTree(r) /\ (r.path.at # "store" => \E q \in Procs : Renames(q))
  BY <1>2, QuietHas DEF TmpInv
<1>4. Lies(r)
  <2>1. CASE r.path.at = "store"
    BY <1>3, <2>1 DEF OfItsTree, Lies, Content
  <2>2. CASE r.path.at # "store"
    <3>1. PICK q \in Procs : pc[q] = "rename" /\ r = NewRecord(q)
      BY <1>2, <1>3, <2>2 DEF Renames
    <3> QED BY <3>1, SavedLies DEF Saving
  <2> QED BY <2>1, <2>2
<1>5. OfItsTree(r)' /\ Lies(r)'
  BY <1>1, <1>3, <1>4, LiesStill DEF OfItsTree
<1>6. cache'.rec = r
  BY <1>1, <1>2
<1> QED BY <1>5, <1>6 DEF CacheInv, OfItsTree, Lies, Content

LEMMA WorldCache ==
  ASSUME Quiet, ~disturbed',
         \/ \E p \in Procs : Hit(p)
         \/ \E s \in Sources : Edit(s)
         \/ Collect \/ UNCHANGED vars
  PROVE  CacheInv'
<1>1. ASSUME NEW p \in Procs, Hit(p) PROVE CacheInv'
  <2>1. ASSUME NEW q \in Procs, pc[q] \in Building PROVE pc'[q] \in Building /\ req'[q] = req[q]
    <3>1. q # p
      BY <1>1, <2>1 DEF Hit, At, Building
    <3> QED BY <1>1, <2>1, <3>1, Alone, QuietHas
  <2>2. \A q \in Procs : \A r : Overwrites(q, r) => Overwrites(q, r)'
    BY <1>1, <2>1, TreesStay, OverwritesStill
  <2> QED BY <1>1, <2>2, CacheStays, LiesStill, QuietHas DEF Hit, lab, target, files
<1>2. ASSUME NEW s \in Sources, Edit(s) PROVE CacheInv'
  <2>1. /\ UNCHANGED <<pc, req, out, remote, stores, cache>>
        /\ \A q \in Procs : pc[q] # "idle" => req[q].source # s
        /\ \A t \in Sources : t # s => trees'[t] = trees[t]
    BY <1>2, QuietHas DEF Edit, At, local, target, files, TypeInv, LabTyped
  <2>2. \A q \in Procs : req[q].source \in Sources
    BY QuietHas DEF TypeInv, LocalTyped, Request
  <2>3. \A q \in Procs : \A r : Overwrites(q, r) => Overwrites(q, r)'
    BY <2>1, <2>2, OverwritesStill DEF Building
  <2> QED BY <2>1, <2>3, CacheStays, LiesStill, QuietHas
<1>3. CASE Collect
  <2>1. UNCHANGED <<trees, out, pc, req, cache>> /\ remote' \in {remote, None}
    BY <1>3 DEF Collect, local, lab, files
  <2>2. \A q \in Procs : \A r : Overwrites(q, r) => Overwrites(q, r)'
    BY <2>1, OverwritesStill
  <2>3. \A r : OfItsTree(r) /\ Lies(r) => Lies(r)'
    BY <2>1 DEF OfItsTree, Lies, Content
  <2> QED BY <2>1, <2>2, <2>3, CacheStays, QuietHas
<1>4. CASE UNCHANGED vars
  <2>1. \A q \in Procs : \A r : Overwrites(q, r) => Overwrites(q, r)'
    BY <1>4, OverwritesStill DEF vars
  <2> QED BY <1>4, <2>1, CacheStays, LiesStill, QuietHas DEF vars
<1> QED BY <1>1, <1>2, <1>3, <1>4

LEMMA CacheStep ==
  ASSUME Quiet, [Next]_vars, ~disturbed'
  PROVE  CacheInv'
<1>1. ASSUME NEW p \in Procs,
             \/ \E r \in Requests : Identify(p, r)
             \/ Load(p) \/ Wake(p) \/ Miss(p) \/ Stage(p) \/ Sync(p) \/ Hash(p) \/ Create(p)
             \/ Breaks(p)
      PROVE  CacheInv'
  <2>1. UNCHANGED <<out, remote, stores, cache>>
    BY <1>1, BreaksQuietly DEF Identify, Load, Wake, Miss, Stage, Sync, Hash, Create, lab, target,
       files
  <2> QED BY <1>1, <2>1, CacheRests DEF Works
<1> QED BY <1>1, CacheMade, WriteCache, RenameCache, WorldCache DEF Next, Works

LEMMA TmpStep ==
  ASSUME Quiet, [Next]_vars, ~disturbed'
  PROVE  TmpInv'
<1>1. ASSUME tmp' = tmp,
             \A q \in Procs : pc[q] = "rename" /\ req[q].native =>
               /\ pc'[q] = "rename" /\ req'[q] = req[q] /\ source'[q] = source[q]
               /\ hash'[q] = hash[q] /\ built'[q] = built[q]
      PROVE  TmpInv'
  <2>1. \A q \in Procs : Renames(q) => Renames(q)'
    BY <1>1 DEF Renames, NewRecord, ShippedPath, Directory
  <2> QED BY <1>1, <2>1, QuietHas DEF TmpInv, OfItsTree
<1>2. ASSUME NEW p \in Procs, Works(p), tmp' = tmp PROVE TmpInv'
  BY <1>1, <1>2, StillSaving
<1>3. ASSUME NEW p \in Procs, Create(p) \/ Rename(p) PROVE TmpInv'
  <2>1. tmp' = Torn \/ tmp' = NoFile
    BY <1>3 DEF Create, Rename
  <2>2. tmp'.kind # "whole"
    BY <2>1 DEF Torn, NoFile
  <2> QED BY <2>2 DEF TmpInv
<1>4. ASSUME NEW p \in Procs, Write(p), tmp' \in Written(tmp, p) PROVE TmpInv'
  <2>1. PICK r : r = NewRecord(p)
    OBVIOUS
  <2>2. OfItsTree(r) /\ pc'[p] = "rename" /\ UNCHANGED <<req, source, hash, built>>
    BY <1>4, <2>1, SavedLies, QuietHas DEF Write, At, Goes, Saving, local, TypeInv, CountersTyped
  <2>3. r.path.at # "store" => req[p].native
    BY <2>1 DEF NewRecord, ShippedPath
  <2>4. tmp'.kind = "whole" => tmp'.rec = r
    BY <1>4, <2>1 DEF Written, Torn
  <2>5. tmp'.kind = "whole" /\ r.path.at # "store" => Renames(p)'
    BY <2>1, <2>2, <2>3, <2>4 DEF Renames, NewRecord, ShippedPath, Directory
  <2> QED BY <2>2, <2>4, <2>5 DEF TmpInv, OfItsTree
<1>5. ASSUME NEW p \in Procs, Hit(p) PROVE TmpInv'
  <2>1. tmp' = tmp /\ pc[p] = "check"
    BY <1>5 DEF Hit, At, files
  <2> QED BY <1>1, <1>5, <2>1, Alone, QuietHas
<1>6. CASE \/ \E s \in Sources : Edit(s)
           \/ Collect \/ UNCHANGED vars
  BY <1>1, <1>6 DEF Edit, Collect, local, files, vars
<1>7. ASSUME NEW p \in Procs, Works(p) PROVE TmpInv'
  <2>1. CASE Write(p)
    BY <1>2, <1>4, <1>7, <2>1 DEF Write
  <2>2. CASE Create(p)
    BY <1>3, <2>2
  <2>3. CASE ~Create(p) /\ ~Write(p)
    <3>1. tmp' = tmp
      BY <1>7, <2>3 DEF Works, Identify, Load, Wake, Miss, Stage, Sync, Build, Hash, Ship, Breaks,
         files
    <3> QED BY <1>2, <1>7, <3>1
  <2> QED BY <2>1, <2>2, <2>3
<1> QED BY <1>3, <1>5, <1>6, <1>7 DEF Next

\* Once something was disturbed, it stays so.
LEMMA DisturbedStays ==
  ASSUME TypeInv, [Next]_vars, disturbed
  PROVE  disturbed'
BY DEF Next, Works, Identify, Load, Wake, Hit, Miss, Stage, Sync, Build, Hash, Ship, Create, Write,
   Rename, Breaks, Edit, Collect, truth, vars

LEMMA GenuineStep ==
  ASSUME OneTree, TypeInv, ApartInv, GenuineInv, [Next]_vars
  PROVE  GenuineInv'
<1>1. BuiltHash' /\ LoadedFits' /\ FilesName' /\ AnswersAreGenuine'
  BY BuiltHashStep, LoadedFitsStep, FilesNameStep, AnswerStep DEF GenuineInv
<1>2. ~disturbed' => WorkInv' /\ CacheInv' /\ TmpInv'
  BY WorkStep, CacheStep, TmpStep, DisturbedStays DEF Quiet
<1> QED BY <1>1, <1>2 DEF GenuineInv

\* What `place` answers with is the artifact of the tree it identified, fresh or from the
\* record, and hashes to what it says, however placements overlap, fail and are killed: as
\* long as no tree is edited under a placement and no native one breaks off from its build on.
THEOREM GenuineAnswers == OneTree => (Spec => []AnswersAreGenuine)
<1> SUFFICES ASSUME OneTree PROVE Spec => []AnswersAreGenuine
  OBVIOUS
<1>1. Init => ApartInv /\ GenuineInv
  BY DEF Init, ApartInv, GenuineInv, BuiltHash, LoadedFits, FilesName, AnswersAreGenuine, NoAnswer,
     WorkInv, Fine, CacheInv, TmpInv, NoFile, Late, Checks
<1>2. TypeInv /\ ApartInv /\ GenuineInv /\ [Next]_vars => ApartInv' /\ GenuineInv'
  BY ApartStep, GenuineStep
<1>3. GenuineInv => AnswersAreGenuine
  BY DEF GenuineInv
<1> QED BY <1>1, <1>2, <1>3, TypeInvariant, PTL DEF Spec
==============================================================================
