------------------------------ MODULE Placement ------------------------------
(***************************************************************************)
(* The artifact pipeline: `pipeline::place`, run by any number of `ui-box` *)
(* processes for one project.  Each identifies the tree under test, asks   *)
(* the cache for a placement of that tree, and otherwise syncs the tree    *)
(* into a staging directory of the lab, builds there, hashes what came     *)
(* out, ships it to the target and records it.  They share the staging     *)
(* directory, what a native build leaves in it, the path they ship a       *)
(* native artifact to, and the record; meanwhile the tree is edited, store *)
(* paths are collected, and any of them may fail or be killed anywhere.    *)
(*                                                                         *)
(* Builds are reproducible: an artifact is named by the tree it was built  *)
(* from.  So is a tree's identity (HEAD and diff hash) and an artifact's   *)
(* hash.                                                                   *)
(***************************************************************************)
EXTENDS Naturals, FiniteSets

CONSTANTS
  Procs,          \* processes of ui-box on this host
  Files,          \* of a tree
  Vers,           \* what a file can contain
  Requests,       \* what they ask for
  Layouts,        \* how the staging directory lies to the lab's own checkout
  MaxPlacements,  \* bound on placements begun
  MaxTogether,    \* bound on those that overlap: later ones begin when all others ended
  MaxEdits,       \* bound on edits of a file
  MaxLosses       \* bound on what is collected

Tree    == [Files -> Vers]
Sources == {"host", "lab"}      \* --source or the project root; --lab-checkout
Request == [source : Sources,
            native : BOOLEAN,   \* a build command is given
            same   : BOOLEAN]   \* the target is the lab that builds

\* The staging directory: apart from the lab's own checkout, below it (a project root in
\* the home directory), the checkout or above it by its name, or so by a link.
Layout == {"apart", "below", "inside", "linked"}

None == [f \in Files |-> "none"]     \* no artifact
Maybe == Tree \cup {None}

ASSUME PlacementOK ==
  /\ IsFiniteSet(Files) /\ Files # {} /\ "none" \notin Vers
  /\ Requests \subseteq Request /\ Requests # {} /\ Layouts \subseteq Layout
  /\ MaxPlacements \in Nat /\ MaxTogether \in Nat /\ MaxEdits \in Nat /\ MaxLosses \in Nat

\* Where an artifact can lie: a store path, what a native build left in a directory of
\* the lab, or the one path of the target that native artifacts of a project go to.
Places == {"store", "staging", "checkout", "remote"}
Path   == [at : Places, tree : Maybe]     \* tree: the name of a store path

\* A record names what was placed for which tree; the file may also be torn.
Record == [source : Tree, hash : Tree, path : Path, same : BOOLEAN]
NoRecord == [source |-> None, hash |-> None, path |-> [at |-> "store", tree |-> None],
             same |-> FALSE]
File == [kind : {"none", "torn", "whole"}, rec : Record \cup {NoRecord}]
NoFile == [kind |-> "none", rec |-> NoRecord]
Torn   == [kind |-> "torn", rec |-> NoRecord]

VARIABLES
  trees,      \* the tree on the host, and the checkout of the lab
  layout,
  staging,    \* of the lab, per file
  out,        \* what native builds left in the staging directory and in the checkout
  remote,     \* the artifact at the shared path of the target
  stores,     \* store paths of the lab and of the target
  cache, tmp, \* the record, and the file it is written to before
  pc, req, source, loaded, synced, built, hash, handle,   \* of each process
  answer,     \* what a process answers with in this very step
  begun, edits, losses,
  placed,     \* the record of every placement that was shipped, and
  disturbed   \* whether a tree was edited under a placement, or a native placement
              \* broke off from its build on (history variables)

vars == <<trees, layout, staging, out, remote, stores, cache, tmp, pc, req, source, loaded,
          synced, built, hash, handle, answer, begun, edits, losses, placed, disturbed>>

lab    == <<trees, layout, staging, out>>
target == <<remote, stores>>
files  == <<cache, tmp, handle>>
local  == <<req, source, loaded, synced, built, hash>>
bounds == <<begun, edits, losses>>
truth  == <<placed, disturbed>>

AnyRequest == CHOOSE r \in Requests : TRUE

NoAnswer == [given |-> FALSE, cached |-> FALSE, source |-> None, rec |-> NoRecord,
             content |-> None]

TypeOK ==
  /\ trees \in [Sources -> Tree] /\ layout \in Layout
  /\ staging \in [Files -> Vers \cup {"none"}]
  /\ out \in [{"staging", "checkout"} -> [Files -> Vers \cup {"none"}]]
  /\ remote \in [Files -> Vers \cup {"none"}]
  /\ stores \in [{"lab", "target"} -> SUBSET Tree]
  /\ cache \in File /\ tmp \in File
  /\ pc \in [Procs -> {"idle", "load", "wake", "check", "stage", "sync", "build", "hash",
                       "ship", "create", "write", "rename"}]
  /\ req \in [Procs -> Request]
  /\ source \in [Procs -> Maybe] /\ loaded \in [Procs -> Record \cup {NoRecord}]
  /\ synced \in [Procs -> SUBSET Files]
  /\ built \in [Procs -> Maybe] /\ hash \in [Procs -> Maybe]
  /\ handle \in [Procs -> {"none", "tmp", "cache", "gone"}]
  /\ answer \in [given : BOOLEAN, cached : BOOLEAN, source : Maybe,
                 rec : Record \cup {NoRecord}, content : Maybe]
  /\ begun \in 0 .. MaxPlacements /\ edits \in 0 .. MaxEdits /\ losses \in 0 .. MaxLosses
  /\ placed \subseteq Record /\ disturbed \in BOOLEAN

Init ==
  /\ trees \in {[s \in Sources |-> t] : t \in Tree} /\ layout \in Layouts
  /\ staging = None /\ remote = None
  /\ out = [d \in {"staging", "checkout"} |-> None]
  /\ stores = [l \in {"lab", "target"} |-> {}]
  /\ cache = NoFile /\ tmp = NoFile
  /\ pc = [p \in Procs |-> "idle"]
  /\ req = [p \in Procs |-> AnyRequest]
  /\ source = [p \in Procs |-> None] /\ loaded = [p \in Procs |-> NoRecord]
  /\ synced = [p \in Procs |-> {}]
  /\ built = [p \in Procs |-> None] /\ hash = [p \in Procs |-> None]
  /\ handle = [p \in Procs |-> "none"]
  /\ answer = NoAnswer
  /\ begun = 0 /\ edits = 0 /\ losses = 0
  /\ placed = {} /\ disturbed = FALSE

-----------------------------------------------------------------------------
\* The locals of `place` end with it.
Forgets(p) == /\ req' = [req EXCEPT ![p] = AnyRequest]
              /\ source' = [source EXCEPT ![p] = None]
              /\ loaded' = [loaded EXCEPT ![p] = NoRecord]
              /\ synced' = [synced EXCEPT ![p] = {}]
              /\ built' = [built EXCEPT ![p] = None]
              /\ hash' = [hash EXCEPT ![p] = None]

At(p, here) == pc[p] = here
Goes(p, there) == pc' = [pc EXCEPT ![p] = there]

\* The machine a store path of this request is looked for on.
TargetOf(same) == IF same THEN "lab" ELSE "target"

\* What lies at a path of the target, if anything does.
Content(pa, same) ==
  IF pa.at = "store"
    THEN IF pa.tree \in stores[TargetOf(same)] THEN pa.tree ELSE None
  ELSE IF pa.at = "remote" THEN remote ELSE out[pa.at]

\* provenance::local_source, or provenance::source in the lab's checkout.
Identify(p, r) ==
  /\ At(p, "idle") /\ begun < MaxPlacements
  /\ begun < MaxTogether \/ \A q \in Procs : At(q, "idle")
  /\ req' = [req EXCEPT ![p] = r]
  /\ source' = [source EXCEPT ![p] = trees[r.source]]
  /\ begun' = begun + 1 /\ Goes(p, "load")
  /\ UNCHANGED <<lab, target, files, loaded, synced, built, hash, edits, losses, truth>>

\* Record::matches, on what CacheStore::load could parse.
MatchesLabs(p) ==
  /\ cache.kind = "whole"
  /\ cache.rec.same = req[p].same

Matches(p) ==
  /\ cache.kind = "whole"
  /\ cache.rec.source = source[p]
  /\ cache.rec.same = req[p].same

AfterLoad(p) == IF req[p].source = "host" THEN "stage" ELSE "build"

\* `place` goes on with the record it has loaded, whatever becomes of the file.
Load(p) ==
  /\ At(p, "load")
  /\ IF Matches(p)
       THEN loaded' = [loaded EXCEPT ![p] = cache.rec] /\ Goes(p, "wake")
       ELSE Goes(p, AfterLoad(p)) /\ UNCHANGED loaded
  /\ UNCHANGED <<lab, target, files, req, source, synced, built, hash, bounds, truth>>

Wake(p) ==
  /\ At(p, "wake") /\ Goes(p, "check")
  /\ UNCHANGED <<lab, target, files, local, bounds, truth>>

Answers(p, rec, cached) ==
  /\ answer' = [given |-> TRUE, cached |-> cached, source |-> source[p], rec |-> rec,
                content |-> Content(rec.path, req[p].same)]
  /\ Forgets(p) /\ Goes(p, "idle")

\* host::path_exists: an ssh that fails is a path that is not there.
Exists(p) == Content(loaded[p].path, req[p].same) # None

Hit(p) ==
  /\ At(p, "check") /\ Exists(p)
  /\ Answers(p, loaded[p], TRUE)
  /\ UNCHANGED <<lab, target, files, bounds, truth>>

Miss(p) ==
  /\ At(p, "check")
  /\ Goes(p, AfterLoad(p))
  /\ UNCHANGED <<lab, target, files, local, bounds, truth>>

-----------------------------------------------------------------------------
\* sync::stage: refuse_overlap compares the names, PREPARE_SCRIPT what they resolve to.
NamesApart     == layout # "inside"
ResolveApart   == layout # "linked"
StagingIsApart == NamesApart /\ ResolveApart

Stage(p) ==
  /\ At(p, "stage") /\ StagingIsApart
  /\ Goes(p, "sync")
  /\ UNCHANGED <<lab, target, files, local, bounds, truth>>

\* rsync copies file by file, reading the tree as it goes.  Below the checkout it writes no
\* file of it: what it copies there brings its own .git, and git leaves a repository within
\* another one out of the tree it identifies.
Sync(p) ==
  /\ At(p, "sync")
  /\ \E f \in Files \ synced[p] :
       /\ staging' = [staging EXCEPT ![f] = trees["host"][f]]
       /\ trees' = IF layout \in {"apart", "below"} THEN trees
                   ELSE [trees EXCEPT !["lab"] = [@ EXCEPT ![f] = trees["host"][f]]]
       /\ synced' = [synced EXCEPT ![p] = @ \cup {f}]
       /\ Goes(p, IF Files = synced[p] \cup {f} THEN "build" ELSE "sync")
  /\ UNCHANGED <<layout, out, target, files, req, source, loaded, built, hash, bounds, truth>>

Directory(p) == IF req[p].source = "host" THEN "staging" ELSE "checkout"
TreeIn(p)    == IF req[p].source = "host" THEN staging ELSE trees["lab"]

\* builder::build: a native build leaves its artifact where it built, nix in the store,
\* with nothing that keeps it there (--no-link).
Build(p) ==
  /\ At(p, "build") /\ Goes(p, "hash")
  /\ built' = [built EXCEPT ![p] = TreeIn(p)]
  /\ IF req[p].native
       THEN out' = [out EXCEPT ![Directory(p)] = TreeIn(p)] /\ UNCHANGED stores
       ELSE stores' = [stores EXCEPT !["lab"] = @ \cup {TreeIn(p)}] /\ UNCHANGED out
  /\ UNCHANGED <<trees, layout, staging, remote, files, req, source, loaded, synced, hash,
                 bounds, truth>>

\* The artifact, as it now is in the lab.
Artifact(p) == IF req[p].native THEN out[Directory(p)]
               ELSE IF built[p] \in stores["lab"] THEN built[p] ELSE None

AnyHash(p)  == TRUE
Readable(p) == Artifact(p) # None

\* An artifact is shipped before its record is saved.
SavedFirst(p) == "create"
AfterHash(p)  == "ship"

Hash(p) ==
  /\ At(p, "hash") /\ Readable(p)
  /\ hash' = [hash EXCEPT ![p] = Artifact(p)]
  /\ Goes(p, AfterHash(p))
  /\ UNCHANGED <<lab, target, files, req, source, loaded, synced, built, bounds, truth>>

\* host::wake and ship::ship: nothing to do where the target is the lab, nix copy, or a
\* copy to the shared path (after the store paths it refers to).
ShippedPath(p) ==
  [at   |-> IF ~req[p].native THEN "store"
            ELSE IF req[p].same THEN Directory(p) ELSE "remote",
   tree |-> IF req[p].native THEN None ELSE built[p]]

NewRecord(p) ==
  [source |-> source[p], hash |-> hash[p], path |-> ShippedPath(p), same |-> req[p].same]

Ship(p) ==
  /\ At(p, "ship") /\ Readable(p)
  /\ placed' = placed \cup {NewRecord(p)}
  /\ remote' = IF req[p].native /\ ~req[p].same THEN Artifact(p) ELSE remote
  /\ stores' = IF req[p].native \/ req[p].same THEN stores
               ELSE [stores EXCEPT !["target"] = @ \cup {built[p]}]
  /\ Goes(p, "create")
  /\ UNCHANGED <<lab, files, req, source, loaded, synced, built, hash, bounds, disturbed>>

-----------------------------------------------------------------------------
\* CacheStore::save: std::fs::write opens and truncates the one temporary file, then
\* writes it; std::fs::rename puts it in the place of the record.  A handle follows its
\* file wherever it is renamed to.
Create(p) ==
  /\ At(p, "create") /\ Goes(p, "write")
  /\ tmp' = Torn
  /\ handle' = [handle EXCEPT ![p] = "tmp"]
  /\ UNCHANGED <<lab, target, cache, local, bounds, truth>>

\* Over what another has written meanwhile, a shorter record leaves a tail.
Written(old, p) ==
  IF old.kind = "whole" THEN {Torn, [kind |-> "whole", rec |-> NewRecord(p)]}
  ELSE {[kind |-> "whole", rec |-> NewRecord(p)]}

Write(p) ==
  /\ At(p, "write") /\ Goes(p, "rename")
  /\ \/ handle[p] = "tmp" /\ tmp' \in Written(tmp, p) /\ UNCHANGED cache
     \/ handle[p] = "cache" /\ cache' \in Written(cache, p) /\ UNCHANGED tmp
     \/ handle[p] = "gone" /\ UNCHANGED <<cache, tmp>>
  /\ handle' = [handle EXCEPT ![p] = "none"]
  /\ UNCHANGED <<lab, target, local, bounds, truth>>

Rename(p) ==
  /\ At(p, "rename") /\ tmp # NoFile
  /\ cache' = tmp /\ tmp' = NoFile
  /\ handle' = [q \in Procs |-> IF handle[q] = "tmp" THEN "cache"
                                ELSE IF handle[q] = "cache" THEN "gone" ELSE handle[q]]
  /\ Answers(p, NewRecord(p), FALSE)
  /\ UNCHANGED <<lab, target, bounds, truth>>

-----------------------------------------------------------------------------
\* A native build that breaks off may have removed or replaced what it builds.
Leaves(p) ==
  {out} \cup (IF At(p, "build") /\ req[p].native
                THEN {[out EXCEPT ![Directory(p)] = t] : t \in {None, TreeIn(p)}} ELSE {})

\* Any step may fail, and ends the placement; so does being killed.
Breaks(p) ==
  /\ ~At(p, "idle") /\ Goes(p, "idle")
  /\ handle' = [handle EXCEPT ![p] = "none"]
  /\ out' \in Leaves(p)
  /\ disturbed' = \/ disturbed
                  \/ req[p].native /\ pc[p] \in {"build", "hash", "ship", "create", "write",
                                                "rename"}
  /\ Forgets(p)
  /\ UNCHANGED <<trees, layout, staging, target, cache, tmp, bounds, placed>>

\* A file of a tree is edited.
Edit(s) ==
  /\ edits < MaxEdits
  /\ \E f \in Files : \E v \in Vers \ {trees[s][f]} :
       trees' = [trees EXCEPT ![s] = [@ EXCEPT ![f] = v]]
  /\ edits' = edits + 1
  /\ disturbed' = \/ disturbed
                  \/ \E p \in Procs : ~At(p, "idle") /\ req[p].source = s
  /\ UNCHANGED <<layout, staging, out, target, files, pc, local, begun, losses, placed>>

\* Nix collects what nothing keeps; somebody cleans the cache directory of the target.
Collect ==
  /\ losses < MaxLosses /\ losses' = losses + 1
  /\ \/ \E l \in {"lab", "target"} : \E t \in stores[l] :
          stores' = [stores EXCEPT ![l] = @ \ {t}] /\ UNCHANGED remote
     \/ remote # None /\ remote' = None /\ UNCHANGED stores
  /\ UNCHANGED <<lab, files, pc, local, begun, edits, truth>>

Works(p) == \/ \E r \in Requests : Identify(p, r)
            \/ Load(p) \/ Wake(p) \/ Miss(p) \/ Stage(p) \/ Sync(p) \/ Build(p) \/ Hash(p)
            \/ Ship(p) \/ Create(p) \/ Write(p) \/ Breaks(p)

Next == \/ \E p \in Procs : Hit(p) \/ Rename(p)
        \/ /\ answer' = NoAnswer
           /\ \/ \E p \in Procs : Works(p)
              \/ \E s \in Sources : Edit(s)
              \/ Collect

Spec == Init /\ [][Next]_vars

-----------------------------------------------------------------------------
(* Properties                                                               *)

\* Whatever fails, is killed or overlaps: a record that can be parsed is that of one
\* placement that was shipped, its tree, hash and path together (CacheStore::save comes
\* last, and writes beside the record, in a file that all of them share).
RecordIsPlaced ==
  \A f \in {cache, tmp} : f.kind = "whole" => f.rec \in placed

\* What `place` answers with is the artifact of the tree it identified, fresh or cached,
\* and hashes to what it says: as long as no tree is edited under a placement, and no native
\* placement breaks off from its build on, when it may have replaced what the record of
\* another tree names.  In the store the hash is true in any case.
AnswersAreGenuine ==
  answer.given =>
    /\ answer.rec.source = answer.source
    /\ ~disturbed /\ (answer.cached \/ answer.content # None) =>
         answer.content = answer.source /\ answer.rec.hash = answer.source
    /\ answer.rec.path.at = "store" => answer.rec.hash = answer.rec.path.tree

-----------------------------------------------------------------------------
(* What the code does not promise (README, "Where the documents and the     *)
(* code part"): without the proviso of AnswersAreGenuine.                   *)
AnswersAreAlwaysGenuine ==
  answer.given /\ answer.content # None => answer.content = answer.source
==============================================================================
