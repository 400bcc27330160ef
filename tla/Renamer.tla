------------------------------ MODULE Renamer ------------------------------
(***************************************************************************)
(* The dedicated renamer.  A preview records, for every file of a          *)
(* directory, the name a pattern gives it, and a fingerprint of the files  *)
(* it saw.  Apply loads a preview, refuses it when the fingerprint no      *)
(* longer matches, chooses a final target per file (with a suffix where    *)
(* names collide and the user accepted that), renames the files one by     *)
(* one, moves their entries in the tag sidecar, and writes an operation    *)
(* manifest and the history index.  Rollback replays one manifest          *)
(* backwards; prune drops the oldest operations.                           *)
(*                                                                         *)
(* Sources: src/systems/renamer_preview*.c, renamer_apply.c,               *)
(* renamer_history_*.c, renamer_tags*.c and src/app/app_rename.c.          *)
(*                                                                         *)
(* A sidecar or an index that was cut short cannot be parsed and is loaded *)
(* as an empty one, and a manifest that was cut short cannot be rolled     *)
(* back, so a torn file is modelled as an empty or a missing one.          *)
(*                                                                         *)
(* The sidecar is a cJSON object, whose lookup, detach and delete ignore   *)
(* case, while the renamer compares paths with strcmp: two paths that      *)
(* differ in case only are two paths with one entry.                       *)
(***************************************************************************)
EXTENDS FileSystem, FiniteSets, SequencesExt

CONSTANTS Photos,       \* the identities of the files; two of them never have
                        \* the same modification time and size
          Home,         \* Home[f]: the path f is added to the directory at
          Key(_),       \* the path as case_insensitive_strcmp of cJSON sees it
          Patterns,     \* functions from files to the names a pattern gives
          MaxHistory,   \* RENAMER_HISTORY_MAX_ENTRIES
          MaxSuffix,    \* bound: largest collision suffix
          MaxClock,     \* bound: seconds that pass
          MaxFaults,    \* bound: calls that fail, and crashes
          MaxOps        \* bound: operations and user edits in a behaviour

NameRecord == [stem : STRING, sfx : Seq(Nat)]
PathRecord == [dir : STRING, stem : STRING, sfx : Seq(Nat)]

ASSUME LibraryAssumption ==
    /\ IsFiniteSet(Photos)
    /\ Home \in [Photos -> PathRecord]
    /\ \A f, g \in Photos : Home[f] = Home[g] => f = g
    /\ \A pattern \in Patterns : \A f \in Photos : pattern[f] \in NameRecord

ASSUME BoundAssumption ==
    /\ MaxHistory \in Nat \ {0} /\ MaxSuffix \in Nat /\ MaxClock \in Nat
    /\ MaxFaults \in Nat /\ MaxOps \in Nat

VARIABLES disk,        \* the files at their paths
          sidecar,     \* rename_tags.json: key -> the file the tags were given to
          previews,    \* rename_previews/: the artifacts saved so far
          manifests,   \* rename_history/<id>.json: operation id -> its moves
          index,       \* rename_history/index.json: entries, oldest first
          clock,       \* time(NULL), in seconds
          \* The operation that is running:
          pc,          \* where it is
          items,       \* the items of the preview being applied
          accept,      \* accept_auto_suffix
          step,        \* the item or move it is at
          targets,     \* final_targets
          moves,       \* the moves made, or the manifest being rolled back
          tags,        \* the sidecar in memory
          opid,        \* the operation being rolled back
          unrestored,  \* skipped_count + failed_count of the rollback
          faults, ops,
          \* History, which the program does not keep:
          start,       \* the disk when the running operation began
          promised,    \* what a preflight said when the rollback began
          sound,       \* no call has failed and there was no crash
          deleted,     \* the user has deleted a file
          distinct     \* no two files were ever, even between two renames, at
                       \* paths that differ in case only

vars == <<disk, sidecar, previews, manifests, index, clock, pc, items, accept, step,
          targets, moves, tags, opid, unrestored, faults, ops, start, promised, sound,
          deleted, distinct>>
local == <<items, accept, step, targets, moves, tags, opid, unrestored>>
store == <<sidecar, previews, manifests, index>>
ghost == <<start, promised, sound, deleted, distinct>>

Idle      == pc = "idle"
Fault     == faults < MaxFaults /\ faults' = faults + 1 /\ sound' = FALSE
NoFault   == UNCHANGED <<faults, sound>>
Operation == ops < MaxOps /\ ops' = ops + 1

CaseDistinct(d) == \A p, q \in DOMAIN d : Key(p) = Key(q) => p = q

NoTags == <<>>
NoId   == [at |-> 0, print |-> <<>>]

Init ==
    /\ \E present \in SUBSET Photos :
          disk = [p \in {Home[f] : f \in present} |-> CHOOSE f \in Photos : Home[f] = p]
    /\ sidecar = NoTags /\ previews = {} /\ manifests = <<>> /\ index = <<>>
    /\ clock = 0 /\ pc = "idle"
    /\ items = <<>> /\ accept = FALSE /\ step = 1 /\ targets = <<>> /\ moves = <<>>
    /\ tags = NoTags /\ opid = NoId /\ unrestored = 0
    /\ faults = 0 /\ ops = 0
    /\ start = disk /\ promised = FALSE /\ sound = TRUE /\ deleted = FALSE
    /\ distinct = CaseDistinct(disk)
-----------------------------------------------------------------------------
(* The user, and time, between operations.                                 *)

Tick ==
    /\ Idle /\ clock < MaxClock
    /\ clock' = clock + 1
    /\ UNCHANGED <<disk, pc, faults, ops>> /\ UNCHANGED <<store, local, ghost>>

UserDeletes ==
    /\ Idle /\ Operation
    /\ \E p \in DOMAIN disk : disk' = [q \in DOMAIN disk \ {p} |-> disk[q]]
    /\ deleted' = TRUE
    /\ UNCHANGED <<clock, pc, faults, start, promised, sound, distinct>>
    /\ UNCHANGED <<store, local>>

UserAdds ==
    /\ Idle /\ Operation
    /\ \E f \in Photos \ FilesOn(disk) :
          /\ ~Exists(disk, Home[f])
          /\ disk' = [p \in DOMAIN disk \cup {Home[f]} |->
                         IF p = Home[f] THEN f ELSE disk[p]]
    /\ distinct' = (distinct /\ CaseDistinct(disk'))
    /\ UNCHANGED <<clock, pc, faults, start, promised, sound, deleted>>
    /\ UNCHANGED <<store, local>>
-----------------------------------------------------------------------------
(* AppPreviewRename.                                                       *)

(* The path a pattern gives a file: its own directory and the new name. *)
CandidatePath(pattern, path, f) ==
    [dir |-> path.dir, stem |-> pattern[f].stem, sfx |-> pattern[f].sfx]

(* RenamerPreviewDetectCollisions: a candidate of two items, or a candidate *)
(* that exists and is not the item's own path.                              *)
Collides(list, i) ==
    \/ \E j \in DOMAIN list \ {i} : list[j].candidate = list[i].candidate
    \/ Exists(disk, list[i].candidate) /\ list[i].candidate # list[i].source

(* RenamerTagsApplyBulkCsv makes an entry for every previewed path that    *)
(* has none; the first of two paths that share one is given it.            *)
EnsureEntries(old, list) ==
    [k \in DOMAIN old \cup {Key(list[i]) : i \in DOMAIN list} |->
        IF k \in DOMAIN old THEN old[k]
        ELSE disk[list[CHOOSE i \in DOMAIN list :
                          /\ Key(list[i]) = k
                          /\ \A j \in 1 .. i - 1 : Key(list[j]) # k]]]

(* The files are listed in path order; the order of names is not modelled, *)
(* so any order is possible.                                               *)
Preview ==
    /\ Idle /\ Operation
    /\ \E list \in SetToSeqs(DOMAIN disk) :
          \/ /\ NoFault
             /\ sidecar' = EnsureEntries(sidecar, list)
             /\ \E pattern \in Patterns :
                  LET made == [i \in DOMAIN list |->
                                 [source |-> list[i], file |-> disk[list[i]],
                                  candidate |-> CandidatePath(pattern, list[i], disk[list[i]])]]
                  IN previews' = previews \cup
                        {[items |-> made,
                          collisions |-> \E i \in DOMAIN made : Collides(made, i)]}
          \/ /\ Fault
             /\ sidecar' \in {sidecar, NoTags, EnsureEntries(sidecar, list)}
             /\ UNCHANGED previews
    /\ UNCHANGED <<disk, manifests, index, clock, pc, start, promised, deleted, distinct>>
    /\ UNCHANGED local
-----------------------------------------------------------------------------
(* AppApplyRename.                                                         *)

(* Mutant: the fingerprint only requires that the sources exist. *)
PathsMatch(list) == \A i \in DOMAIN list : Exists(disk, list[i].source)

(* RenamerPreviewRecomputeFingerprint agrees with the stored fingerprint:  *)
(* every source exists and is the file it was.                             *)
FingerprintMatches(list) ==
    \A i \in DOMAIN list :
       Exists(disk, list[i].source) /\ disk[list[i].source] = list[i].file

ApplyBegin ==
    /\ Idle /\ Operation
    /\ \E preview \in previews :
          /\ FingerprintMatches(preview.items)
          /\ accept' \in BOOLEAN
          /\ preview.collisions => accept'
          /\ items' = preview.items
    /\ step' = 1 /\ targets' = <<>> /\ moves' = <<>>
    /\ pc' = "plan"
    /\ start' = disk
    /\ UNCHANGED <<disk, clock, tags, opid, unrestored, faults, promised, sound, deleted,
                   distinct>>
    /\ UNCHANGED store

Sources(list) == {list[i].source : i \in DOMAIN list}
Chosen        == {targets[i] : i \in DOMAIN targets}

(* HasPathConflict: the item's own source is never in conflict; any other  *)
(* path is when an earlier item chose it, when it is the source of another *)
(* item, or when it exists.                                                *)
HasPathConflict(path, source) ==
    /\ path # source
    /\ path \in Chosen \/ path \in Sources(items) \/ Exists(disk, path)

(* The targets are chosen one by one before any file is renamed; without   *)
(* the acceptance flag a conflict ends the operation.                      *)
PlanItem ==
    /\ pc = "plan" /\ step \in DOMAIN items
    /\ LET item == items[step]
           Free(n) == ~HasPathConflict(Candidate(item.candidate, n), item.source) IN
       \/ \E n \in 0 .. MaxSuffix :
             /\ n > 0 => accept
             /\ Free(n) /\ \A m \in 0 .. n - 1 : ~Free(m)
             /\ targets' = Append(targets, Candidate(item.candidate, n))
             /\ step' = step + 1 /\ UNCHANGED pc
       \/ ~Free(0) /\ ~accept /\ pc' = "idle" /\ UNCHANGED <<targets, step>>
    /\ UNCHANGED <<disk, clock, items, accept, moves, tags, opid, unrestored, faults, ops>>
    /\ UNCHANGED <<store, ghost>>

LoadSidecar ==
    /\ pc = "plan" /\ step \notin DOMAIN items
    /\ tags' = sidecar
    /\ step' = 1 /\ pc' = "rename"
    /\ UNCHANGED <<disk, clock, items, accept, targets, moves, opid, unrestored, faults, ops>>
    /\ UNCHANGED <<store, ghost>>

(* Mutant: the new and the old path are swapped. *)
SwappedPathKey(old, new) ==
    tags' = IF Key(new) \in DOMAIN tags THEN RenameOn(tags, Key(new), Key(old)) ELSE tags

(* RenamerTagsMovePathKey: an entry takes the place of one already at the  *)
(* new path; without an entry at the old path nothing changes.             *)
MovePathKey(old, new) ==
    tags' = IF Key(old) \in DOMAIN tags THEN RenameOn(tags, Key(old), Key(new)) ELSE tags

(* Mutant: the move records the name before its collision suffix. *)
CandidateMove(item, target, renamed) ==
    [source |-> item.source, destination |-> item.candidate, renamed |-> renamed]

(* What the manifest will say of an item. *)
MoveOf(item, target, renamed) ==
    [source |-> item.source, destination |-> target, renamed |-> renamed]

RenameItem ==
    /\ pc = "rename" /\ step \in DOMAIN items
    /\ LET source == items[step].source
           target == targets[step]
           Record(renamed) == moves' = Append(moves, MoveOf(items[step], target, renamed)) IN
       \/ /\ source # target /\ Exists(disk, source) /\ NoFault
          /\ disk' = RenameOn(disk, source, target)
          /\ MovePathKey(source, target)
          /\ Record(TRUE)
       \/ /\ IF source # target /\ Exists(disk, source) THEN Fault ELSE NoFault
          /\ Record(FALSE)
          /\ UNCHANGED <<disk, tags>>
    /\ step' = step + 1
    /\ distinct' = (distinct /\ CaseDistinct(disk'))
    /\ UNCHANGED <<clock, pc, items, accept, targets, opid, unrestored, ops,
                   start, promised, deleted>>
    /\ UNCHANGED store

Renamed(list) == {i \in DOMAIN list : list[i].renamed}

(* The sidecar is written only when a file was renamed.  When that fails   *)
(* the operation ends in an error, with no manifest and no entry.          *)
SaveTags ==
    /\ pc = "rename" /\ step \notin DOMAIN items /\ NoFault
    /\ sidecar' = IF Renamed(moves) # {} THEN tags ELSE sidecar
    /\ pc' = "manifest"
    /\ UNCHANGED <<disk, previews, manifests, index, clock, ops, start, promised, deleted, distinct>>
    /\ UNCHANGED local

SaveTagsFails ==
    /\ pc = "rename" /\ step \notin DOMAIN items /\ Fault
    /\ Renamed(moves) # {}
    /\ sidecar' \in {sidecar, NoTags}
    /\ pc' = "idle"
    /\ UNCHANGED <<disk, previews, manifests, index, clock, ops, start, promised, deleted, distinct>>
    /\ UNCHANGED local

(* BuildOperationId: the second, and the preview's fingerprint. *)
OperationId == [at |-> clock, print |-> items]

Without(table, ids) == [id \in DOMAIN table \ ids |-> table[id]]

SaveManifest ==
    /\ pc = "manifest"
    /\ \/ /\ NoFault
          /\ manifests' = [id \in DOMAIN manifests \cup {OperationId} |->
                              IF id = OperationId THEN moves ELSE manifests[id]]
          /\ pc' = "index"
       \/ /\ Fault
          /\ manifests' \in {manifests, Without(manifests, {OperationId})}
          /\ pc' = "idle"
    /\ UNCHANGED <<disk, sidecar, previews, index, clock, ops, start, promised, deleted, distinct>>
    /\ UNCHANGED local

(* RenamerHistoryRemoveOldestHistoryEntry, until keep entries are left:    *)
(* the manifests of the oldest entries are removed with them, and only     *)
(* then is the index saved.                                                *)
Oldest(entries, keep) == {entries[i].id : i \in 1 .. Len(entries) - keep}
Newest(entries, keep) ==
    IF Len(entries) <= keep THEN entries
    ELSE SubSeq(entries, Len(entries) - keep + 1, Len(entries))

SaveIndex ==
    /\ pc = "index"
    /\ LET entry   == [id |-> OperationId, renamed |-> Cardinality(Renamed(moves)),
                     rolledBack |-> FALSE]
           entries == Append(index, entry) IN
          /\ manifests' = Without(manifests, Oldest(entries, MaxHistory))
          /\ \/ NoFault /\ index' = Newest(entries, MaxHistory)
             \/ Fault /\ index' \in {index, <<>>}
    /\ pc' = "idle"
    /\ UNCHANGED <<disk, sidecar, previews, clock, ops, start, promised, deleted, distinct>>
    /\ UNCHANGED local
-----------------------------------------------------------------------------
(* AppRollbackRename, AppPreflightRenameRollback, AppPruneRenameHistory.   *)

(* Mutants: an existing source is no conflict; one good item is enough. *)
RestorableOver(move) == move.renamed /\ Exists(disk, move.destination)
PartlyRestorable(list) ==
    \E i \in DOMAIN list : /\ list[i].renamed /\ Exists(disk, list[i].destination)
                           /\ ~Exists(disk, list[i].source)

(* RenamerHistoryRollbackPreflight: an item that was not renamed counts as *)
(* invalid, one whose destination is gone as missing, one whose source     *)
(* exists as a conflict.                                                   *)
Restorable(move) ==
    move.renamed /\ Exists(disk, move.destination) /\ ~Exists(disk, move.source)

FullyRestorable(list) ==
    list # <<>> /\ \A i \in DOMAIN list : Restorable(list[i])

RollbackBegin ==
    /\ Idle /\ Operation
    /\ \E id \in DOMAIN manifests :
          /\ opid' = id
          /\ moves' = manifests[id]
          /\ step' = Len(manifests[id])
          /\ promised' = FullyRestorable(manifests[id])
    /\ tags' = sidecar /\ unrestored' = 0
    /\ pc' = "restore"
    /\ start' = disk
    /\ UNCHANGED <<disk, clock, items, accept, targets, faults, sound, deleted, distinct>>
    /\ UNCHANGED store

(* From the last move to the first. *)
RestoreItem ==
    /\ pc = "restore" /\ step \in DOMAIN moves
    /\ LET move == moves[step] IN
       \/ /\ Restorable(move) /\ NoFault
          /\ disk' = RenameOn(disk, move.destination, move.source)
          /\ MovePathKey(move.destination, move.source)
          /\ UNCHANGED unrestored
       \/ /\ IF Restorable(move) THEN Fault ELSE NoFault
          /\ unrestored' = IF move.renamed THEN unrestored + 1 ELSE unrestored
          /\ UNCHANGED <<disk, tags>>
    /\ step' = step - 1
    /\ distinct' = (distinct /\ CaseDistinct(disk'))
    /\ UNCHANGED <<clock, pc, items, accept, targets, moves, opid, ops,
                   start, promised, deleted>>
    /\ UNCHANGED store

(* The sidecar is saved when a file was restored; when that fails the      *)
(* history keeps saying that the operation was not rolled back.            *)
RestoreTags ==
    /\ pc = "restore" /\ step \notin DOMAIN moves
    /\ \/ /\ NoFault
          /\ sidecar' = IF disk # start THEN tags ELSE sidecar
          /\ pc' = "mark"
       \/ /\ Fault /\ disk # start
          /\ sidecar' \in {sidecar, NoTags}
          /\ pc' = "idle"
    /\ UNCHANGED <<disk, previews, manifests, index, clock, ops, start, promised, deleted, distinct>>
    /\ UNCHANGED local

(* The first entry with this id says that it was rolled back. *)
Marked ==
    [i \in DOMAIN index |->
       IF index[i].id = opid /\ \A j \in 1 .. i - 1 : index[j].id # opid
       THEN [index[i] EXCEPT !.rolledBack = TRUE] ELSE index[i]]

(* The manifest is rewritten as it was (its "rollback" item is replaced,   *)
(* but no manifest has one); whether that succeeded is not looked at       *)
(* before the entry of the index is marked.                                *)
MarkRolledBack ==
    /\ pc = "mark"
    /\ \/ NoFault /\ index' = Marked /\ UNCHANGED manifests
       \/ /\ Fault
          /\ manifests' \in {manifests, Without(manifests, {opid})}
          /\ index' \in {Marked, index, <<>>}
    /\ pc' = "idle"
    /\ UNCHANGED <<disk, sidecar, previews, clock, ops, start, promised, deleted, distinct>>
    /\ UNCHANGED local

Prune ==
    /\ Idle /\ Operation
    /\ \E keep \in 0 .. MaxHistory :
          /\ manifests' = Without(manifests, Oldest(index, keep))
          /\ \/ NoFault /\ index' = Newest(index, keep)
             \/ Fault /\ index' \in {index, <<>>}
    /\ UNCHANGED <<disk, sidecar, previews, clock, pc, start, promised, deleted, distinct>>
    /\ UNCHANGED local

(* The process dies between two steps of an operation. *)
Crash ==
    /\ ~Idle /\ Fault
    /\ pc' = "idle"
    /\ UNCHANGED <<disk, clock, ops, start, promised, deleted, distinct>>
    /\ UNCHANGED <<store, local>>
-----------------------------------------------------------------------------
User     == Tick \/ UserDeletes \/ UserAdds
Apply    == \/ ApplyBegin \/ PlanItem \/ LoadSidecar \/ RenameItem
            \/ SaveTags \/ SaveTagsFails \/ SaveManifest \/ SaveIndex
Rollback == RollbackBegin \/ RestoreItem \/ RestoreTags \/ MarkRolledBack

Next == User \/ Preview \/ Apply \/ Rollback \/ Prune \/ Crash

Spec == Init /\ [][Next]_vars
-----------------------------------------------------------------------------
(* Properties.                                                             *)

ItemRecord == [source : PathRecord, file : Photos, candidate : PathRecord]
MoveRecord == [source : PathRecord, destination : PathRecord, renamed : BOOLEAN]
IdRecord   == [at : Nat, print : Seq(ItemRecord)]
Entry      == [id : IdRecord, renamed : Nat, rolledBack : BOOLEAN]
Ids(entries) == {entries[i].id : i \in DOMAIN entries}

DiskOK ==
    /\ DOMAIN disk \subseteq PathRecord /\ IsFiniteSet(DOMAIN disk)
    /\ FilesOn(disk) \subseteq Photos
    /\ \A p, q \in DOMAIN disk : disk[p] = disk[q] => p = q

PlanOK ==
    /\ \A preview \in previews : preview.items \in Seq(ItemRecord)
    /\ items \in Seq(ItemRecord)
    /\ targets \in Seq(PathRecord)
    /\ moves \in Seq(MoveRecord)

HistoryOK ==
    /\ \A id \in DOMAIN manifests : manifests[id] \in Seq(MoveRecord)
    /\ index \in Seq(Entry) /\ Len(index) <= MaxHistory

ControlOK ==
    /\ pc \in {"idle", "plan", "rename", "manifest", "index", "restore", "mark"}
    /\ step \in Nat /\ clock \in Nat

(* The values the program works with are of their kinds, no file is at two *)
(* paths, and the history never holds more than its cap.                   *)
TypeOK == DiskOK /\ PlanOK /\ HistoryOK /\ ControlOK

(* The targets chosen for a preview stay safe until they are used: no two  *)
(* items share one, none is another item's source, and none that is still  *)
(* to be used exists on the disk, whatever the renames before it did.      *)
PlanIsSafe ==
    pc \in {"plan", "rename"} =>
      \A i \in DOMAIN targets :
         /\ \A j \in DOMAIN targets \ {i} : targets[i] # targets[j]
         /\ \A j \in DOMAIN items \ {i} : targets[i] # items[j].source
         /\ \/ targets[i] = items[i].source
            \/ pc = "rename" /\ i < step
            \/ ~Exists(disk, targets[i])

(* Neither apply nor rollback ever overwrites or drops a file: the renamer *)
(* implements FileStore.                                                   *)
FS == INSTANCE FileStore WITH Contents <- Photos, busy <- (pc # "idle")
RenamesNeverOverwrite == FS!StoreSpec

(* A file is renamed only if it is the file the preview saw at that path,  *)
(* whatever the user and other operations did since the preview.           *)
RenamesWhatWasPreviewed ==
    [][pc = "rename" /\ disk' # disk => disk[items[step].source] = items[step].file]_vars

(* When the preflight promised a full rollback and no call failed, the     *)
(* rollback restored every move: each file is back at its source.          *)
PreflightIsSound ==
    pc = "mark" /\ promised /\ sound =>
      /\ unrestored = 0
      /\ \A i \in DOMAIN moves :
            /\ Exists(disk, moves[i].source)
            /\ disk[moves[i].source] = start[moves[i].destination]

(* An operation that renamed every item can be rolled back in full at the  *)
(* moment it is recorded: its moves name where each file was and is.       *)
FreshOperationIsRestorable ==
    pc \in {"manifest", "index"} /\ moves # <<>> /\ Renamed(moves) = DOMAIN moves =>
      /\ FullyRestorable(moves)
      /\ \A i \in DOMAIN moves : disk[moves[i].destination] = start[moves[i].source]

(* Tags follow their file through any sequence of previews, applies and    *)
(* rollbacks in which nothing failed, no file was deleted behind the       *)
(* program's back, and no two files were at paths that differ in case only *)
(* at any moment, those between the renames of one operation included: no  *)
(* entry is left behind or given to another file.                          *)
TagsFollowFiles ==
    Idle /\ sound /\ ~deleted /\ distinct =>
      \A k \in DOMAIN sidecar :
         \E p \in DOMAIN disk : Key(p) = k /\ sidecar[k] = disk[p]
=============================================================================
