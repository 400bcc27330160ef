----------------------------- MODULE Organizer -----------------------------
(***************************************************************************)
(* The organizer: AppExecuteOrganize plans one move per cache entry and    *)
(* carries the plan out one file at a time, keeping a journal of what it   *)
(* moved in memory; the journal is written to <env>/manifest.json once,    *)
(* after the last move.  AppRollback replays the manifest backwards from   *)
(* new path to original path.                                              *)
(*                                                                         *)
(* Sources: src/systems/organizer_planner.c, organizer_executor.c,         *)
(* organizer_manifest.c, src/app/app_organize.c, src/utils/fs_utils.c.     *)
(*                                                                         *)
(* One process runs at a time.  Between operations the user may delete or  *)
(* restore files and scan a directory into the cache (module ScanPipeline  *)
(* is about the scan itself; here a scan is its effect on the cache).      *)
(***************************************************************************)
EXTENDS FileSystem, FiniteSets, SequencesExt

CONSTANTS Photos,       \* the identities of the media files
          Home,         \* Home[f]: the path f is added to the library at
          Target,       \* Target[f]: the path its metadata and --group-by give
          Roots,        \* the directories a scan can be pointed at
          MaxSuffix,    \* bound: largest collision suffix
          MaxFaults,    \* bound: renames and opens that fail, and crashes
          MaxOps        \* bound: operations and user edits in a behaviour

PathRecord == [dir : STRING, stem : STRING, sfx : Seq(Nat)]

ASSUME LibraryAssumption ==
    /\ Photos # {} /\ IsFiniteSet(Photos)
    /\ Home \in [Photos -> PathRecord]
    /\ Target \in [Photos -> PathRecord]
    /\ \A f, g \in Photos : Home[f] = Home[g] => f = g
    /\ \A root \in Roots : root \subseteq STRING

ASSUME BoundAssumption ==
    MaxSuffix \in Nat /\ MaxFaults \in Nat /\ MaxOps \in Nat

VARIABLES disk,      \* the files at their paths
          cache,     \* the cache: its entries in key order, [path, file]
          root,      \* the directory the cache was built from
          manifest,  \* manifest.json: absent, torn (cut short), or whole
          journal,   \* g_manifest_array: the records of the running execution
          plan,      \* the moves of the running execution
          pc,        \* where the running operation is
          step,      \* the index of its next move or record
          flight,    \* the move between its two renames
          restored,  \* success_count of the running rollback
          reported,  \* executed_moves of the last execution's result; 0: an error
          faults, ops,
          \* History, which the program does not keep:
          start,     \* the disk when the last execution began
          intact     \* since then nothing failed and the user changed nothing

vars == <<disk, cache, root, manifest, journal, plan, pc, step, flight,
          restored, reported, faults, ops, start, intact>>
run  == <<journal, plan, step, flight, restored, reported>>

Idle == pc = "idle"

NoManifest == [state |-> "absent", records |-> <<>>]

NoFlight == [at |-> Home[CHOOSE f \in Photos : TRUE],
             to |-> Home[CHOOSE f \in Photos : TRUE],
             from |-> Home[CHOOSE f \in Photos : TRUE]]

Fault     == faults < MaxFaults /\ faults' = faults + 1 /\ intact' = FALSE
NoFault   == UNCHANGED <<faults, intact>>
Operation == ops < MaxOps /\ ops' = ops + 1

Init ==
    /\ disk = [p \in {Home[f] : f \in Photos} |-> CHOOSE f \in Photos : Home[f] = p]
    /\ cache = <<>> /\ root = {}
    /\ manifest = NoManifest
    /\ journal = <<>> /\ plan = <<>> /\ pc = "idle" /\ step = 1
    /\ flight = NoFlight /\ restored = 0 /\ reported = 0
    /\ faults = 0 /\ ops = 0
    /\ start = disk /\ intact = TRUE
-----------------------------------------------------------------------------
(* The user and the scan, between operations.                              *)

UserDeletes ==
    /\ Idle /\ Operation
    /\ \E p \in DOMAIN disk :
          disk' = [q \in DOMAIN disk \ {p} |-> disk[q]]
    /\ intact' = FALSE
    /\ UNCHANGED <<cache, root, manifest, pc, faults, start>> /\ UNCHANGED run

UserAdds ==
    /\ Idle /\ Operation
    /\ \E f \in Photos \ FilesOn(disk) :
          /\ ~Exists(disk, Home[f])
          /\ disk' = [p \in DOMAIN disk \cup {Home[f]} |->
                         IF p = Home[f] THEN f ELSE disk[p]]
    /\ intact' = FALSE
    /\ UNCHANGED <<cache, root, manifest, pc, faults, start>> /\ UNCHANGED run

(* The paths of a cache. *)
Keys(c) == {c[i].path : i \in DOMAIN c}

(* A scan of r starts from an empty cache when the cache was built from    *)
(* another directory (the stored profile does not match), refreshes the    *)
(* entry of every file it finds and appends the new ones in whatever order *)
(* its threads reach them.  Entries of files that are gone stay.           *)
Scan ==
    /\ Idle /\ Operation
    /\ \E r \in Roots :
         LET old   == IF r = root THEN cache ELSE <<>>
             found == {p \in DOMAIN disk : p.dir \in r}
             kept  == [i \in DOMAIN old |->
                          [path |-> old[i].path,
                           file |-> IF old[i].path \in found
                                    THEN disk[old[i].path] ELSE old[i].file]]
         IN \E added \in SetToSeqs(found \ Keys(old)) :
              /\ cache' = kept \o [i \in DOMAIN added |->
                                      [path |-> added[i], file |-> disk[added[i]]]]
              /\ root' = r
    /\ UNCHANGED <<disk, manifest, pc, faults, start, intact>> /\ UNCHANGED run
-----------------------------------------------------------------------------
(* AppExecuteOrganize.                                                     *)

(* OrganizerComputePlan: one move per cache entry, in key order. *)
ComputePlan == [i \in DOMAIN cache |->
                  [from |-> cache[i].path, to |-> Target[cache[i].file]]]

(* OrganizerInit creates an empty journal; the manifest of an earlier      *)
(* execution is neither read nor kept.                                     *)
ExecuteBegin ==
    /\ Idle /\ root # {} /\ Operation
    /\ plan' = ComputePlan
    /\ journal' = <<>>
    /\ step' = 1
    /\ pc' = "move"
    /\ start' = disk /\ intact' = TRUE
    /\ UNCHANGED <<disk, cache, root, manifest, flight, restored, reported, faults>>

(* The move probes for a target name that does not exist, then FsMoveFile  *)
(* renames the file into the target's directory under its old name, or     *)
(* under that name with a suffix when the directory has it already.        *)
MoveIntoDirectory ==
    /\ pc = "move" /\ step \in DOMAIN plan
    /\ LET move == plan[step] IN
       \E probe \in FirstFree(disk, move.to, MaxSuffix) :
       \E at \in FirstFree(disk, [move.from EXCEPT !.dir = move.to.dir], MaxSuffix) :
          \/ /\ Exists(disk, move.from) /\ NoFault
             /\ disk' = RenameOn(disk, move.from, at)
             /\ flight' = [at |-> at, to |-> probe, from |-> move.from]
             /\ pc' = "finalize"
             /\ UNCHANGED step
          \/ /\ IF Exists(disk, move.from) THEN Fault ELSE NoFault
             /\ step' = step + 1
             /\ UNCHANGED <<disk, flight, pc>>
    /\ UNCHANGED <<cache, root, manifest, journal, plan, restored, reported, ops, start>>

(* Mutants: the journal names the path between the two renames; the journal *)
(* keeps only its first record.                                             *)
RecordStaged(from, to) == journal' = Append(journal, [original |-> from, new |-> flight.at])
RecordFirst(from, to) ==
    journal' = IF journal = <<>> THEN <<[original |-> from, new |-> to]>> ELSE journal

(* OrganizerRecordMove. *)
RecordMove(from, to) == journal' = Append(journal, [original |-> from, new |-> to])

(* Mutant: the file keeps its old name, and the move is recorded all the same. *)
KeepOldName ==
    /\ pc = "finalize" /\ NoFault
    /\ RecordMove(flight.from, flight.at)
    /\ step' = step + 1
    /\ pc' = "move"
    /\ UNCHANGED <<disk, cache, root, manifest, plan, flight, restored, reported, ops, start>>

(* The second rename gives the file its structured name.  When it fails    *)
(* the file stays where the first rename left it, and nothing is recorded. *)
FinalizeName ==
    /\ pc = "finalize"
    /\ \/ /\ NoFault
          /\ disk' = RenameOn(disk, flight.at, flight.to)
          /\ RecordMove(flight.from, flight.to)
       \/ /\ Fault
          /\ UNCHANGED <<disk, journal>>
    /\ step' = step + 1
    /\ pc' = "move"
    /\ UNCHANGED <<cache, root, manifest, plan, flight, restored, reported, ops, start>>

(* AppExecuteOrganize returns an error when nothing was moved, and else     *)
(* reports executed_moves.                                                 *)
Return ==
    /\ pc' = "idle"
    /\ reported' = IF journal = <<>> THEN 0 ELSE Len(plan)
    /\ UNCHANGED <<disk, cache, root, journal, plan, step, flight, restored, ops, start>>

(* OrganizerSaveManifest: fopen with "w" truncates manifest.json, and the  *)
(* journal is written over it.  The caller ignores its result: when the    *)
(* file cannot be opened the execution still returns its success.          *)
OpenManifest ==
    /\ pc = "move" /\ step \notin DOMAIN plan /\ NoFault
    /\ manifest' = [state |-> "torn", records |-> <<>>]
    /\ pc' = "save"
    /\ UNCHANGED <<disk, cache, root, ops, start>> /\ UNCHANGED run

OpenManifestFails ==
    /\ pc = "move" /\ step \notin DOMAIN plan /\ Fault
    /\ UNCHANGED manifest
    /\ Return

WriteManifest ==
    /\ pc = "save" /\ NoFault
    /\ manifest' = [state |-> "whole", records |-> journal]
    /\ Return
-----------------------------------------------------------------------------
(* AppRollback.                                                            *)

Rollbackable == manifest.state = "whole"

(* An absent manifest, and an empty file, end the rollback at once. *)
RollbackBegin ==
    /\ Idle /\ Operation
    /\ Rollbackable
    /\ step' = 1
    /\ restored' = 0
    /\ pc' = "rollback"
    /\ UNCHANGED <<disk, cache, root, manifest, journal, plan, flight, reported, faults, start, intact>>

(* The index of the record the rollback restores at a step: it walks the   *)
(* manifest from its first record to its last.                             *)
RollbackRecord(i) == i

(* One record: a plain rename(2) from the new path to the original one. *)
RollbackStep ==
    /\ pc = "rollback" /\ step \in DOMAIN manifest.records
    /\ LET record == manifest.records[RollbackRecord(step)] IN
       \/ /\ Exists(disk, record.new) /\ NoFault
          /\ disk' = RenameOn(disk, record.new, record.original)
          /\ restored' = restored + 1
       \/ /\ IF Exists(disk, record.new) THEN Fault ELSE NoFault
          /\ UNCHANGED <<disk, restored>>
    /\ step' = step + 1
    /\ UNCHANGED <<cache, root, manifest, journal, plan, pc, flight, reported, ops, start>>

(* The manifest goes away only when every record was restored. *)
RollbackEnd ==
    /\ pc = "rollback" /\ step \notin DOMAIN manifest.records
    /\ manifest' = IF restored = Len(manifest.records) THEN NoManifest ELSE manifest
    /\ pc' = "idle"
    /\ UNCHANGED <<disk, cache, root, faults, ops, start, intact>> /\ UNCHANGED run

(* The process dies in the middle of an operation: what it had in memory   *)
(* is gone, what is on the disk stays.                                     *)
Crash ==
    /\ ~Idle /\ Fault
    /\ pc' = "idle" /\ journal' = <<>> /\ plan' = <<>> /\ step' = 1
    /\ restored' = 0 /\ flight' = NoFlight
    /\ UNCHANGED <<disk, cache, root, manifest, reported, ops, start>>
-----------------------------------------------------------------------------
Execute  == \/ ExecuteBegin \/ MoveIntoDirectory \/ FinalizeName
            \/ OpenManifest \/ OpenManifestFails \/ WriteManifest
Rollback == RollbackBegin \/ RollbackStep \/ RollbackEnd
User     == UserDeletes \/ UserAdds \/ Scan

Next == Execute \/ Rollback \/ User \/ Crash

Spec == Init /\ [][Next]_vars
-----------------------------------------------------------------------------
(* Properties.                                                             *)

RecordType == [original : PathRecord, new : PathRecord]

(* The disk never has one file at two paths, whichever renames were made.  *)
DiskOK ==
    /\ DOMAIN disk \subseteq PathRecord /\ IsFiniteSet(DOMAIN disk)
    /\ FilesOn(disk) \subseteq Photos
    /\ \A p, q \in DOMAIN disk : disk[p] = disk[q] => p = q

DataOK ==
    /\ cache \in Seq([path : PathRecord, file : Photos])
    /\ manifest \in [state : {"absent", "torn", "whole"}, records : Seq(RecordType)]
    /\ journal \in Seq(RecordType)
    /\ plan \in Seq([from : PathRecord, to : PathRecord])

ControlOK ==
    /\ pc \in {"idle", "move", "finalize", "save", "rollback"}
    /\ step \in Nat \ {0} /\ restored \in Nat /\ reported \in Nat
    /\ flight \in [at : PathRecord, to : PathRecord, from : PathRecord]

(* Every variable holds a value of its kind. *)
TypeOK == DiskOK /\ DataOK /\ ControlOK

(* Between the two renames of a move the file is where the first one put   *)
(* it, and the name probed for before that rename is still free, or is the *)
(* file's own.                                                             *)
StagedMove ==
    pc = "finalize" =>
      /\ Exists(disk, flight.at)
      /\ Exists(disk, flight.to) => flight.to = flight.at

(* Executing a plan never loses a file: the two renames of a move go to    *)
(* names that do not exist, whatever the earlier moves of the plan did.    *)
Executing == pc \in {"move", "finalize", "save"}

ExecuteKeepsFiles ==
    [][Executing => FilesOn(disk') = FilesOn(disk)]_vars

(* The journal, undone from its last record to its first, leads from the   *)
(* disk back to the disk the execution began with: the records are         *)
(* complete, in order, and name where each file really is.                 *)
UndoRecord(record, d) ==
    IF Exists(d, record.new) THEN RenameOn(d, record.new, record.original) ELSE d
Undo(records, d) ==
    LET before[k \in 0 .. Len(records)] ==
            IF k = Len(records) THEN d ELSE UndoRecord(records[k + 1], before[k + 1])
    IN before[0]
UndoJournal(d) == Undo(journal, d)

JournalUndoesExecution ==
    intact =>
      /\ pc \in {"move", "save"} => UndoJournal(disk) = start
      /\ pc = "finalize" => UndoJournal(RenameOn(disk, flight.at, flight.from)) = start

(* No file was moved out of a path that the same execution moved another   *)
(* file to, or into one it moved a file out of.                            *)
DisjointRun ==
    \A i, j \in DOMAIN journal : journal[i].original # journal[j].new

(* An execution whose original and new paths are disjoint is undone        *)
(* completely by one rollback, when nothing failed and the user changed    *)
(* nothing in between: every file is back and the manifest is gone.        *)
RollbackUndoesDisjointRun ==
    Idle /\ intact /\ manifest = NoManifest /\ DisjointRun => disk = start

(* The plan of the running or last execution was made from a cache that    *)
(* agreed with the disk.                                                   *)
FreshPlan ==
    \A i \in DOMAIN plan :
       /\ Exists(start, plan[i].from)
       /\ plan[i].to = Target[start[plan[i].from]]

(* A plan made from an up-to-date cache puts every file of the cache at    *)
(* the path its own metadata gives, or at that path with a suffix, even    *)
(* when the library is organized in place and the names are taken by files *)
(* the same plan is still to move.                                         *)
FreshPlanOrganizes ==
    intact /\ FreshPlan /\ pc \in {"move", "save"} =>
      \A i \in DOMAIN plan : i < step =>
        \E n \in 0 .. MaxSuffix :
           /\ Exists(disk, Candidate(plan[i].to, n))
           /\ disk[Candidate(plan[i].to, n)] = start[plan[i].from]

(* A rollback moves files "back to their original paths": it loses none.   *)
RollbackKeepsFiles ==
    [][pc = "rollback" => FilesOn(disk') = FilesOn(disk)]_vars
=============================================================================
