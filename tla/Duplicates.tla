---------------------------- MODULE Duplicates ----------------------------
(***************************************************************************)
(* Exact duplicates: systems/duplicate_finder.c, app/app_duplicates.c and  *)
(* the way main.c and the worker's tasks use them.                         *)
(*                                                                         *)
(* A scan remembers an MD5 for every path.  Looking for duplicates sorts   *)
(* the remembered entries by MD5, takes the first of every block of equal  *)
(* ones as the original, and compares the SHA-256 of what the others hold  *)
(* now with what it holds now.  The report is kept; moving it later sends  *)
(* every duplicate into a directory chosen at that moment, with a number   *)
(* when its name is taken, and looks at no content again.                  *)
(*                                                                         *)
(* The disk maps paths to contents.  Two contents may have one MD5; a      *)
(* SHA-256 is taken to tell contents apart.                                *)
(***************************************************************************)
EXTENDS FileSystem, FiniteSets

CONSTANTS Contents,      \* what a file may hold
          Md5s,          \* the values of the fast hash
          Md5,           \* the MD5 of a content
          Libraries,     \* the disks the program may start on
          UserPaths,     \* the paths the user writes and deletes at
          Targets,       \* the environment directories of the requests
          MaxSuffix,     \* bound of the numbering loop
          MaxOps,        \* bound on scans, searches, moves and user edits
          MaxFaults      \* bound on files that cannot be opened, read to their
                         \* end or moved, and on crashes

PathRecord == [dir : STRING, stem : STRING, sfx : Seq(Nat)]

ASSUME DuplicatesAssumption ==
    /\ Md5 \in [Contents -> Md5s]
    /\ \A d \in Libraries : /\ FilesOn(d) \subseteq Contents
                            /\ DOMAIN d \subseteq PathRecord /\ IsFiniteSet(DOMAIN d)
    /\ UserPaths \subseteq PathRecord /\ Targets \subseteq STRING /\ Targets # {}
    /\ MaxSuffix \in Nat /\ MaxOps \in Nat /\ MaxFaults \in Nat

VARIABLES disk,          \* the content at every path that exists
          cache,         \* the MD5 remembered for a path
          report,        \* the groups found and not yet moved
          at,            \* the original of the group being moved, in a set
          pc,            \* "idle" or "moving"
          target,        \* where the running request moves to
          failed,        \* whether the running request failed to move a file
          ops, faults,   \* how many of the bounded events there were
          fresh,         \* history: the search read whole files, and nothing
                         \* changed since
          whole,         \* history: the report has all that a true cache has
          start          \* history: the disk when the running move began

vars == <<disk, cache, report, at, pc, target, failed, ops, faults, fresh, whole, start>>

Init ==
    /\ disk \in Libraries
    /\ cache = <<>>
    /\ report = {} /\ at = {}
    /\ pc = "idle" /\ target = (CHOOSE t \in Targets : TRUE) /\ failed = FALSE
    /\ ops = 0 /\ faults = 0
    /\ fresh = FALSE /\ whole = FALSE
    /\ start = <<>>

(* One more operation or edit, while none runs. *)
Idle == pc = "idle" /\ ops < MaxOps /\ ops' = ops + 1

---------------------------------------------------------------------------
(* Scans and the user *)

(* What the digest functions read of the files, when some are missed: they *)
(* fail for a file that cannot be opened, but take an error of fread for   *)
(* the end of the file, and the digest is then that of the part before,    *)
(* which may be what any file holds.                                       *)
Readings(missed) ==
    UNION {{[p \in DOMAIN disk \ unread |-> IF p \in missed THEN seen[p] ELSE disk[p]] :
               seen \in [missed -> Contents]} : unread \in SUBSET missed}

Missing(missed) ==
    /\ faults + Cardinality(missed) <= MaxFaults
    /\ faults' = faults + Cardinality(missed)

(* A scan by its effect here: the files it reached have the MD5 of what is *)
(* read of them; it keeps the other entries, those of missing files too, or   *)
(* starts from none when the profile differs.  A scan that is not          *)
(* exhaustive is one that starts from none and reaches none: its entries   *)
(* have no MD5, and the search leaves them out.                            *)
Scan ==
    /\ Idle
    /\ \E missed \in SUBSET DOMAIN disk :
          /\ Missing(missed)
          /\ \E read \in Readings(missed) :
             \E reached \in SUBSET DOMAIN read, kept \in {DOMAIN cache, {}} :
                cache' = [p \in kept \cup reached |->
                             IF p \in reached THEN Md5[read[p]] ELSE cache[p]]
    /\ whole' = FALSE
    /\ UNCHANGED <<disk, report, at, pc, target, failed, fresh, start>>

(* The user, or another program, writes or deletes a file. *)
UserEdit ==
    /\ Idle
    /\ \E p \in UserPaths :
          \/ \E c \in Contents :
                disk' = [q \in DOMAIN disk \cup {p} |-> IF q = p THEN c ELSE disk[q]]
          \/ /\ Exists(disk, p)
             /\ disk' = [q \in DOMAIN disk \ {p} |-> disk[q]]
    /\ fresh' = FALSE
    /\ UNCHANGED <<cache, report, at, pc, target, failed, faults, whole, start>>

---------------------------------------------------------------------------
(* FindExactDuplicates *)

(* The blocks of equal MD5 the sorted entries fall into, of two or more. *)
Blocks == {b \in SUBSET DOMAIN cache :
              /\ Cardinality(b) > 1
              /\ \E m \in Md5s : b = {p \in DOMAIN cache : cache[p] = m}}

(* Mutant: the verification is left out and MD5 decides. *)
Md5Verified(block, base, read) ==
    {p \in (block \ {base}) \cap DOMAIN read : base \in DOMAIN read}

(* Mutant: only the neighbour of the original is looked at. *)
OneNeighbour(block, base, read) ==
    LET same == {p \in (block \ {base}) \cap DOMAIN read :
                    base \in DOMAIN read /\ read[p] = read[base]}
    IN  {p \in same : \A q \in same : p = q \/ p = CHOOSE x \in same : TRUE}

(* The others of the block of which is read what is read of its base, all  *)
(* of it now; none when the base cannot be opened.                         *)
Verified(block, base, read) ==
    {p \in (block \ {base}) \cap DOMAIN read :
        base \in DOMAIN read /\ read[p] = read[base]}

(* Every entry names a file that is there and holds what its MD5 is of,    *)
(* and no two contents among them share an MD5.                            *)
CacheIsTrue ==
    /\ \A p \in DOMAIN cache : Exists(disk, p) /\ cache[p] = Md5[disk[p]]
    /\ \A p, q \in DOMAIN cache : cache[p] = cache[q] => disk[p] = disk[q]

(* AppFindDuplicates.  The sort leaves the order within a block open, so   *)
(* its base may be any of it.  An earlier report is freed first, and when  *)
(* the cache cannot be loaded that is all that happens.                    *)
Find ==
    /\ Idle
    /\ \/ \E missed \in SUBSET DOMAIN disk :
             /\ Missing(missed)
             /\ \E base \in [Blocks -> DOMAIN cache], read \in Readings(missed) :
                   /\ \A b \in Blocks : base[b] \in b
                   /\ report' = {[original |-> base[b], duplicates |-> Verified(b, base[b], read)] :
                                    b \in {x \in Blocks : Verified(x, base[x], read) # {}}}
                   /\ fresh' = (\A p \in DOMAIN read : read[p] = disk[p])
                   /\ whole' = (CacheIsTrue /\ missed = {})
       \/ /\ faults < MaxFaults /\ faults' = faults + 1
          /\ report' = {} /\ fresh' = FALSE /\ whole' = FALSE
    /\ UNCHANGED <<disk, cache, at, pc, target, failed, start>>

---------------------------------------------------------------------------
(* AppMoveDuplicates *)

(* The request names the directory of the moment: the command line's, or   *)
(* what the GUI's field holds by now.  There is a report to move.          *)
BeginMove ==
    /\ Idle
    /\ report # {}
    /\ pc' = "moving"
    /\ target' \in Targets
    /\ failed' = FALSE
    /\ start' = disk
    /\ UNCHANGED <<disk, cache, report, at, faults, fresh, whole>>

(* Mutant: the counter of FsMoveFile is never looked at. *)
Overwriting(d) ==
    /\ Exists(disk, d)
    /\ disk' = RenameOn(disk, d, [d EXCEPT !.dir = target])

(* FsMoveFile: the first free name in the target directory, and a rename. *)
MoveFile(d) ==
    /\ Exists(disk, d)
    /\ \E to \in FirstFree(disk, [d EXCEPT !.dir = target], MaxSuffix) :
          disk' = RenameOn(disk, d, to)

(* FsMoveFile fails: the duplicate is gone, or the rename is refused. *)
MoveFails(d) ==
    /\ IF Exists(disk, d) THEN faults < MaxFaults /\ faults' = faults + 1
                          ELSE faults' = faults
    /\ UNCHANGED disk

(* What is left of the report when d of group g has been dealt with. *)
Without(g, d) ==
    (report \ {g}) \cup
        (IF g.duplicates = {d} THEN {} ELSE {[g EXCEPT !.duplicates = @ \ {d}]})

(* One turn of the inner loop; a group is finished before the next. *)
MoveDuplicate ==
    /\ pc = "moving"
    /\ \E g \in report : \E d \in g.duplicates :
          /\ at = {} \/ at = {g.original}
          /\ \/ MoveFile(d) /\ UNCHANGED <<failed, faults>>
             \/ MoveFails(d) /\ failed' = TRUE
          /\ report' = Without(g, d)
          /\ at' = IF g.duplicates = {d} THEN {} ELSE {g.original}
    /\ UNCHANGED <<cache, pc, target, ops, fresh, whole, start>>

(* All have been dealt with: AppMoveDuplicates returns OK, whatever        *)
(* failed, and the caller frees the report.                                *)
EndMove ==
    /\ pc = "moving" /\ report = {}
    /\ pc' = "idle"
    /\ failed' = FALSE /\ fresh' = FALSE /\ whole' = FALSE /\ start' = <<>>
    /\ UNCHANGED <<disk, cache, report, at, target, ops, faults>>

(* The process dies, in the middle of a move or with a report in memory. *)
Crash ==
    /\ pc = "moving" \/ report # {}
    /\ faults < MaxFaults /\ faults' = faults + 1
    /\ pc' = "idle" /\ report' = {} /\ at' = {}
    /\ failed' = FALSE /\ fresh' = FALSE /\ whole' = FALSE /\ start' = <<>>
    /\ UNCHANGED <<disk, cache, target, ops>>

Next == Scan \/ UserEdit \/ Find \/ BeginMove \/ MoveDuplicate \/ EndMove \/ Crash

Spec == Init /\ [][Next]_vars

---------------------------------------------------------------------------
(* Properties *)

(* The groups of the report are disjoint sets of paths, and an original is *)
(* in no group as a duplicate.                                             *)
IsReport ==
    /\ report \subseteq [original : PathRecord, duplicates : SUBSET PathRecord]
    /\ \A g \in report : g.duplicates # {} /\ g.original \notin g.duplicates
    /\ \A g, h \in report : g # h =>
          ({g.original} \cup g.duplicates) \cap ({h.original} \cup h.duplicates) = {}

(* The type invariant: the disk holds contents at paths, the cache MD5s, a *)
(* report has disjoint groups, and one is being moved only while an        *)
(* operation runs.                                                         *)
TypeOK ==
    /\ FilesOn(disk) \subseteq Contents
    /\ DOMAIN disk \subseteq PathRecord /\ IsFiniteSet(DOMAIN disk)
    /\ DOMAIN cache \subseteq PathRecord /\ IsFiniteSet(DOMAIN cache)
    /\ \A p \in DOMAIN cache : cache[p] \in Md5s
    /\ IsReport
    /\ pc \in {"idle", "moving"} /\ target \in Targets
    /\ (pc = "idle" => at = {} /\ ~failed)
    /\ at = {} \/ \E g \in report : at = {g.original}
    /\ ops \in 0 .. MaxOps /\ faults \in 0 .. MaxFaults

(* Moving duplicates from a report that is true when the move begins never *)
(* takes the last copy of a content from its place: whatever was at some   *)
(* path is still at a path where it already was (app_duplicates.c moves    *)
(* duplicates, never originals, and duplicate_finder.c compared contents). *)
(* A report for which a file was read in part only is not such a report.   *)
OnePlaceIsKept ==
    pc = "moving" /\ fresh =>
        \A p \in DOMAIN start :
            \E q \in DOMAIN disk \cap DOMAIN start :
                start[q] = start[p] /\ disk[q] = start[p]

(* A search over true entries followed by a move in which nothing fails    *)
(* leaves the library one copy of every content: no two files the cache    *)
(* knew outside the target directory are equal any more.                   *)
LibraryHasOneCopy ==
    pc = "moving" /\ fresh /\ whole /\ ~failed /\ report = {} =>
        \A p, q \in DOMAIN cache \cap DOMAIN disk :
            p # q /\ p.dir # target /\ q.dir # target => disk[p] # disk[q]

Store == INSTANCE FileStore WITH busy <- pc = "moving"

(* Moving duplicates implements FileStore: files move one at a time onto   *)
(* names that are free, whatever the report says and however old it is, so *)
(* that no file is overwritten, dropped or doubled.                        *)
ImplementsFileStore == Store!StoreSpec
---------------------------------------------------------------------------
(* What makes the invariants inductive *)

(* Until something else changes the disk, the files of a group are where   *)
(* the report says and all hold the same, and the running move has not     *)
(* touched those still in it.                                              *)
ReportIsTrue ==
    fresh => \A g \in report : \A p \in g.duplicates \cup {g.original} :
        /\ Exists(disk, p) /\ disk[p] = disk[g.original]
        /\ pc = "moving" => p \in DOMAIN start /\ start[p] = disk[p]

(* Two equal files the cache knew are in one group, or one of them has     *)
(* been moved to the target.                                               *)
ReportIsWhole ==
    fresh /\ whole /\ ~failed =>
        \A p, q \in DOMAIN cache \cap DOMAIN disk :
            /\ p # q /\ disk[p] = disk[q]
            /\ pc = "moving" => p.dir # target /\ q.dir # target
            => \E g \in report : {p, q} \subseteq g.duplicates \cup {g.original}

DuplicatesInv == ReportIsTrue /\ ReportIsWhole /\ OnePlaceIsKept
=============================================================================
