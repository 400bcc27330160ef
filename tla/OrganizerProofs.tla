-------------------------- MODULE OrganizerProofs --------------------------
(***************************************************************************)
(* The organizer's type correctness, that executing a plan loses no file,  *)
(* that a fresh plan puts every file where its metadata says, and that the *)
(* journal can undo it, for every library, every metadata and every bound. *)
(*                                                                         *)
(* Every step of an execution renames onto a path found free.  The second  *)
(* rename of a move goes to a name probed for before the first, so the     *)
(* invariant must remember in between that the name is still free.         *)
(*                                                                         *)
(* On that rests the rest: seen from Before, the disk with a first rename  *)
(* taken back, a move is one rename onto a free path (Carries), which      *)
(* disturbs no other file (Organized) and which its record undoes          *)
(* (Undoable, Rearranged).                                                 *)
(***************************************************************************)
EXTENDS Organizer, FiniteSets, FiniteSetTheorems, SequenceTheorems, WellFoundedInduction, TLAPS
-----------------------------------------------------------------------------
(* Files on a disk.                                                        *)

(* No file is at two paths. *)
Single(d) == \A p, q \in DOMAIN d : d[p] = d[q] => p = q

(* A function on 1 .. n is a sequence.                                     *)
LEMMA SeqIntro ==
    ASSUME NEW S, NEW n \in Nat, NEW f \in [1 .. n -> S]
    PROVE  f \in Seq(S)
  BY SeqDef

(* The n-th name the collision loops try is a path: only its suffix grows. *)
LEMMA CandidateKeepsShape ==
    ASSUME NEW path \in [dir : STRING, stem : STRING, sfx : Seq(Nat)], NEW n \in Nat
    PROVE  Candidate(path, n) \in [dir : STRING, stem : STRING, sfx : Seq(Nat)]
  <1>1. Append(path.sfx, n) \in Seq(Nat)
    BY AppendProperties
  <1>2. Suffixed(path, n) \in [dir : STRING, stem : STRING, sfx : Seq(Nat)]
    <2>1. /\ Suffixed(path, n) = [path EXCEPT !.sfx = Append(path.sfx, n)]
          /\ path.dir \in STRING /\ path.stem \in STRING
      BY DEF Suffixed
    <2> QED BY ONLY <2>1, <1>1, path \in [dir : STRING, stem : STRING, sfx : Seq(Nat)]
  <1> QED BY <1>2 DEF Candidate

(* A rename onto a free path, or onto the path itself, keeps every file:   *)
(* FsMoveFile and the renamers check for the path before they rename.      *)
LEMMA RenameKeepsFiles ==
    ASSUME NEW d, NEW from \in DOMAIN d, NEW to,
           to \notin DOMAIN d \/ to = from
    PROVE  FilesOn(RenameOn(d, from, to)) = FilesOn(d)
  <1> DEFINE e == RenameOn(d, from, to)
  <1>1. /\ DOMAIN e = (DOMAIN d \ {from}) \cup {to}
        /\ e[to] = d[from]
        /\ \A p \in DOMAIN d \ {from, to} : e[p] = d[p]
    BY DEF RenameOn
  <1>2. \A p \in DOMAIN e : \E q \in DOMAIN d : e[p] = d[q]
    BY <1>1
  <1>3. \A q \in DOMAIN d : \E p \in DOMAIN e : e[p] = d[q]
    <2>1. TAKE q \in DOMAIN d
    <2>2. CASE q = from
      BY <2>2, <1>1
    <2>3. CASE q # from
      BY <2>3, <1>1
    <2> QED BY <2>2, <2>3
  <1> HIDE DEF e
  <1>4. FilesOn(e) = FilesOn(d)
    BY <1>2, <1>3 DEF FilesOn
  <1> QED BY <1>4 DEF e

(* Any rename loses no file but the one at the path it overwrites. *)
LEMMA RenameAddsNoFile ==
    ASSUME NEW d, NEW from \in DOMAIN d, NEW to
    PROVE  FilesOn(RenameOn(d, from, to)) \subseteq FilesOn(d)
  BY DEF RenameOn, FilesOn

(* A rename never leaves a file at two paths. *)
LEMMA RenameKeepsSingle ==
    ASSUME NEW d, Single(d), NEW from \in DOMAIN d, NEW to
    PROVE  Single(RenameOn(d, from, to))
  BY DEF RenameOn, Single

(* A disk stays finite. *)
LEMMA RenameKeepsFinite ==
    ASSUME NEW d, IsFiniteSet(DOMAIN d), NEW from \in DOMAIN d, NEW to
    PROVE  IsFiniteSet(DOMAIN RenameOn(d, from, to))
  <1>1. IsFiniteSet((DOMAIN d \ {from}) \cup {to})
    BY FS_AddElement, FS_RemoveElement
  <1> QED BY <1>1 DEF RenameOn

(* Renaming back undoes a rename that overwrote nothing. *)
LEMMA RenameBack ==
    ASSUME NEW d, d = [p \in DOMAIN d |-> d[p]],
           NEW from \in DOMAIN d, NEW to, to \notin DOMAIN d
    PROVE  RenameOn(RenameOn(d, from, to), to, from) = d
  BY DEF RenameOn

(* Renaming twice is renaming once, when the path in between was free. *)
LEMMA RenameTwice ==
    ASSUME NEW d, NEW a \in DOMAIN d, NEW b, NEW c, b \notin DOMAIN d
    PROVE  RenameOn(RenameOn(d, a, b), b, c) = RenameOn(d, a, c)
  <1> DEFINE e == RenameOn(d, a, b)
  <1>1. DOMAIN e = (DOMAIN d \ {a}) \cup {b} /\ e[b] = d[a]
        /\ \A p \in DOMAIN d \ {a, b} : e[p] = d[p]
    BY DEF RenameOn
  <1> HIDE DEF e
  <1>2. (DOMAIN e \ {b}) \cup {c} = (DOMAIN d \ {a}) \cup {c}
    BY <1>1
  <1>3. RenameOn(e, b, c) = RenameOn(d, a, c)
    BY <1>1, <1>2 DEF RenameOn
  <1> QED BY <1>3 DEF e

(* What a collision loop returns is free, and one of its candidates. *)
LEMMA FirstFreeIsFree ==
    ASSUME NEW d, NEW path, NEW bound \in Nat, NEW free \in FirstFree(d, path, bound)
    PROVE  /\ free \notin DOMAIN d
           /\ \E n \in 0 .. bound : free = Candidate(path, n)
  BY DEF FirstFree, Exists
-----------------------------------------------------------------------------

Inv == TypeOK /\ StagedMove

LEMMA CandidateType ==
    ASSUME NEW path \in PathRecord, NEW n \in Nat
    PROVE  Candidate(path, n) \in PathRecord
  BY CandidateKeepsShape DEF PathRecord

LEMMA FreeType ==
    ASSUME NEW path \in PathRecord, NEW free \in FirstFree(disk, path, MaxSuffix)
    PROVE  free \in PathRecord /\ ~Exists(disk, free)
  BY BoundAssumption, FirstFreeIsFree, CandidateType DEF Exists

LEMMA RenameKeepsDisk ==
    ASSUME DiskOK, NEW from \in DOMAIN disk, NEW to \in PathRecord,
           disk' = RenameOn(disk, from, to)
    PROVE  DiskOK'
  <1>1. IsFiniteSet(DOMAIN disk')
    BY RenameKeepsFinite DEF DiskOK
  <1>2. FilesOn(disk') \subseteq Photos
    BY RenameAddsNoFile DEF DiskOK
  <1>3. Single(disk')
    BY RenameKeepsSingle DEF DiskOK, Single
  <1>4. DOMAIN disk' \subseteq PathRecord
    BY DEF DiskOK, RenameOn
  <1> QED BY <1>1, <1>2, <1>3, <1>4 DEF DiskOK, Single

LEMMA InitInv == Init => Inv
  <1> SUFFICES ASSUME Init PROVE Inv
    OBVIOUS
  <1> USE LibraryAssumption DEF Init
  <1>1. DiskOK
    <2>1. DOMAIN disk = {Home[f] : f \in Photos}
      OBVIOUS
    <2>3. \A p \in DOMAIN disk : disk[p] \in Photos /\ Home[disk[p]] = p
      BY <2>1
    <2>2. IsFiniteSet(DOMAIN disk)
      <3>1. disk \in Injection(DOMAIN disk, Photos)
        BY <2>1, <2>3 DEF Injection, IsInjective
      <3> QED BY <3>1, FS_Injection
    <2>4. DOMAIN disk \subseteq PathRecord
      BY <2>1
    <2> QED BY <2>2, <2>3, <2>4 DEF DiskOK, FilesOn
  <1>2. DataOK
    BY EmptySeq DEF DataOK, NoManifest
  <1>3. ControlOK
    BY DEF ControlOK, NoFlight
  <1> QED BY <1>1, <1>2, <1>3 DEF Inv, TypeOK, StagedMove

-----------------------------------------------------------------------------
(* The steps, one lemma per action.                                        *)

LEMMA ScanInv == Inv /\ Scan => Inv'
  <1> SUFFICES ASSUME Inv, Scan PROVE Inv'
    OBVIOUS
  <1> DEFINE Entry == [path : PathRecord, file : Photos]
  <1>1. PICK r \in Roots :
          LET old   == IF r = root THEN cache ELSE <<>>
              found == {p \in DOMAIN disk : p.dir \in r}
              kept  == [i \in DOMAIN old |->
                           [path |-> old[i].path,
                            file |-> IF old[i].path \in found
                                     THEN disk[old[i].path] ELSE old[i].file]]
          IN \E added \in SetToSeqs(found \ Keys(old)) :
               cache' = kept \o [i \in DOMAIN added |->
                                    [path |-> added[i], file |-> disk[added[i]]]]
    BY DEF Scan
  <1> DEFINE old   == IF r = root THEN cache ELSE <<>>
             found == {p \in DOMAIN disk : p.dir \in r}
             new   == found \ Keys(old)
             kept  == [i \in DOMAIN old |->
                          [path |-> old[i].path,
                           file |-> IF old[i].path \in found
                                    THEN disk[old[i].path] ELSE old[i].file]]
  <1>2. PICK added \in SetToSeqs(new) :
          cache' = kept \o [i \in DOMAIN added |->
                               [path |-> added[i], file |-> disk[added[i]]]]
    BY <1>1
  <1>3. kept \in Seq(Entry)
    <2>1. old \in Seq(Entry)
      BY EmptySeq DEF Inv, TypeOK, DataOK
    <2>2. \A p \in found : disk[p] \in Photos
      BY DEF Inv, TypeOK, DiskOK, FilesOn
    <2>3. Len(old) \in Nat /\ DOMAIN old = 1 .. Len(old)
      BY <2>1, LenProperties
    <2>4. \A i \in DOMAIN old : old[i] \in Entry
      <3> HIDE DEF old, Entry
      <3> QED BY <2>1, LenProperties
    <2>5. kept \in [1 .. Len(old) -> Entry]
      <3> HIDE DEF old, found
      <3> QED BY <2>2, <2>3, <2>4
    <2> HIDE DEF old, kept, Entry
    <2> QED BY <2>3, <2>5, SeqIntro
  <1>4. [i \in DOMAIN added |-> [path |-> added[i], file |-> disk[added[i]]]] \in Seq(Entry)
    <2>1. new \subseteq DOMAIN disk
      OBVIOUS
    <2>2. IsFiniteSet(new)
      BY <2>1, FS_Subset DEF Inv, TypeOK, DiskOK
    <2>3. Cardinality(new) \in Nat
      BY <2>2, FS_CardinalityType
    <2> HIDE DEF new
    <2>4. added \in [1 .. Cardinality(new) -> new]
      BY DEF SetToSeqs
    <2>5. \A p \in new : p \in PathRecord /\ disk[p] \in Photos
      BY <2>1 DEF Inv, TypeOK, DiskOK, FilesOn
    <2>6. [i \in DOMAIN added |-> [path |-> added[i], file |-> disk[added[i]]]]
            \in [1 .. Cardinality(new) -> Entry]
      BY <2>4, <2>5
    <2> HIDE DEF Entry
    <2> QED BY <2>3, <2>6, SeqIntro
  <1>5. cache' \in Seq(Entry)
    <2> HIDE DEF kept, Entry
    <2> QED BY <1>2, <1>3, <1>4, ConcatProperties
  <1>6. UNCHANGED <<disk, manifest, pc, faults, start, intact, journal, plan, step,
                    flight, restored, reported>>
    BY DEF Scan, run
  <1> QED BY <1>5, <1>6 DEF Inv, TypeOK, DiskOK, DataOK, ControlOK, StagedMove, Exists, FilesOn, RecordType

LEMMA UserInv == Inv /\ (UserDeletes \/ UserAdds) => Inv'
  <1> SUFFICES ASSUME Inv, UserDeletes \/ UserAdds PROVE Inv'
    OBVIOUS
  <1>1. DiskOK'
    <2>1. CASE UserDeletes
      <3>1. PICK p \in DOMAIN disk : disk' = [q \in DOMAIN disk \ {p} |-> disk[q]]
        BY <2>1 DEF UserDeletes
      <3>2. IsFiniteSet(DOMAIN disk')
        BY <3>1, FS_RemoveElement DEF Inv, TypeOK, DiskOK
      <3> QED BY <3>1, <3>2 DEF Inv, TypeOK, DiskOK, FilesOn
    <2>2. CASE UserAdds
      <3>1. PICK f \in Photos \ FilesOn(disk) :
              /\ ~Exists(disk, Home[f])
              /\ disk' = [p \in DOMAIN disk \cup {Home[f]} |->
                             IF p = Home[f] THEN f ELSE disk[p]]
        BY <2>2 DEF UserAdds
      <3>2. IsFiniteSet(DOMAIN disk')
        BY <3>1, FS_AddElement DEF Inv, TypeOK, DiskOK
      <3>3. Home[f] \in PathRecord
        BY LibraryAssumption
      <3> QED BY <3>1, <3>2, <3>3 DEF Inv, TypeOK, DiskOK, FilesOn, Exists
    <2> QED BY <2>1, <2>2
  <1>2. Idle /\ pc' = pc /\ UNCHANGED <<cache, manifest, run>>
    BY DEF UserDeletes, UserAdds
  <1> QED BY <1>1, <1>2 DEF Inv, TypeOK, DataOK, ControlOK, StagedMove, Idle, run, RecordType

LEMMA BeginInv == Inv /\ ExecuteBegin => Inv'
  <1> SUFFICES ASSUME Inv, ExecuteBegin PROVE Inv'
    OBVIOUS
  <1> DEFINE Entry == [path : PathRecord, file : Photos]
             Move  == [from : PathRecord, to : PathRecord]
  <1>1. cache \in Seq(Entry)
    BY DEF Inv, TypeOK, DataOK
  <1>2. Len(cache) \in Nat /\ DOMAIN cache = 1 .. Len(cache)
    BY <1>1, LenProperties
  <1>3. \A i \in DOMAIN cache : cache[i] \in Entry
    <2> HIDE DEF Entry
    <2> QED BY <1>1, LenProperties
  <1>4. ComputePlan \in [1 .. Len(cache) -> Move]
    BY <1>2, <1>3, LibraryAssumption DEF ComputePlan
  <1>5. plan' \in Seq(Move)
    <2> HIDE DEF Move
    <2> QED BY <1>2, <1>4, SeqIntro DEF ExecuteBegin
  <1>6. journal' \in Seq(RecordType)
    BY EmptySeq DEF ExecuteBegin
  <1> QED BY <1>5, <1>6 DEF Inv, TypeOK, DiskOK, DataOK, ControlOK, StagedMove,
                            ExecuteBegin, FilesOn, RecordType

(* The heart of the argument: the first rename goes to a free path, and    *)
(* takes the name found free only when it is the very path it goes to.     *)
LEMMA MoveInv == Inv /\ MoveIntoDirectory => Inv'
  <1> SUFFICES ASSUME Inv, MoveIntoDirectory PROVE Inv'
    OBVIOUS
  <1> DEFINE move == plan[step]
  <1>1. /\ move \in [from : PathRecord, to : PathRecord]
        /\ [move.from EXCEPT !.dir = move.to.dir] \in PathRecord
    <2> DEFINE Move == [from : PathRecord, to : PathRecord]
    <2>1. plan \in Seq(Move) /\ step \in DOMAIN plan
      BY DEF Inv, TypeOK, DataOK, MoveIntoDirectory
    <2>2. move \in Move
      <3> HIDE DEF Move
      <3> QED BY <2>1, LenProperties
    <2> HIDE DEF move
    <2> QED BY <2>2 DEF PathRecord
  <1>2. PICK probe \in FirstFree(disk, move.to, MaxSuffix),
             at \in FirstFree(disk, [move.from EXCEPT !.dir = move.to.dir], MaxSuffix) :
          \/ /\ Exists(disk, move.from) /\ NoFault
             /\ disk' = RenameOn(disk, move.from, at)
             /\ flight' = [at |-> at, to |-> probe, from |-> move.from]
             /\ pc' = "finalize"
             /\ UNCHANGED step
          \/ /\ IF Exists(disk, move.from) THEN Fault ELSE NoFault
             /\ step' = step + 1
             /\ UNCHANGED <<disk, flight, pc>>
    BY DEF MoveIntoDirectory
  <1>3. /\ probe \in PathRecord /\ ~Exists(disk, probe)
        /\ at \in PathRecord /\ ~Exists(disk, at)
    <2> HIDE DEF move
    <2> QED BY <1>1, FreeType
  <1>4. pc = "move" /\ UNCHANGED <<cache, manifest, journal, plan, restored, reported>>
    BY DEF MoveIntoDirectory
  <1> HIDE DEF move
  <1>5. CASE disk' # disk
    <2>1. /\ move.from \in DOMAIN disk
          /\ disk' = RenameOn(disk, move.from, at)
          /\ flight' = [at |-> at, to |-> probe, from |-> move.from]
          /\ pc' = "finalize" /\ step' = step
      BY <1>2, <1>5 DEF Exists
    <2>2. DiskOK'
      BY <2>1, <1>3, RenameKeepsDisk DEF Inv, TypeOK
    <2>3. StagedMove'
      BY <2>1, <1>3 DEF StagedMove, Exists, RenameOn
    <2>4. flight' \in [at : PathRecord, to : PathRecord, from : PathRecord]
      BY <2>1, <1>1, <1>3
    <2> QED BY <2>1, <2>2, <2>3, <2>4, <1>4 DEF Inv, TypeOK, DataOK, ControlOK, RecordType
  <1>6. CASE disk' = disk
    <2>1. ~Exists(disk, move.from) \/ (step' = step + 1 /\ UNCHANGED <<flight, pc>>)
      <3>1. ASSUME Exists(disk, move.from), disk' = RenameOn(disk, move.from, at)
            PROVE FALSE
        BY <3>1, <1>3, <1>6 DEF RenameOn, Exists
      <3> QED BY <3>1, <1>2
    <2>2. step' = step + 1 /\ UNCHANGED <<flight, pc>>
      BY <2>1, <1>2
    <2> QED BY <2>2, <1>4, <1>6 DEF Inv, TypeOK, DiskOK, DataOK, ControlOK, StagedMove,
                                    RecordType, FilesOn
  <1> QED BY <1>5, <1>6

LEMMA FinalizeInv == Inv /\ FinalizeName => Inv'
  <1> SUFFICES ASSUME Inv, FinalizeName PROVE Inv'
    OBVIOUS
  <1>1. DiskOK'
    <2>1. flight.at \in DOMAIN disk /\ flight.to \in PathRecord
      BY DEF Inv, TypeOK, ControlOK, StagedMove, FinalizeName, Exists
    <2>2. CASE disk' = RenameOn(disk, flight.at, flight.to)
      BY <2>1, <2>2, RenameKeepsDisk DEF Inv, TypeOK
    <2>3. CASE disk' = disk
      BY <2>3 DEF Inv, TypeOK, DiskOK, FilesOn
    <2> QED BY <2>2, <2>3 DEF FinalizeName
  <1>2. journal' \in Seq(RecordType)
    <2>1. [original |-> flight.from, new |-> flight.to] \in RecordType
      BY DEF Inv, TypeOK, ControlOK, RecordType
    <2>2. journal \in Seq(RecordType)
      BY DEF Inv, TypeOK, DataOK
    <2>3. \/ journal' = journal
          \/ journal' = Append(journal, [original |-> flight.from, new |-> flight.to])
      BY DEF FinalizeName, RecordMove
    <2> QED BY <2>1, <2>2, <2>3, AppendProperties
  <1> QED BY <1>1, <1>2 DEF Inv, TypeOK, DataOK, ControlOK, StagedMove, FinalizeName, RecordType

LEMMA ManifestInv == Inv /\ (OpenManifest \/ OpenManifestFails \/ WriteManifest) => Inv'
  <1> SUFFICES ASSUME Inv, OpenManifest \/ OpenManifestFails \/ WriteManifest PROVE Inv'
    OBVIOUS
  <1>1. /\ UNCHANGED <<disk, cache, journal, plan, step, flight, restored>>
        /\ pc' \in {"idle", "save"}
    BY DEF OpenManifest, OpenManifestFails, WriteManifest, Return, run
  <1>2. reported' \in Nat
    <2>1. Len(plan) \in Nat
      BY LenProperties DEF Inv, TypeOK, DataOK
    <2>2. reported' \in {reported, 0, Len(plan)}
      BY DEF OpenManifest, OpenManifestFails, WriteManifest, Return, run
    <2> QED BY <2>1, <2>2 DEF Inv, TypeOK, ControlOK
  <1>3. manifest' \in [state : {"absent", "torn", "whole"}, records : Seq(RecordType)]
    <2>1. <<>> \in Seq(RecordType) /\ journal \in Seq(RecordType)
      BY EmptySeq DEF Inv, TypeOK, DataOK
    <2>2. \/ manifest' = manifest
          \/ manifest' = [state |-> "torn", records |-> <<>>]
          \/ manifest' = [state |-> "whole", records |-> journal]
      BY DEF OpenManifest, OpenManifestFails, WriteManifest
    <2>3. manifest \in [state : {"absent", "torn", "whole"}, records : Seq(RecordType)]
      BY DEF Inv, TypeOK, DataOK
    <2>4. \A s \in {"torn", "whole"}, r \in Seq(RecordType) :
             [state |-> s, records |-> r] \in
                [state : {"absent", "torn", "whole"}, records : Seq(RecordType)]
      OBVIOUS
    <2>5. CASE manifest' = [state |-> "torn", records |-> <<>>]
      BY <2>1, <2>4, <2>5
    <2>6. CASE manifest' = [state |-> "whole", records |-> journal]
      BY <2>1, <2>4, <2>6
    <2> QED BY <2>2, <2>3, <2>5, <2>6
  <1> QED BY <1>1, <1>2, <1>3 DEF Inv, TypeOK, DiskOK, DataOK, ControlOK, StagedMove,
                                  FilesOn, RecordType

LEMMA RollbackInv == Inv /\ Rollback => Inv'
  <1> SUFFICES ASSUME Inv, Rollback PROVE Inv'
    OBVIOUS
  <1>1. CASE RollbackBegin
    BY <1>1 DEF Inv, TypeOK, DiskOK, DataOK, ControlOK, StagedMove, RollbackBegin, FilesOn, RecordType
  <1>2. CASE RollbackStep
    <2>1. manifest.records[step] \in RecordType
      <3>1. manifest.records \in Seq(RecordType) /\ step \in DOMAIN manifest.records
        BY <1>2 DEF Inv, TypeOK, DataOK, RollbackStep
      <3> QED BY <3>1, LenProperties
    <2>2. DiskOK'
      <3> DEFINE record == manifest.records[step]
      <3>1. CASE disk' = disk
        BY <3>1 DEF Inv, TypeOK, DiskOK, FilesOn
      <3>2. CASE record.new \in DOMAIN disk /\ disk' = RenameOn(disk, record.new, record.original)
        <4>1. record.original \in PathRecord
          BY <2>1 DEF RecordType
        <4> HIDE DEF record
        <4> QED BY <3>2, <4>1, RenameKeepsDisk DEF Inv, TypeOK
      <3> QED BY <1>2, <3>1, <3>2 DEF RollbackStep, RollbackRecord, Exists
    <2>3. restored' \in Nat /\ step' = step + 1 /\ pc' = "rollback"
      BY <1>2 DEF Inv, TypeOK, ControlOK, RollbackStep
    <2>4. UNCHANGED <<cache, manifest, journal, plan, flight, reported>>
      BY <1>2 DEF RollbackStep
    <2> QED BY <2>2, <2>3, <2>4 DEF Inv, TypeOK, DataOK, ControlOK, StagedMove, RecordType
  <1>3. CASE RollbackEnd
    <2>1. manifest' \in [state : {"absent", "torn", "whole"}, records : Seq(RecordType)]
      BY <1>3, EmptySeq DEF Inv, TypeOK, DataOK, RollbackEnd, NoManifest
    <2> QED BY <1>3, <2>1 DEF Inv, TypeOK, DiskOK, DataOK, ControlOK, StagedMove, RollbackEnd,
                              run, FilesOn, RecordType
  <1> QED BY <1>1, <1>2, <1>3 DEF Rollback

LEMMA CrashInv == Inv /\ Crash => Inv'
  <1> SUFFICES ASSUME Inv, Crash PROVE Inv'
    OBVIOUS
  <1>1. journal' \in Seq(RecordType) /\ plan' \in Seq([from : PathRecord, to : PathRecord])
    BY EmptySeq DEF Crash
  <1>2. NoFlight \in [at : PathRecord, to : PathRecord, from : PathRecord]
    BY LibraryAssumption DEF NoFlight
  <1> QED BY <1>1, <1>2 DEF Inv, TypeOK, DiskOK, DataOK, ControlOK, StagedMove, Crash, FilesOn,
                            RecordType
-----------------------------------------------------------------------------
LEMMA StepInv == Inv /\ [Next]_vars => Inv'
  <1> SUFFICES ASSUME Inv, [Next]_vars PROVE Inv'
    OBVIOUS
  <1>1. CASE UNCHANGED vars
    BY <1>1 DEF Inv, TypeOK, DiskOK, DataOK, ControlOK, StagedMove, vars, FilesOn, RecordType, Exists
  <1> QED BY <1>1, ScanInv, UserInv, BeginInv, MoveInv, FinalizeInv, ManifestInv, RollbackInv,
             CrashInv DEF Next, Execute, User

(* Every variable always holds a value of its kind, and the disk never has *)
(* one file at two paths.                                                  *)
THEOREM TypeCorrect == Spec => []TypeOK
  <1>1. Spec => []Inv
    BY InitInv, StepInv, PTL DEF Spec
  <1> QED BY <1>1, PTL DEF Inv

(* The name a move probed for stays free until the move takes it.          *)
THEOREM StagedMoveHolds == Spec => []StagedMove
  <1>1. Spec => []Inv
    BY InitInv, StepInv, PTL DEF Spec
  <1> QED BY <1>1, PTL DEF Inv

LEMMA ExecuteStepKeepsFiles ==
    ASSUME Inv, [Next]_vars, Executing
    PROVE  FilesOn(disk') = FilesOn(disk)
  <1>1. CASE UNCHANGED disk
    BY <1>1 DEF FilesOn
  <1>2. CASE MoveIntoDirectory
    <2> DEFINE move == plan[step]
    <2>1. ASSUME disk' # disk
          PROVE  \E at : /\ move.from \in DOMAIN disk /\ at \notin DOMAIN disk
                         /\ disk' = RenameOn(disk, move.from, at)
      BY <1>2, <2>1, BoundAssumption, FirstFreeIsFree DEF MoveIntoDirectory, Exists
    <2> HIDE DEF move
    <2> QED BY <1>1, <2>1, RenameKeepsFiles
  <1>3. CASE FinalizeName
    <2>1. flight.at \in DOMAIN disk
      BY <1>3 DEF Inv, StagedMove, FinalizeName, Exists
    <2>2. flight.to \notin DOMAIN disk \/ flight.to = flight.at
      BY <1>3 DEF Inv, StagedMove, FinalizeName, Exists
    <2>3. disk' = disk \/ disk' = RenameOn(disk, flight.at, flight.to)
      BY <1>3 DEF FinalizeName
    <2> QED BY <1>1, <2>1, <2>2, <2>3, RenameKeepsFiles
  <1>4. UNCHANGED disk \/ MoveIntoDirectory \/ FinalizeName
    BY DEF Next, vars, Execute, Rollback, User, Executing, Idle, ExecuteBegin, OpenManifest,
           OpenManifestFails, WriteManifest, Return, RollbackBegin, RollbackStep, RollbackEnd,
           UserDeletes, UserAdds, Scan, Crash
  <1> QED BY <1>1, <1>2, <1>3, <1>4

(* An execution loses no file, whatever the library, the metadata and the  *)
(* failures of its renames.                                                *)
THEOREM ExecutionKeepsFiles == Spec => ExecuteKeepsFiles
  <1>1. Inv /\ [Next]_vars => [Executing => FilesOn(disk') = FilesOn(disk)]_vars
    BY ExecuteStepKeepsFiles
  <1> QED BY <1>1, InitInv, StepInv, PTL DEF Spec, ExecuteKeepsFiles
-----------------------------------------------------------------------------
(* The order of the naturals, and the least number of a set: what takes   *)
(* the place of an induction over the records of a journal.               *)
Less == {r \in Nat \X Nat : r[1] < r[2]}

LEMMA LeastOf ==
    ASSUME NEW T, T \subseteq Nat, T # {}
    PROVE  \E m \in T : \A j \in T : m <= j
  <1>1. IsWellFoundedOn(Less, Nat)
    BY NatLessThanWellFounded DEF OpToRel, Less
  <1>2. PICK m \in T : \A j \in T : ~(<<j, m>> \in Less)
    BY <1>1, WFMin
  <1>3. ASSUME NEW j \in T PROVE m <= j
    <2>1. m \in Nat /\ j \in Nat
      OBVIOUS
    <2>2. ~(j < m)
      BY <1>2, <2>1 DEF Less
    <2> QED BY <2>1, <2>2
  <1> QED BY <1>3

(* The disks before and after each record, from index m on. *)
Backs(f, records, d, m) ==
    f = [k \in m .. Len(records) |->
            IF k = Len(records) THEN d ELSE UndoRecord(records[k + 1], f[k + 1])]

LEMMA BacksExists ==
    ASSUME NEW records, Len(records) \in Nat, NEW d
    PROVE  \E f : Backs(f, records, d, 0)
  <1> DEFINE n == Len(records)
             T == {m \in 0 .. n : ~ \E f : Backs(f, records, d, n - m)}
  <1>1. ASSUME T # {} PROVE FALSE
    <2>0. T \subseteq Nat
      OBVIOUS
    <2>1. PICK m \in T : \A j \in T : m <= j
      <3> HIDE DEF T
      <3> QED BY <1>1, <2>0, LeastOf
    <2>2. m # 0
      <3>1. Backs([k \in n .. n |-> d], records, d, n)
        BY DEF Backs
      <3> QED BY <3>1, <2>1
    <2>3. PICK f : Backs(f, records, d, n - (m - 1))
      BY <2>1, <2>2
    <2> DEFINE i == n - m
               g == [k \in i .. n |-> IF k = i THEN UndoRecord(records[k + 1], f[k + 1]) ELSE f[k]]
    <2>4. i \in Nat /\ i < n /\ n - (m - 1) = i + 1
      BY <2>1, <2>2
    <2>5. \A k \in i + 1 .. n :
             f[k] = IF k = n THEN d ELSE UndoRecord(records[k + 1], f[k + 1])
      BY <2>3, <2>4 DEF Backs
    <2>6. Backs(g, records, d, i)
      <3>1. \A k \in i .. n : g[k] = IF k = n THEN d ELSE UndoRecord(records[k + 1], g[k + 1])
        <4>1. TAKE k \in i .. n
        <4>2. k \in Int /\ (k # n => k + 1 \in i + 1 .. n)
          BY <2>4
        <4>3. k # n => g[k + 1] = f[k + 1]
          BY <4>2, <2>4
        <4>4. k # i => k \in i + 1 .. n
          BY <2>4
        <4> QED BY <2>4, <2>5, <4>2, <4>3, <4>4
      <3>2. g = [k \in i .. n |-> g[k]]
        OBVIOUS
      <3> HIDE DEF g, n, i
      <3>3. n = Len(records)
        BY DEF n
      <3> QED BY <3>1, <3>2, <3>3 DEF Backs
    <2> QED BY <2>1, <2>6
  <1>2. n \in 0 .. n /\ n \notin T
    BY <1>1
  <1> QED BY <1>2

(* Undo is the function its definition says, since there is one. *)
LEMMA UndoIs ==
    ASSUME NEW records, Len(records) \in Nat, NEW d
    PROVE  \E f : Backs(f, records, d, 0) /\ Undo(records, d) = f[0]
  <1> DEFINE f == CHOOSE g : Backs(g, records, d, 0)
  <1>1. Backs(f, records, d, 0)
    BY BacksExists
  <1>2. Undo(records, d) = f[0]
    BY DEF Undo, Backs
  <1> QED BY <1>1, <1>2

(* Undoing a longer journal undoes its last record first.                  *)
LEMMA UndoLast ==
    ASSUME NEW S, NEW records \in Seq(S), NEW record \in S, NEW d
    PROVE  Undo(Append(records, record), d) = Undo(records, UndoRecord(record, d))
  <1> DEFINE n == Len(records)
             more == Append(records, record)
             e == UndoRecord(record, d)
  <1>1. /\ n \in Nat /\ Len(more) = n + 1 /\ more[n + 1] = record
        /\ \A k \in 1 .. n : more[k] = records[k]
    BY LenProperties, AppendProperties
  <1> HIDE DEF more, e
  <1>2. PICK f : Backs(f, more, d, 0) /\ Undo(more, d) = f[0]
    BY <1>1, UndoIs
  <1>3. PICK g : Backs(g, records, e, 0) /\ Undo(records, e) = g[0]
    BY <1>1, UndoIs
  <1>4. /\ f[n + 1] = d
        /\ \A k \in 0 .. n : f[k] = UndoRecord(more[k + 1], f[k + 1])
    BY <1>1, <1>2 DEF Backs
  <1>5. /\ g[n] = e
        /\ \A k \in 0 .. n - 1 : g[k] = UndoRecord(records[k + 1], g[k + 1])
    BY <1>1, <1>3 DEF Backs
  <1> HIDE DEF n
  <1> DEFINE T == {m \in 0 .. n : f[n - m] # g[n - m]}
  <1>6. ASSUME T # {} PROVE FALSE
    <2>0. T \subseteq Nat
      OBVIOUS
    <2>1. PICK m \in T : \A j \in T : m <= j
      <3> HIDE DEF T
      <3> QED BY <1>6, <2>0, LeastOf
    <2>2. m # 0
      BY <1>1, <1>4, <1>5, <2>1 DEF e
    <2> DEFINE i == n - m
    <2>3. i \in 0 .. n - 1 /\ i + 1 = n - (m - 1) /\ m - 1 \in 0 .. n
      BY <1>1, <2>1, <2>2
    <2>4. f[i + 1] = g[i + 1]
      BY <2>1, <2>2, <2>3
    <2>5. f[i] = g[i]
      BY <1>1, <1>4, <1>5, <2>3, <2>4
    <2> QED BY <2>1, <2>5
  <1>7. n \in 0 .. n /\ n - n = 0
    BY <1>1
  <1>8. f[0] = g[0]
    BY <1>6, <1>7
  <1> QED BY <1>2, <1>3, <1>8 DEF more, e

LEMMA UndoNone == ASSUME NEW d PROVE Undo(<<>>, d) = d
  <1>1. PICK f : Backs(f, <<>>, d, 0) /\ Undo(<<>>, d) = f[0]
    BY UndoIs
  <1> QED BY <1>1 DEF Backs

IsDisk(d) == d = [p \in DOMAIN d |-> d[p]]

(* The disk a move began with: between its two renames, the disk with the  *)
(* first one taken back.                                                   *)
Before == IF pc = "finalize" THEN RenameOn(disk, flight.at, flight.from) ELSE disk

Disks == IsDisk(disk) /\ IsDisk(start) /\ Single(start)

CacheOnce == \A i, j \in DOMAIN cache : cache[i].path = cache[j].path => i = j

PlanOnce == \A i, j \in DOMAIN plan : plan[i].from = plan[j].from => i = j

(* The move between its two renames is the move of the plan at this step.  *)
Flight ==
    pc = "finalize" =>
      /\ step \in DOMAIN plan /\ flight.from = plan[step].from
      /\ flight.from \notin DOMAIN disk /\ flight.to # flight.from
      /\ \E n \in 0 .. MaxSuffix : flight.to = Candidate(plan[step].to, n)

(* What is known of the move under way, of the plan and of the disks. *)
MovesInv == Inv /\ Disks /\ CacheOnce /\ PlanOnce /\ Flight

(* A step of an execution in which nothing fails: it stays on the disk the  *)
(* move began with, passes over a file that is gone, carries a file from   *)
(* its path to its target in one rename, or writes the manifest.           *)
Same == UNCHANGED <<journal, plan, start>>

Stays == /\ Same /\ pc' \in {"move", "finalize", "save"}
         /\ Before' = Before /\ step' = step

Passes == /\ Same /\ pc' = "move" /\ step \in DOMAIN plan
          /\ plan[step].from \notin DOMAIN Before
          /\ Before' = Before /\ step' = step + 1

Carries ==
    /\ pc = "finalize" /\ pc' = "move" /\ UNCHANGED <<plan, start>>
    /\ step \in DOMAIN plan /\ step' = step + 1
    /\ plan[step].from \in DOMAIN Before /\ flight.to \notin DOMAIN Before
    /\ \E n \in 0 .. MaxSuffix : flight.to = Candidate(plan[step].to, n)
    /\ Before' = RenameOn(Before, plan[step].from, flight.to)
    /\ journal' = Append(journal, [original |-> plan[step].from, new |-> flight.to])

Writes == /\ Same /\ pc = "save" /\ pc' = "idle" /\ UNCHANGED disk
          /\ manifest' = [state |-> "whole", records |-> journal]

LEMMA MoveStays ==
    ASSUME MovesInv, MoveIntoDirectory, intact'
    PROVE  Stays \/ Passes
  <1> DEFINE move == plan[step]
  <1>1. PICK probe \in FirstFree(disk, move.to, MaxSuffix),
             at \in FirstFree(disk, [move.from EXCEPT !.dir = move.to.dir], MaxSuffix) :
          \/ /\ Exists(disk, move.from) /\ NoFault
             /\ disk' = RenameOn(disk, move.from, at)
             /\ flight' = [at |-> at, to |-> probe, from |-> move.from]
             /\ pc' = "finalize"
             /\ UNCHANGED step
          \/ /\ IF Exists(disk, move.from) THEN Fault ELSE NoFault
             /\ step' = step + 1
             /\ UNCHANGED <<disk, flight, pc>>
    BY DEF MoveIntoDirectory
  <1>2. at \notin DOMAIN disk
    BY BoundAssumption, FirstFreeIsFree
  <1>3. pc = "move" /\ step \in DOMAIN plan /\ UNCHANGED <<journal, plan, start>>
    BY DEF MoveIntoDirectory
  <1>4. Before = disk
    BY <1>3 DEF Before
  <1>5. CASE /\ Exists(disk, move.from)
             /\ disk' = RenameOn(disk, move.from, at)
             /\ flight' = [at |-> at, to |-> probe, from |-> move.from]
             /\ pc' = "finalize" /\ step' = step
    <2>1. Before' = RenameOn(disk', at, move.from)
      BY <1>5 DEF Before
    <2>2. Before' = disk
      BY <1>2, <1>5, <2>1, RenameBack DEF MovesInv, Disks, IsDisk, Exists
    <2> QED BY <1>3, <1>4, <1>5, <2>2 DEF Stays, Same
  <1>6. CASE /\ IF Exists(disk, move.from) THEN Fault ELSE NoFault
             /\ step' = step + 1
             /\ UNCHANGED <<disk, flight, pc>>
    <2>1. move.from \notin DOMAIN disk
      <3>1. ASSUME Fault PROVE FALSE
        BY <3>1 DEF Fault
      <3> QED BY <1>6, <3>1 DEF Exists
    <2>2. Before' = disk
      BY <1>3, <1>6 DEF Before
    <2> QED BY <1>3, <1>4, <1>6, <2>1, <2>2 DEF Passes, Same
  <1> QED BY <1>1, <1>5, <1>6

LEMMA FinalizeCarries ==
    ASSUME MovesInv, FinalizeName, intact'
    PROVE  Carries
  <1>1. /\ pc = "finalize" /\ pc' = "move" /\ step' = step + 1
        /\ UNCHANGED <<plan, start>>
        /\ disk' = RenameOn(disk, flight.at, flight.to)
        /\ journal' = Append(journal, [original |-> flight.from, new |-> flight.to])
    <2>1. ASSUME Fault PROVE FALSE
      BY <2>1 DEF Fault
    <2> QED BY <2>1 DEF FinalizeName, RecordMove
  <1>2. /\ flight.at \in DOMAIN disk /\ flight.from \notin DOMAIN disk
        /\ flight.to \in DOMAIN disk => flight.to = flight.at
        /\ flight.to # flight.from
        /\ step \in DOMAIN plan /\ flight.from = plan[step].from
        /\ \E n \in 0 .. MaxSuffix : flight.to = Candidate(plan[step].to, n)
    BY <1>1 DEF MovesInv, Inv, StagedMove, Flight, Exists
  <1>3. Before = RenameOn(disk, flight.at, flight.from) /\ Before' = disk'
    BY <1>1 DEF Before
  <1>4. DOMAIN Before = (DOMAIN disk \ {flight.at}) \cup {flight.from}
    BY <1>3 DEF RenameOn
  <1>5. flight.from \in DOMAIN Before /\ flight.to \notin DOMAIN Before
    BY <1>2, <1>4
  <1>6. Before' = RenameOn(Before, flight.from, flight.to)
    BY <1>1, <1>2, <1>3, RenameTwice
  <1> QED BY <1>1, <1>2, <1>5, <1>6 DEF Carries

(* The steps of an execution in which nothing fails.                       *)
LEMMA ExecutionSteps ==
    ASSUME MovesInv, Executing, [Next]_vars, intact'
    PROVE  Stays \/ Passes \/ Carries \/ Writes
  <1>1. ASSUME Fault PROVE FALSE
    BY <1>1 DEF Fault
  <1>2. CASE UNCHANGED vars
    BY <1>2 DEF vars, Stays, Same, Before, Executing
  <1>3. CASE MoveIntoDirectory
    BY <1>3, MoveStays
  <1>4. CASE FinalizeName
    BY <1>4, FinalizeCarries
  <1>5. CASE OpenManifest
    BY <1>5 DEF OpenManifest, run, Stays, Same, Before
  <1>6. CASE OpenManifestFails
    BY <1>1, <1>6 DEF OpenManifestFails
  <1>7. CASE WriteManifest
    BY <1>7 DEF WriteManifest, Return, Writes, Same
  <1>8. CASE Crash
    BY <1>1, <1>8 DEF Crash
  <1>9. ~(ExecuteBegin \/ Rollback \/ User)
    BY DEF Executing, Idle, ExecuteBegin, Rollback, RollbackBegin, RollbackStep, RollbackEnd,
           User, UserDeletes, UserAdds, Scan
  <1> QED BY <1>2, <1>3, <1>4, <1>5, <1>6, <1>7, <1>8, <1>9 DEF Next, Execute

(* The steps with which nothing fails outside an execution. *)
Rests == UNCHANGED <<disk, manifest, journal, plan, pc, step, restored, start, intact>>

LEMMA OtherSteps ==
    ASSUME ~Executing, [Next]_vars, intact'
    PROVE  ExecuteBegin \/ Rollback \/ Rests
  <1>1. CASE UNCHANGED vars
    BY <1>1 DEF vars, Rests
  <1>2. CASE User
    BY <1>2 DEF User, UserDeletes, UserAdds, Scan, run, Rests
  <1>3. ~(MoveIntoDirectory \/ FinalizeName \/ OpenManifest \/ OpenManifestFails \/ WriteManifest)
    BY DEF Executing, MoveIntoDirectory, FinalizeName, OpenManifest, OpenManifestFails, WriteManifest
  <1>4. ~Crash
    BY DEF Crash, Fault
  <1> QED BY <1>1, <1>2, <1>3, <1>4 DEF Next, Execute

LEMMA InitMoves == Init => MovesInv
  <1> SUFFICES ASSUME Init PROVE MovesInv
    OBVIOUS
  <1>1. Inv
    BY InitInv
  <1>2. IsDisk(disk) /\ start = disk
    BY DEF Init, IsDisk
  <1>3. Single(disk)
    BY <1>1 DEF Inv, TypeOK, DiskOK, Single
  <1>4. CacheOnce /\ PlanOnce /\ Flight
    BY DEF Init, CacheOnce, PlanOnce, Flight
  <1> QED BY <1>1, <1>2, <1>3, <1>4 DEF MovesInv, Disks

LEMMA DisksStep == MovesInv /\ [Next]_vars => Disks'
  <1> SUFFICES ASSUME MovesInv, [Next]_vars PROVE Disks'
    OBVIOUS
  <1>1. disk' = disk \/ IsDisk(disk')
    <2>1. CASE MoveIntoDirectory \/ FinalizeName \/ RollbackStep
      BY <2>1 DEF MoveIntoDirectory, FinalizeName, RollbackStep, RenameOn, IsDisk
    <2>2. CASE UserDeletes \/ UserAdds
      BY <2>2 DEF UserDeletes, UserAdds, IsDisk
    <2>3. disk' = disk \/ MoveIntoDirectory \/ FinalizeName \/ RollbackStep \/ UserDeletes \/ UserAdds
      BY DEF Next, vars, Execute, Rollback, User, ExecuteBegin, OpenManifest, OpenManifestFails,
             WriteManifest, Return, RollbackBegin, RollbackEnd, Scan, Crash
    <2> QED BY <2>1, <2>2, <2>3
  <1>2. start' = start \/ start' = disk
    BY DEF Next, vars, Execute, Rollback, User, ExecuteBegin, MoveIntoDirectory, FinalizeName,
           OpenManifest, OpenManifestFails, WriteManifest, Return, RollbackBegin, RollbackStep,
           RollbackEnd, UserDeletes, UserAdds, Scan, Crash
  <1>3. IsDisk(disk) /\ IsDisk(start) /\ Single(start) /\ Single(disk)
    BY DEF MovesInv, Disks, Inv, TypeOK, DiskOK, Single
  <1>4. IsDisk(disk')
    BY <1>1, <1>3
  <1>5. IsDisk(start') /\ Single(start')
    BY <1>2, <1>3
  <1> QED BY <1>4, <1>5 DEF Disks

(* A scan adds no path the cache has.                                      *)
LEMMA CacheStep == MovesInv /\ [Next]_vars => CacheOnce'
  <1> SUFFICES ASSUME MovesInv, [Next]_vars PROVE CacheOnce'
    OBVIOUS
  <1>1. cache' = cache \/ Scan
    BY DEF Next, vars, Execute, Rollback, User, ExecuteBegin, MoveIntoDirectory, FinalizeName,
           OpenManifest, OpenManifestFails, WriteManifest, Return, RollbackBegin, RollbackStep,
           RollbackEnd, UserDeletes, UserAdds, Crash, run
  <1>2. CASE Scan
    <2> DEFINE Old(r)   == IF r = root THEN cache ELSE <<>>
               Found(r) == {p \in DOMAIN disk : p.dir \in r}
               Kept(r)  == [i \in DOMAIN Old(r) |->
                               [path |-> Old(r)[i].path,
                                file |-> IF Old(r)[i].path \in Found(r)
                                         THEN disk[Old(r)[i].path] ELSE Old(r)[i].file]]
    <2>1. PICK r \in Roots :
            \E added \in SetToSeqs(Found(r) \ Keys(Old(r))) :
               cache' = Kept(r) \o [i \in DOMAIN added |->
                                       [path |-> added[i], file |-> disk[added[i]]]]
      BY <1>2 DEF Scan
    <2> DEFINE new == Found(r) \ Keys(Old(r))
               kept == Kept(r)
    <2>2. PICK added \in SetToSeqs(new) :
            cache' = kept \o [i \in DOMAIN added |->
                                 [path |-> added[i], file |-> disk[added[i]]]]
      BY <2>1
    <2> DEFINE fresh == [i \in DOMAIN added |-> [path |-> added[i], file |-> disk[added[i]]]]
               n == Len(Old(r))
               m == Cardinality(new)
    <2>3. n \in Nat /\ DOMAIN kept = 1 .. n
      BY LenProperties, EmptySeq DEF MovesInv, Inv, TypeOK, DataOK
    <2>4. m \in Nat
      <3>1. new \subseteq DOMAIN disk
        OBVIOUS
      <3> HIDE DEF new
      <3> QED BY <3>1, FS_Subset, FS_CardinalityType DEF MovesInv, Inv, TypeOK, DiskOK
    <2>5. /\ DOMAIN added = 1 .. m
          /\ \A i \in 1 .. m : added[i] \in new
          /\ \A i, j \in 1 .. m : i # j => added[i] # added[j]
      <3> HIDE DEF new
      <3> QED BY DEF SetToSeqs
    <2>6. \A i, j \in 1 .. n : kept[i].path = kept[j].path => i = j
      <3>1. \A i \in 1 .. n : kept[i].path = Old(r)[i].path
        BY <2>3
      <3>2. \A i, j \in DOMAIN Old(r) : Old(r)[i].path = Old(r)[j].path => i = j
        BY DEF MovesInv, CacheOnce
      <3> QED BY <2>3, <3>1, <3>2
    <2>7. \A i \in 1 .. n : kept[i].path \notin new
      BY <2>3 DEF Keys
    <2> HIDE DEF kept, new, n, m, Old
    <2>8. Len(kept) = n /\ Len(fresh) = m /\ DOMAIN fresh = 1 .. m
          /\ \A i \in 1 .. m : fresh[i].path = added[i]
      BY <2>3, <2>4, <2>5
    <2> HIDE DEF fresh
    <2>9. /\ DOMAIN cache' = 1 .. n + m
          /\ \A i \in 1 .. n : cache'[i] = kept[i]
          /\ \A i \in 1 .. n + m : i > n => cache'[i] = fresh[i - n]
      BY <2>2, <2>3, <2>4, <2>8 DEF fresh
    <2>10. \A i \in 1 .. n + m : i > n => i - n \in 1 .. m
      BY <2>3, <2>4
    <2>11. ASSUME NEW i \in 1 .. n + m, NEW j \in 1 .. n + m,
                  cache'[i].path = cache'[j].path
           PROVE  i = j
      <3>1. CASE i <= n /\ j <= n
        BY <2>3, <2>4, <2>6, <2>9, <2>11, <3>1
      <3>2. CASE i > n /\ j > n
        <4>1. i - n \in 1 .. m /\ j - n \in 1 .. m
          BY <2>10, <3>2
        <4>2. added[i - n] = added[j - n]
          BY <2>8, <2>9, <2>11, <3>2, <4>1
        <4>3. i - n = j - n
          BY <2>5, <4>1, <4>2
        <4> QED BY <2>3, <2>4, <4>3
      <3>3. ASSUME NEW k \in 1 .. n, NEW l \in 1 .. n + m, l > n
            PROVE  cache'[k].path # cache'[l].path
        <4>1. l - n \in 1 .. m
          BY <2>10, <3>3
        <4> QED BY <2>5, <2>7, <2>8, <2>9, <3>3, <4>1
      <3> QED BY <2>3, <2>4, <2>11, <3>1, <3>2, <3>3
    <2> QED BY <2>9, <2>11 DEF CacheOnce
  <1> QED BY <1>1, <1>2 DEF MovesInv, CacheOnce

LEMMA PlanStep == MovesInv /\ [Next]_vars => PlanOnce'
  <1> SUFFICES ASSUME MovesInv, [Next]_vars PROVE PlanOnce'
    OBVIOUS
  <1>1. CASE ExecuteBegin
    BY <1>1 DEF ExecuteBegin, ComputePlan, MovesInv, CacheOnce, PlanOnce
  <1>2. ASSUME plan' = plan \/ plan' = <<>> PROVE PlanOnce'
    BY <1>2 DEF MovesInv, PlanOnce
  <1>3. plan' = plan \/ plan' = <<>> \/ ExecuteBegin
    BY DEF Next, vars, Execute, Rollback, User, MoveIntoDirectory, FinalizeName,
           OpenManifest, OpenManifestFails, WriteManifest, Return, RollbackBegin, RollbackStep,
           RollbackEnd, UserDeletes, UserAdds, Scan, Crash, run
  <1> QED BY <1>1, <1>2, <1>3

LEMMA FlightStep == MovesInv /\ [Next]_vars => Flight'
  <1> SUFFICES ASSUME MovesInv, [Next]_vars PROVE Flight'
    OBVIOUS
  <1>1. CASE MoveIntoDirectory
    <2> DEFINE move == plan[step]
    <2>1. PICK probe \in FirstFree(disk, move.to, MaxSuffix),
               at \in FirstFree(disk, [move.from EXCEPT !.dir = move.to.dir], MaxSuffix) :
            \/ /\ Exists(disk, move.from) /\ NoFault
               /\ disk' = RenameOn(disk, move.from, at)
               /\ flight' = [at |-> at, to |-> probe, from |-> move.from]
               /\ pc' = "finalize"
               /\ UNCHANGED step
            \/ /\ IF Exists(disk, move.from) THEN Fault ELSE NoFault
               /\ step' = step + 1
               /\ UNCHANGED <<disk, flight, pc>>
      BY <1>1 DEF MoveIntoDirectory
    <2>2. at \notin DOMAIN disk /\ probe \notin DOMAIN disk
          /\ \E n \in 0 .. MaxSuffix : probe = Candidate(move.to, n)
      BY BoundAssumption, FirstFreeIsFree
    <2>3. pc = "move" /\ step \in DOMAIN plan /\ plan' = plan
      BY <1>1 DEF MoveIntoDirectory
    <2>4. ASSUME pc' = "finalize"
          PROVE  /\ move.from \in DOMAIN disk
                 /\ disk' = RenameOn(disk, move.from, at)
                 /\ flight' = [at |-> at, to |-> probe, from |-> move.from]
                 /\ step' = step
      BY <2>1, <2>3, <2>4 DEF Exists
    <2>5. ASSUME pc' = "finalize" PROVE move.from \notin DOMAIN disk'
      BY <2>2, <2>4, <2>5 DEF RenameOn
    <2> QED BY <2>2, <2>3, <2>4, <2>5 DEF Flight
  <1>2. CASE UNCHANGED vars
    BY <1>2 DEF vars, MovesInv, Flight
  <1>3. ASSUME ~MoveIntoDirectory, ~UNCHANGED vars PROVE Flight' \/ (Idle /\ User)
    BY <1>3 DEF Next, Execute, Rollback, User, FinalizeName, ExecuteBegin, Idle,
           OpenManifest, OpenManifestFails, WriteManifest, Return, RollbackBegin, RollbackStep,
           RollbackEnd, UserDeletes, UserAdds, Scan, Crash, run, Flight
  <1>4. CASE Idle /\ User
    BY <1>4 DEF Idle, User, UserDeletes, UserAdds, Scan, Flight
  <1> QED BY <1>1, <1>2, <1>3, <1>4

LEMMA StepMoves == MovesInv /\ [Next]_vars => MovesInv'
  BY StepInv, DisksStep, CacheStep, PlanStep, FlightStep DEF MovesInv

-----------------------------------------------------------------------------
Placed(i) == \E n \in 0 .. MaxSuffix :
                 /\ Candidate(plan[i].to, n) \in DOMAIN Before
                 /\ Before[Candidate(plan[i].to, n)] = start[plan[i].from]

Unmoved(i) == /\ plan[i].from \in DOMAIN Before
              /\ Before[plan[i].from] = start[plan[i].from]

(* While a fresh plan is carried out, every file is where the plan puts it *)
(* or where it was: no move disturbs a file another move is about.         *)
Organized ==
    intact /\ FreshPlan /\ Executing =>
       \A i \in DOMAIN plan : IF i < step THEN Placed(i) ELSE Unmoved(i)

(* A move takes its own file from its path to a free one: the files placed *)
(* before and those still to move are other files at other paths.          *)
LEMMA OrganizedStep ==
    ASSUME MovesInv, Organized, [Next]_vars
    PROVE  Organized'
  <1> SUFFICES ASSUME intact', FreshPlan', Executing'
               PROVE  \A i \in DOMAIN plan' : IF i < step' THEN Placed(i)' ELSE Unmoved(i)'
    BY DEF Organized
  <1>1. CASE ExecuteBegin
    <2>1. /\ DOMAIN plan' = DOMAIN cache /\ DOMAIN cache \subseteq Nat \ {0}
          /\ step' = 1 /\ Before' = start'
      <3>1. cache \in Seq([path : PathRecord, file : Photos])
        BY DEF MovesInv, Inv, TypeOK, DataOK
      <3>2. DOMAIN cache = 1 .. Len(cache) /\ Len(cache) \in Nat
        BY <3>1, LenProperties
      <3> QED BY <1>1, <3>2 DEF ExecuteBegin, ComputePlan, Before
    <2>2. ASSUME NEW i \in DOMAIN plan' PROVE ~(i < step') /\ Unmoved(i)'
      BY <2>1 DEF FreshPlan, Unmoved, Exists
    <2> QED BY <2>2
  <1>2. CASE ~Executing /\ ~ExecuteBegin
    BY <1>2, OtherSteps DEF Rests, Rollback, RollbackBegin, RollbackStep, RollbackEnd, Executing
  <1>3. CASE Executing
    <2>1. plan' = plan /\ start' = start /\ intact /\ FreshPlan
      <3>1. plan' = plan /\ start' = start
        BY <1>3, ExecutionSteps DEF Stays, Passes, Carries, Writes, Same
      <3>2. intact
        BY <1>3 DEF Next, vars, Execute, Rollback, User, Executing, Idle, ExecuteBegin,
               MoveIntoDirectory, FinalizeName, OpenManifest, OpenManifestFails, WriteManifest,
               RollbackBegin, RollbackStep, RollbackEnd, UserDeletes, UserAdds, Scan, Crash,
               Fault, NoFault
      <3> QED BY <3>1, <3>2 DEF FreshPlan
    <2>2. \A i \in DOMAIN plan : IF i < step THEN Placed(i) ELSE Unmoved(i)
      BY <1>3, <2>1 DEF Organized
    <2>3. step \in Nat
      BY DEF MovesInv, Inv, TypeOK, ControlOK
    <2>4. CASE Stays
      BY <2>1, <2>2, <2>4 DEF Stays, Placed, Unmoved
    <2>5. CASE Passes
      BY <2>2, <2>3, <2>5 DEF Passes, Unmoved
    <2>6. CASE Carries
      <3> DEFINE from == plan[step].from
                 to == flight.to
      <3>1. /\ from \in DOMAIN Before /\ to \notin DOMAIN Before
            /\ Before' = RenameOn(Before, from, to) /\ step' = step + 1 /\ step \in DOMAIN plan
            /\ \E n \in 0 .. MaxSuffix : to = Candidate(plan[step].to, n)
        BY <2>6 DEF Carries
      <3>2. Before[from] = start[from]
        BY <2>2, <2>3, <3>1 DEF Unmoved
      <3> HIDE DEF to
      <3>3. /\ DOMAIN Before' = (DOMAIN Before \ {from}) \cup {to}
            /\ Before'[to] = start[from]
            /\ \A p \in DOMAIN Before \ {from} : Before'[p] = Before[p]
        BY <3>1, <3>2 DEF RenameOn
      <3>4. ASSUME NEW i \in DOMAIN plan, i # step, NEW p \in DOMAIN Before,
                   Before[p] = start[plan[i].from]
            PROVE  p \in DOMAIN Before' /\ Before'[p] = start[plan[i].from]
        <4>1. plan[i].from # from
          BY <3>1, <3>4 DEF MovesInv, PlanOnce
        <4>2. plan[i].from \in DOMAIN start /\ from \in DOMAIN start
          BY <2>1, <3>1 DEF FreshPlan, Exists
        <4>3. start[plan[i].from] # start[from]
          BY <4>1, <4>2 DEF MovesInv, Disks, Single
        <4>4. p # from
          BY <3>2, <3>4, <4>3
        <4> QED BY <3>3, <3>4, <4>4
      <3>5. ASSUME NEW i \in DOMAIN plan PROVE IF i < step' THEN Placed(i)' ELSE Unmoved(i)'
        <4>0. i \in Nat
          <5>1. plan \in Seq([from : PathRecord, to : PathRecord])
            BY DEF MovesInv, Inv, TypeOK, DataOK
          <5>2. DOMAIN plan = 1 .. Len(plan) /\ Len(plan) \in Nat
            BY <5>1, LenProperties
          <5> QED BY <5>2
        <4>1. CASE i = step
          <5>1. Placed(i)'
            BY <2>1, <3>1, <3>3, <4>1 DEF Placed
          <5> QED BY <2>3, <3>1, <4>1, <5>1
        <4>2. CASE i < step
          <5>1. PICK n \in 0 .. MaxSuffix :
                   /\ Candidate(plan[i].to, n) \in DOMAIN Before
                   /\ Before[Candidate(plan[i].to, n)] = start[plan[i].from]
            BY <2>2, <4>2 DEF Placed
          <5>2. i # step
            BY <2>3, <4>0, <4>2
          <5>3. Placed(i)'
            BY <2>1, <3>4, <5>1, <5>2 DEF Placed
          <5> QED BY <2>3, <3>1, <4>0, <4>2, <5>3
        <4>3. CASE i > step
          <5>1. Unmoved(i)
            BY <2>2, <2>3, <4>0, <4>3
          <5>2. Unmoved(i)'
            BY <2>1, <2>3, <3>4, <4>0, <4>3, <5>1 DEF Unmoved
          <5> QED BY <2>3, <3>1, <4>0, <4>3, <5>2
        <4> QED BY <2>3, <4>0, <4>1, <4>2, <4>3
      <3> QED BY <2>1, <3>5
    <2>7. ~Writes
      BY DEF Writes, Executing
    <2> QED BY <1>3, <2>4, <2>5, <2>6, <2>7, ExecutionSteps
  <1> QED BY <1>1, <1>2, <1>3

(* A fresh plan puts every file of the cache at the path its own metadata  *)
(* gives, or at that path with a suffix: OrganizerExecutePlan, for every   *)
(* library, metadata and order of the cache.                               *)
THEOREM FreshPlansOrganize == Spec => []FreshPlanOrganizes
  <1> DEFINE I == MovesInv /\ Organized
  <1>1. Init => I
    BY InitMoves DEF Init, Organized, Executing
  <1>2. I /\ [Next]_vars => I'
    BY StepMoves, OrganizedStep
  <1>3. I => FreshPlanOrganizes
    BY DEF Organized, FreshPlanOrganizes, Executing, Before, Placed, Exists
  <1> HIDE DEF I
  <1> QED BY <1>1, <1>2, <1>3, PTL DEF Spec

-----------------------------------------------------------------------------
(* The journal undoes the run from the disk as it was before the move under *)
(* way, whose record is not written yet.                                   *)
Undoable == intact /\ Executing => UndoJournal(Before) = start

LEMMA UndoableStep ==
    ASSUME MovesInv, Undoable, [Next]_vars
    PROVE  Undoable'
  <1> SUFFICES ASSUME intact', Executing' PROVE UndoJournal(Before)' = start'
    BY DEF Undoable
  <1>1. CASE ExecuteBegin
    <2>1. journal' = <<>> /\ Before' = disk /\ start' = disk
      BY <1>1 DEF ExecuteBegin, Before
    <2> QED BY <2>1, UndoNone DEF UndoJournal
  <1>2. CASE ~Executing /\ ~ExecuteBegin
    BY <1>2, OtherSteps DEF Rests, Rollback, RollbackBegin, RollbackStep, RollbackEnd, Executing
  <1>3. CASE Executing
    <2>1. intact
      BY <1>3 DEF Next, vars, Execute, Rollback, User, Executing, Idle, ExecuteBegin,
             MoveIntoDirectory, FinalizeName, OpenManifest, OpenManifestFails, WriteManifest,
             RollbackBegin, RollbackStep, RollbackEnd, UserDeletes, UserAdds, Scan, Crash,
             Fault, NoFault
    <2>2. Undo(journal, Before) = start
      BY <1>3, <2>1 DEF Undoable, UndoJournal
    <2>3. CASE Stays \/ Passes
      BY <2>2, <2>3 DEF Stays, Passes, Same, UndoJournal
    <2>4. CASE Carries
      <3> DEFINE from == plan[step].from
                 to == flight.to
                 record == [original |-> from, new |-> to]
                 after == RenameOn(Before, from, to)
      <3>1. /\ from \in DOMAIN Before /\ to \notin DOMAIN Before
            /\ Before' = after /\ journal' = Append(journal, record) /\ start' = start
        BY <2>4 DEF Carries
      <3>2. Before = [p \in DOMAIN Before |-> Before[p]]
        BY <2>4 DEF Before, Carries, RenameOn
      <3> HIDE DEF from, to
      <3>3. UndoRecord(record, after) = Before
        <4>1. to \in DOMAIN after
          BY DEF RenameOn
        <4>2. RenameOn(after, to, from) = Before
          BY <3>1, <3>2, RenameBack
        <4> HIDE DEF after
        <4> QED BY <4>1, <4>2 DEF UndoRecord, Exists
      <3>4. journal \in Seq(RecordType) /\ record \in RecordType
        <4>1. journal' \in Seq(RecordType) /\ journal \in Seq(RecordType)
          BY StepMoves DEF MovesInv, Inv, TypeOK, DataOK, RecordType
        <4>2. Len(journal') = Len(journal) + 1 /\ journal'[Len(journal) + 1] = record
              /\ Len(journal) \in Nat
          BY <3>1, <4>1, LenProperties, AppendProperties
        <4> HIDE DEF record
        <4> QED BY <4>1, <4>2, ElementOfSeq
      <3> HIDE DEF record, after
      <3>5. Undo(journal', Before') = Undo(journal, UndoRecord(record, after))
        BY <3>1, <3>4, UndoLast
      <3> QED BY <2>2, <3>1, <3>3, <3>5 DEF UndoJournal
    <2>5. ~Writes
      BY DEF Writes, Executing
    <2> QED BY <1>3, <2>3, <2>4, <2>5, ExecutionSteps
  <1> QED BY <1>1, <1>2, <1>3

(* The journal, undone from its last record to its first, leads from the   *)
(* disk back to the disk the execution began with, at every point of it.   *)
THEOREM JournalsUndoExecutions == Spec => []JournalUndoesExecution
  <1> DEFINE I == MovesInv /\ Undoable
  <1>1. Init => I
    BY InitMoves DEF Init, Undoable, Executing
  <1>2. I /\ [Next]_vars => I'
    BY StepMoves, UndoableStep
  <1>3. I => JournalUndoesExecution
    BY DEF Undoable, JournalUndoesExecution, Executing, Before
  <1> HIDE DEF I
  <1> QED BY <1>1, <1>2, <1>3, PTL DEF Spec

-----------------------------------------------------------------------------
(* The records a rollback has yet to undo, and their paths. *)
Left(records, k) == {i \in DOMAIN records : i >= k}
Originals(records, k) == {records[i].original : i \in Left(records, k)}
News(records, k) == {records[i].new : i \in Left(records, k)}

Distinct(records) ==
    \A i, j \in DOMAIN records : i # j =>
        records[i].original # records[j].original /\ records[i].new # records[j].new

(* The disk after, seen from the disk before: the files of the records from *)
(* k on are at their new paths, all others where they were.                *)
Rearranged(records, k, before, after) ==
    /\ Distinct(records)
    /\ \A i \in DOMAIN records :
          records[i].original \in DOMAIN before /\ records[i].new \notin DOMAIN before
    /\ DOMAIN after = (DOMAIN before \ Originals(records, k)) \cup News(records, k)
    /\ \A p \in DOMAIN before \ Originals(records, k) : after[p] = before[p]
    /\ \A i \in Left(records, k) : after[records[i].new] = before[records[i].original]

Disjoint(records) ==
    \A i, j \in DOMAIN records : records[i].original # records[j].new

(* No record, no change. *)
LEMMA NothingRearranged == ASSUME NEW d, NEW k PROVE Rearranged(<<>>, k, d, d)
  BY DEF Rearranged, Distinct, Originals, News, Left

(* One more move of a disjoint run. *)
LEMMA OneMoreMoved ==
    ASSUME NEW records, NEW n \in Nat, DOMAIN records = 1 .. n,
           NEW more, DOMAIN more = 1 .. n + 1,
           \A i \in 1 .. n : more[i] = records[i],
           NEW before, NEW after, Rearranged(records, 1, before, after),
           more[n + 1].original \in DOMAIN after, more[n + 1].new \notin DOMAIN after,
           Disjoint(more)
    PROVE  Rearranged(more, 1, before, RenameOn(after, more[n + 1].original, more[n + 1].new))
  <1> DEFINE from == more[n + 1].original
             to   == more[n + 1].new
             end  == RenameOn(after, from, to)
             O    == Originals(records, 1)
             N    == News(records, 1)
  <1>1. /\ DOMAIN end = (DOMAIN after \ {from}) \cup {to} /\ end[to] = after[from]
        /\ \A p \in DOMAIN after \ {from, to} : end[p] = after[p]
    BY DEF RenameOn
  <1> HIDE DEF end
  <1>2. /\ Left(records, 1) = 1 .. n /\ Left(more, 1) = 1 .. n + 1
        /\ n + 1 \in 1 .. n + 1 /\ 1 .. n \subseteq 1 .. n + 1
        /\ \A i \in 1 .. n + 1 : i \in 1 .. n \/ i = n + 1
    BY DEF Left
  <1>3. /\ Originals(more, 1) = O \cup {from}
        /\ News(more, 1) = N \cup {to}
    BY <1>2 DEF Originals, News
  <1>4. /\ DOMAIN after = (DOMAIN before \ O) \cup N
        /\ \A p \in DOMAIN before \ O : after[p] = before[p]
        /\ \A i \in 1 .. n : /\ after[records[i].new] = before[records[i].original]
                             /\ records[i].original \in DOMAIN before \cap O
                             /\ records[i].new \in N \ DOMAIN before
    BY <1>2 DEF Rearranged, Originals, News
  <1>5. from \notin N
    BY <1>2 DEF News, Disjoint
  <1>6. from \in DOMAIN before \ O /\ from \in DOMAIN after
    BY <1>4, <1>5
  <1>7. to \notin O
    BY <1>2 DEF Originals, Disjoint
  <1>8. to \notin DOMAIN before /\ to \notin N /\ to # from
    BY <1>4, <1>6, <1>7
  <1> HIDE DEF O, N, from, to
  <1>9. Distinct(more)
    <2>1. ASSUME NEW i \in 1 .. n
          PROVE  more[i].original # from /\ more[i].new # to
      BY <1>4, <1>6, <1>8, <2>1
    <2>2. ASSUME NEW i \in 1 .. n, NEW j \in 1 .. n, i # j
          PROVE  more[i].original # more[j].original /\ more[i].new # more[j].new
      BY <2>2 DEF Rearranged, Distinct
    <2> QED BY <1>2, <2>1, <2>2 DEF Distinct, from, to
  <1>10. \A i \in DOMAIN more : more[i].original \in DOMAIN before /\ more[i].new \notin DOMAIN before
    BY <1>2, <1>4, <1>6, <1>8 DEF from, to
  <1>11. DOMAIN end = (DOMAIN before \ Originals(more, 1)) \cup News(more, 1)
    BY <1>1, <1>3, <1>4, <1>5, <1>6, <1>8
  <1>12. \A p \in DOMAIN before \ Originals(more, 1) : end[p] = before[p]
    BY <1>1, <1>3, <1>4, <1>8
  <1>13. ASSUME NEW i \in Left(more, 1) PROVE end[more[i].new] = before[more[i].original]
    <2>1. CASE i = n + 1
      BY <1>1, <1>4, <1>6, <2>1 DEF from, to
    <2>2. CASE i \in 1 .. n
      <3>1. more[i].new \in N /\ more[i].new # to /\ more[i].new # from /\ more[i].new \in DOMAIN after
        BY <1>4, <1>5, <1>8, <2>2
      <3> QED BY <1>1, <1>4, <2>2, <3>1
    <2> QED BY <1>2, <2>1, <2>2
  <1>14. Rearranged(more, 1, before, end)
    BY <1>9, <1>10, <1>11, <1>12, <1>13 DEF Rearranged
  <1> QED BY <1>14 DEF end, from, to

(* One record undone. *)
LEMMA OneLessMoved ==
    ASSUME NEW records, NEW n \in Nat, DOMAIN records = 1 .. n, NEW k \in 1 .. n,
           NEW before, NEW after, Rearranged(records, k, before, after)
    PROVE  /\ records[k].new \in DOMAIN after
           /\ Rearranged(records, k + 1, before,
                         RenameOn(after, records[k].new, records[k].original))
  <1> DEFINE from == records[k].new
             to   == records[k].original
             end  == RenameOn(after, from, to)
             O    == Originals(records, k + 1)
             N    == News(records, k + 1)
  <1>1. /\ DOMAIN end = (DOMAIN after \ {from}) \cup {to} /\ end[to] = after[from]
        /\ \A p \in DOMAIN after \ {from, to} : end[p] = after[p]
    BY DEF RenameOn
  <1> HIDE DEF end
  <1>2. /\ Left(records, k) = Left(records, k + 1) \cup {k}
        /\ k \notin Left(records, k + 1)
        /\ Left(records, k + 1) \subseteq 1 .. n
    BY DEF Left
  <1>3. Originals(records, k) = O \cup {to} /\ News(records, k) = N \cup {from}
    BY <1>2 DEF Originals, News
  <1>4. /\ DOMAIN after = (DOMAIN before \ (O \cup {to})) \cup N \cup {from}
        /\ \A p \in DOMAIN before \ (O \cup {to}) : after[p] = before[p]
        /\ \A i \in Left(records, k) : after[records[i].new] = before[records[i].original]
        /\ from \notin DOMAIN before /\ to \in DOMAIN before
    BY <1>3 DEF Rearranged
  <1>5. to \notin O /\ from \notin N
    BY <1>2 DEF Originals, News, Rearranged, Distinct
  <1>6. \A p \in N : p \notin DOMAIN before
    BY <1>2 DEF News, Rearranged
  <1>7. \A i \in Left(records, k + 1) : records[i].new \in N
    BY DEF News
  <1> HIDE DEF O, N, from, to
  <1>8. DOMAIN end = (DOMAIN before \ O) \cup N
    BY <1>1, <1>4, <1>5, <1>6
  <1>9. after[from] = before[to]
    BY <1>2, <1>4 DEF from, to
  <1>10. \A p \in DOMAIN before \ O : end[p] = before[p]
    BY <1>1, <1>4, <1>9
  <1>11. ASSUME NEW i \in Left(records, k + 1) PROVE end[records[i].new] = before[records[i].original]
    <2>1. records[i].new \in DOMAIN after /\ records[i].new # from /\ records[i].new # to
      BY <1>4, <1>5, <1>6, <1>7
    <2> QED BY <1>1, <1>2, <1>4, <2>1
  <1>12. Rearranged(records, k + 1, before, end)
    BY <1>8, <1>10, <1>11 DEF Rearranged, O, N
  <1> QED BY <1>4, <1>12 DEF end, from, to

(* Every record undone. *)
LEMMA NothingLeft ==
    ASSUME NEW records, NEW k, Left(records, k) = {}, NEW before, NEW after,
           IsDisk(before), IsDisk(after), Rearranged(records, k, before, after)
    PROVE  after = before
  <1>1. Originals(records, k) = {} /\ News(records, k) = {}
    BY DEF Originals, News
  <1>2. DOMAIN after = DOMAIN before /\ \A p \in DOMAIN before : after[p] = before[p]
    BY <1>1 DEF Rearranged
  <1> QED BY <1>2 DEF IsDisk

(* As long as nothing failed: a rollback reads the journal of the last     *)
(* execution, and when that execution was disjoint, the records not yet    *)
(* undone are all that separates the disk from the one it began with.      *)
ReadsJournal ==
    intact =>
      /\ pc = "rollback" => manifest.state = "whole"
      /\ pc \in {"idle", "rollback"} /\ manifest.state = "whole" => manifest.records = journal

Reversible ==
    intact /\ Disjoint(journal) =>
      /\ Executing => Rearranged(journal, 1, start, Before)
      /\ Idle /\ manifest.state = "whole" => Rearranged(journal, 1, start, disk)
      /\ Idle /\ manifest = NoManifest => disk = start
      /\ pc = "rollback" =>
            /\ Rearranged(journal, step, start, disk)
            /\ step <= Len(journal) + 1 /\ restored = step - 1

UndoneInv == MovesInv /\ ReadsJournal /\ Reversible

LEMMA IntactBefore ==
    ASSUME [Next]_vars, intact' PROVE intact \/ ExecuteBegin
  BY DEF Next, vars, Execute, Rollback, User, RollbackBegin, RollbackStep, RollbackEnd,
         MoveIntoDirectory, FinalizeName, OpenManifest, OpenManifestFails, WriteManifest,
         UserDeletes, UserAdds, Scan, Crash, Fault, NoFault

LEMMA Controls == Inv => pc \in {"idle", "move", "finalize", "save", "rollback"}
  BY DEF Inv, TypeOK, ControlOK

LEMMA ReadsStep ==
    ASSUME UndoneInv, [Next]_vars
    PROVE  ReadsJournal'
  <1> SUFFICES ASSUME intact'
               PROVE  /\ pc' = "rollback" => manifest'.state = "whole"
                      /\ pc' \in {"idle", "rollback"} /\ manifest'.state = "whole"
                            => manifest'.records = journal'
    BY DEF ReadsJournal
  <1>1. CASE ExecuteBegin
    BY <1>1 DEF ExecuteBegin
  <1>2. CASE Executing
    BY <1>2, ExecutionSteps DEF UndoneInv, Stays, Passes, Carries, Writes, Same
  <1>3. CASE ~Executing /\ ~ExecuteBegin
    <2>1. /\ pc = "rollback" => manifest.state = "whole"
          /\ pc \in {"idle", "rollback"} /\ manifest.state = "whole" => manifest.records = journal
      BY <1>3, IntactBefore DEF UndoneInv, ReadsJournal
    <2>2. pc \in {"idle", "rollback"}
      BY <1>3, Controls DEF UndoneInv, MovesInv, Executing
    <2>3. CASE Rests
      BY <2>1, <2>2, <2>3 DEF Rests
    <2>4. CASE RollbackBegin
      BY <2>1, <2>2, <2>4 DEF RollbackBegin, Rollbackable
    <2>5. CASE RollbackStep
      BY <2>1, <2>2, <2>5 DEF RollbackStep
    <2>6. CASE RollbackEnd
      BY <2>1, <2>2, <2>6 DEF RollbackEnd, NoManifest, run
    <2> QED BY <1>3, <2>3, <2>4, <2>5, <2>6, OtherSteps DEF Rollback
  <1> QED BY <1>1, <1>2, <1>3

LEMMA CarriesRearranges ==
    ASSUME UndoneInv, [Next]_vars, intact, Executing, Carries, Disjoint(journal')
    PROVE  Rearranged(journal', 1, start', Before')
  <1>1. journal \in Seq(RecordType) /\ journal' \in Seq(RecordType)
    BY StepMoves DEF UndoneInv, MovesInv, Inv, TypeOK, DataOK, RecordType
  <1> DEFINE n == Len(journal)
             record == [original |-> plan[step].from, new |-> flight.to]
  <1>2. journal' = Append(journal, record)
    BY DEF Carries
  <1>3. /\ n \in Nat /\ DOMAIN journal = 1 .. n /\ DOMAIN journal' = 1 .. n + 1
        /\ journal'[n + 1] = record
        /\ \A i \in 1 .. n : journal'[i] = journal[i]
    <2> HIDE DEF record
    <2> QED BY <1>1, <1>2, LenProperties, AppendProperties
  <1>4. Disjoint(journal)
    BY <1>3 DEF Disjoint
  <1>5. Rearranged(journal, 1, start, Before)
    BY <1>4 DEF UndoneInv, Reversible
  <1>6. /\ record.original \in DOMAIN Before /\ record.new \notin DOMAIN Before
        /\ Before' = RenameOn(Before, record.original, record.new) /\ start' = start
    BY DEF Carries
  <1> HIDE DEF n, record
  <1>7. Rearranged(journal', 1, start,
                   RenameOn(Before, journal'[n + 1].original, journal'[n + 1].new))
    BY <1>3, <1>5, <1>6, OneMoreMoved
  <1> QED BY <1>3, <1>6, <1>7

LEMMA ReversibleStep ==
    ASSUME UndoneInv, [Next]_vars
    PROVE  Reversible'
  <1> SUFFICES ASSUME intact', Disjoint(journal')
               PROVE  /\ Executing' => Rearranged(journal', 1, start', Before')
                      /\ pc' = "idle" /\ manifest'.state = "whole"
                            => Rearranged(journal', 1, start', disk')
                      /\ pc' = "idle" /\ manifest' = NoManifest => disk' = start'
                      /\ pc' = "rollback" =>
                            /\ Rearranged(journal', step', start', disk')
                            /\ step' <= Len(journal') + 1 /\ restored' = step' - 1
    BY DEF Reversible, Idle
  <1>1. CASE ExecuteBegin
    <2>1. journal' = <<>> /\ Before' = disk /\ start' = disk /\ pc' = "move"
      BY <1>1 DEF ExecuteBegin, Before
    <2> QED BY <2>1, NothingRearranged
  <1>2. CASE Executing
    <2>1. intact
      BY <1>2, IntactBefore DEF Executing, ExecuteBegin, Idle
    <2>2. CASE Stays \/ Passes
      <3>1. journal' = journal /\ start' = start /\ Before' = Before
            /\ pc' \in {"move", "finalize", "save"}
        BY <2>2 DEF Stays, Passes, Same
      <3>2. Rearranged(journal, 1, start, Before)
        BY <1>2, <2>1, <3>1 DEF UndoneInv, Reversible
      <3> QED BY <3>1, <3>2
    <2>3. CASE Carries
      BY <1>2, <2>1, <2>3, CarriesRearranges DEF Carries
    <2>4. CASE Writes
      <3>1. journal' = journal /\ start' = start /\ disk' = disk /\ Before = disk /\ pc' = "idle"
            /\ manifest'.state = "whole"
        BY <2>4 DEF Writes, Same, Before
      <3>2. Rearranged(journal, 1, start, Before)
        BY <1>2, <2>1, <3>1 DEF UndoneInv, Reversible
      <3>3. manifest' # NoManifest
        BY <3>1 DEF NoManifest
      <3>4. ~Executing'
        BY <3>1 DEF Executing
      <3> QED BY <3>1, <3>2, <3>3, <3>4
    <2> QED BY <1>2, <2>2, <2>3, <2>4, ExecutionSteps DEF UndoneInv
  <1>3. CASE ~Executing /\ ~ExecuteBegin
    <2>1. intact /\ pc \in {"idle", "rollback"}
      BY <1>3, IntactBefore, Controls DEF UndoneInv, MovesInv, Executing
    <2>2. UNCHANGED <<journal, start>>
      BY <1>3, OtherSteps DEF Rests, Rollback, RollbackBegin, RollbackStep, RollbackEnd, run
    <2>3. /\ pc = "rollback" => manifest.state = "whole"
          /\ manifest.state = "whole" => manifest.records = journal
          /\ pc = "idle" /\ manifest.state = "whole" => Rearranged(journal, 1, start, disk)
          /\ pc = "idle" /\ manifest = NoManifest => disk = start
          /\ pc = "rollback" =>
                /\ Rearranged(journal, step, start, disk)
                /\ step <= Len(journal) + 1 /\ restored = step - 1
      BY <2>1, <2>2 DEF UndoneInv, ReadsJournal, Reversible, Idle
    <2>4. Len(journal) \in Nat /\ DOMAIN journal = 1 .. Len(journal) /\ step \in Nat \ {0}
      BY LenProperties DEF UndoneInv, MovesInv, Inv, TypeOK, DataOK, ControlOK
    <2>5. CASE Rests
      <3>1. ~Executing'
        BY <1>3, <2>5 DEF Rests, Executing
      <3> QED BY <2>1, <2>3, <2>5, <3>1 DEF Rests
    <2>6. CASE RollbackBegin
      <3>1. pc' = "rollback" /\ step' = 1 /\ restored' = 0 /\ disk' = disk
            /\ Rearranged(journal, 1, start, disk)
        BY <2>3, <2>6 DEF RollbackBegin, Rollbackable, Idle
      <3>2. ~Executing'
        BY <3>1 DEF Executing
      <3>3. Len(journal') = Len(journal)
        BY <2>2
      <3> QED BY <2>2, <2>4, <3>1, <3>2, <3>3
    <2>7. CASE RollbackStep
      <3> DEFINE record == journal[step]
      <3>1. /\ pc = "rollback" /\ pc' = "rollback" /\ step \in 1 .. Len(journal)
            /\ manifest.records[step] = record /\ step' = step + 1
        BY <2>3, <2>4, <2>7 DEF RollbackStep
      <3>2. record.new \in DOMAIN disk /\
            Rearranged(journal, step + 1, start, RenameOn(disk, record.new, record.original))
        BY <2>3, <2>4, <3>1, OneLessMoved
      <3>3. disk' = RenameOn(disk, record.new, record.original) /\ restored' = restored + 1
        <4>1. ASSUME Fault PROVE FALSE
          BY <4>1 DEF Fault
        <4> QED BY <2>7, <3>1, <3>2, <4>1 DEF RollbackStep, RollbackRecord, Exists
      <3>4. ~Executing'
        BY <3>1 DEF Executing
      <3>5. restored' = step' - 1 /\ step' <= Len(journal') + 1
        BY <2>2, <2>3, <2>4, <3>1, <3>3
      <3> QED BY <2>2, <3>1, <3>2, <3>3, <3>4, <3>5
    <2>8. CASE RollbackEnd
      <3>1. /\ pc = "rollback" /\ pc' = "idle" /\ step \notin 1 .. Len(journal)
            /\ manifest' = IF restored = Len(journal) THEN NoManifest ELSE manifest
            /\ disk' = disk
        BY <2>3, <2>4, <2>8 DEF RollbackEnd
      <3>2. step = Len(journal) + 1 /\ restored = Len(journal)
        BY <2>3, <2>4, <3>1
      <3>3. Left(journal, step) = {}
        BY <2>4, <3>2 DEF Left
      <3>4. disk = start
        BY <2>3, <3>1, <3>3, NothingLeft DEF UndoneInv, MovesInv, Disks
      <3>5. ~Executing' /\ manifest' = NoManifest /\ manifest'.state # "whole"
        BY <3>1, <3>2 DEF Executing, NoManifest
      <3> QED BY <2>2, <3>1, <3>4, <3>5
    <2> QED BY <1>3, <2>5, <2>6, <2>7, <2>8, OtherSteps DEF Rollback
  <1> QED BY <1>1, <1>2, <1>3

(* One rollback undoes a disjoint execution completely, when nothing failed *)
(* and the user changed nothing in between: AppRollback, although it walks *)
(* the manifest from its first record to its last.                         *)
THEOREM RollbackUndoesDisjointRuns == Spec => []RollbackUndoesDisjointRun
  <1>1. Init => UndoneInv
    BY InitMoves DEF Init, UndoneInv, ReadsJournal, Reversible, Executing, Idle, NoManifest
  <1>2. UndoneInv /\ [Next]_vars => UndoneInv'
    BY StepMoves, ReadsStep, ReversibleStep DEF UndoneInv
  <1>3. UndoneInv => RollbackUndoesDisjointRun
    BY DEF UndoneInv, Reversible, RollbackUndoesDisjointRun, DisjointRun, Disjoint
  <1> QED BY <1>1, <1>2, <1>3, PTL DEF Spec
=============================================================================
