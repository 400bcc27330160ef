--------------------------- MODULE RenamerProofs ---------------------------
(***************************************************************************)
(* The renamer never overwrites or drops a file, for every directory,      *)
(* every pattern and every bound: it implements FileStore.  It renames     *)
(* only the files the preview saw, what it records can be rolled back, a   *)
(* preflight is kept, and tags follow their files as long as no two files  *)
(* are at paths that differ in case only.                                  *)
(*                                                                         *)
(* The targets of a preview are all chosen before the first file is        *)
(* renamed, on the disk as it is then.  That each of them is still free    *)
(* when its turn comes rests on PlanIsSafe, and PlanIsSafe on the sources  *)
(* of a preview being distinct.  On it rests what the moves say while they *)
(* are made (Seen, Made), and on that what a rollback can promise          *)
(* (Apart, Promise) and where the tags are (TagsMatch).                    *)
(***************************************************************************)
EXTENDS Renamer, FiniteSets, FiniteSetTheorems, SequenceTheorems, TLAPS
-----------------------------------------------------------------------------
(* Files on a disk.                                                        *)

(* No file is at two paths. *)
Single(d) == \A p, q \in DOMAIN d : d[p] = d[q] => p = q

(* A function on 1 .. n is a sequence.                                     *)
LEMMA SeqIntro ==
    ASSUME NEW S, NEW n \in Nat, NEW f \in [1 .. n -> S]
    PROVE  f \in Seq(S)
  BY SeqDef

(* The n-th name the collision loops try is a path: only its suffix grows. *)
LEMMA CandidateKeepsShape ==
    ASSUME NEW path \in [dir : STRING, stem : STRING, sfx : Seq(Nat)], NEW n \in Nat
    PROVE  Candidate(path, n) \in [dir : STRING, stem : STRING, sfx : Seq(Nat)]
  <1>1. Append(path.sfx, n) \in Seq(Nat)
    BY AppendProperties
  <1>2. Suffixed(path, n) \in [dir : STRING, stem : STRING, sfx : Seq(Nat)]
    <2>1. /\ Suffixed(path, n) = [path EXCEPT !.sfx = Append(path.sfx, n)]
          /\ path.dir \in STRING /\ path.stem \in STRING
      BY DEF Suffixed
    <2> QED BY ONLY <2>1, <1>1, path \in [dir : STRING, stem : STRING, sfx : Seq(Nat)]
  <1> QED BY <1>2 DEF Candidate

(* Any rename loses no file but the one at the path it overwrites. *)
LEMMA RenameAddsNoFile ==
    ASSUME NEW d, NEW from \in DOMAIN d, NEW to
    PROVE  FilesOn(RenameOn(d, from, to)) \subseteq FilesOn(d)
  BY DEF RenameOn, FilesOn

(* A rename never leaves a file at two paths. *)
LEMMA RenameKeepsSingle ==
    ASSUME NEW d, Single(d), NEW from \in DOMAIN d, NEW to
    PROVE  Single(RenameOn(d, from, to))
  BY DEF RenameOn, Single

(* A disk stays finite. *)
LEMMA RenameKeepsFinite ==
    ASSUME NEW d, IsFiniteSet(DOMAIN d), NEW from \in DOMAIN d, NEW to
    PROVE  IsFiniteSet(DOMAIN RenameOn(d, from, to))
  <1>1. IsFiniteSet((DOMAIN d \ {from}) \cup {to})
    BY FS_AddElement, FS_RemoveElement
  <1> QED BY <1>1 DEF RenameOn
-----------------------------------------------------------------------------

WellFormed(list) ==
    /\ list \in Seq(ItemRecord)
    /\ \A i, j \in DOMAIN list : list[i].source = list[j].source => i = j

PreviewsOK == \A preview \in previews : WellFormed(preview.items)

(* One target has been chosen for each item before the current one, and    *)
(* one for every item when the renames begin.                              *)
TargetsOK ==
    /\ WellFormed(items)
    /\ pc = "plan"   => step > 0 /\ Len(targets) = step - 1 /\ step <= Len(items) + 1
    /\ pc = "rename" => step > 0 /\ Len(targets) = Len(items)

Inv == TypeOK /\ PreviewsOK /\ TargetsOK /\ PlanIsSafe
-----------------------------------------------------------------------------
LEMMA CandidateType ==
    ASSUME NEW path \in PathRecord, NEW n \in Nat
    PROVE  Candidate(path, n) \in PathRecord
  BY CandidateKeepsShape DEF PathRecord

LEMMA RenameKeepsDisk ==
    ASSUME DiskOK, NEW from \in DOMAIN disk, NEW to \in PathRecord,
           disk' = RenameOn(disk, from, to)
    PROVE  DiskOK'
  <1>1. IsFiniteSet(DOMAIN disk')
    BY RenameKeepsFinite DEF DiskOK
  <1>2. FilesOn(disk') \subseteq Photos
    BY RenameAddsNoFile DEF DiskOK
  <1>3. Single(disk')
    BY RenameKeepsSingle DEF DiskOK, Single
  <1>4. DOMAIN disk' \subseteq PathRecord
    BY DEF DiskOK, RenameOn
  <1> QED BY <1>1, <1>2, <1>3, <1>4 DEF DiskOK, Single

(* The last keep entries of a sequence are a sequence of at most keep.     *)
LEMMA NewestType ==
    ASSUME NEW S, NEW entries \in Seq(S), NEW keep \in Nat
    PROVE  Newest(entries, keep) \in Seq(S) /\ Len(Newest(entries, keep)) <= keep
  <1>1. Len(entries) \in Nat
    BY LenProperties
  <1>2. CASE Len(entries) <= keep
    BY <1>2 DEF Newest
  <1>3. CASE Len(entries) > keep
    <2>1. Len(entries) - keep + 1 \in 1 .. Len(entries) + 1
      BY <1>1, <1>3
    <2>2. SubSeq(entries, Len(entries) - keep + 1, Len(entries)) \in Seq(S)
      BY <1>1, <2>1, SubSeqProperties
    <2>3. Len(SubSeq(entries, Len(entries) - keep + 1, Len(entries))) = keep
      BY <1>1, <2>1, <1>3, SubSeqProperties
    <2> QED BY <1>1, <1>3, <2>2, <2>3 DEF Newest
  <1> QED BY <1>1, <1>2, <1>3

(* An index that was cut short is loaded as an empty one. *)
LEMMA EmptyIndex == <<>> \in Seq(Entry) /\ Len(<<>>) <= MaxHistory
  BY EmptySeq, BoundAssumption

LEMMA InitInv == Init => Inv
  <1> SUFFICES ASSUME Init PROVE Inv
    OBVIOUS
  <1> USE DEF Init
  <1>1. DiskOK
    <2>1. PICK present \in SUBSET Photos :
            disk = [p \in {Home[f] : f \in present} |-> CHOOSE f \in Photos : Home[f] = p]
      OBVIOUS
    <2>2. \A p \in DOMAIN disk : disk[p] \in Photos /\ Home[disk[p]] = p
      BY <2>1
    <2>3. IsFiniteSet(DOMAIN disk)
      <3>1. disk \in Injection(DOMAIN disk, Photos)
        BY <2>1, <2>2 DEF Injection, IsInjective
      <3> QED BY <3>1, FS_Injection, LibraryAssumption
    <2>4. DOMAIN disk \subseteq PathRecord
      BY <2>1, LibraryAssumption
    <2> QED BY <2>2, <2>3, <2>4 DEF DiskOK, FilesOn
  <1>2. PlanOK /\ HistoryOK /\ ControlOK
    BY EmptySeq, BoundAssumption DEF PlanOK, HistoryOK, ControlOK
  <1> QED BY <1>1, <1>2, EmptySeq DEF Inv, TypeOK, PreviewsOK, TargetsOK, PlanIsSafe, WellFormed
-----------------------------------------------------------------------------
(* The steps.  What an action outside the plan and the renames has to show. *)
LEMMA OutsidePlan ==
    ASSUME Inv, DiskOK', PreviewsOK', HistoryOK', moves' \in Seq(MoveRecord),
           UNCHANGED <<items, targets>>, step' \in Nat, clock' \in Nat,
           pc' \in {"idle", "manifest", "index", "restore", "mark"}
    PROVE  Inv'
  <1>1. PlanOK'
    BY DEF Inv, TypeOK, PlanOK, PreviewsOK, WellFormed, ItemRecord, MoveRecord
  <1>2. ControlOK'
    BY DEF ControlOK
  <1>3. TargetsOK' /\ PlanIsSafe'
    BY DEF Inv, TargetsOK, PlanIsSafe, WellFormed, ItemRecord
  <1> QED BY <1>1, <1>2, <1>3 DEF Inv, TypeOK

LEMMA SameDisk == ASSUME DiskOK, UNCHANGED disk PROVE DiskOK'
  BY DEF DiskOK, FilesOn

LEMMA SamePreviews == ASSUME PreviewsOK, UNCHANGED previews PROVE PreviewsOK'
  BY DEF PreviewsOK, WellFormed, ItemRecord

LEMMA SameHistory == ASSUME HistoryOK, UNCHANGED <<manifests, index>> PROVE HistoryOK'
  BY DEF HistoryOK, Entry, IdRecord, ItemRecord, MoveRecord

LEMMA UserInv == Inv /\ User => Inv'
  <1> SUFFICES ASSUME Inv, User PROVE Inv'
    OBVIOUS
  <1>1. DiskOK'
    <2>1. CASE Tick
      BY <2>1, SameDisk DEF Tick, Inv, TypeOK
    <2>2. CASE UserDeletes
      <3>1. PICK p \in DOMAIN disk : disk' = [q \in DOMAIN disk \ {p} |-> disk[q]]
        BY <2>2 DEF UserDeletes
      <3>2. IsFiniteSet(DOMAIN disk')
        BY <3>1, FS_RemoveElement DEF Inv, TypeOK, DiskOK
      <3> QED BY <3>1, <3>2 DEF Inv, TypeOK, DiskOK, FilesOn
    <2>3. CASE UserAdds
      <3>1. PICK f \in Photos \ FilesOn(disk) :
              /\ ~Exists(disk, Home[f])
              /\ disk' = [p \in DOMAIN disk \cup {Home[f]} |->
                             IF p = Home[f] THEN f ELSE disk[p]]
        BY <2>3 DEF UserAdds
      <3>2. IsFiniteSet(DOMAIN disk')
        BY <3>1, FS_AddElement DEF Inv, TypeOK, DiskOK
      <3>3. Home[f] \in PathRecord
        BY LibraryAssumption
      <3> QED BY <3>1, <3>2, <3>3 DEF Inv, TypeOK, DiskOK, FilesOn, Exists
    <2> QED BY <2>1, <2>2, <2>3 DEF User
  <1>2. /\ UNCHANGED <<previews, manifests, index, items, targets, moves, step>>
        /\ pc' = "idle" /\ clock' \in Nat
    BY DEF User, Tick, UserDeletes, UserAdds, store, local, Idle, Inv, TypeOK, ControlOK
  <1>3. PreviewsOK' /\ HistoryOK'
    BY <1>2, SamePreviews, SameHistory DEF Inv, TypeOK
  <1> QED BY <1>1, <1>2, <1>3, OutsidePlan DEF Inv, TypeOK, PlanOK, ControlOK

(* The items of a preview are well formed because the files it lists are   *)
(* the paths of the disk, each once.                                       *)
LEMMA PreviewInv == Inv /\ Preview => Inv'
  <1> SUFFICES ASSUME Inv, Preview PROVE Inv'
    OBVIOUS
  <1>1. /\ UNCHANGED <<disk, manifests, index, items, targets, moves, step, clock>>
        /\ pc' = "idle"
    BY DEF Preview, local, Idle
  <1>2. PreviewsOK'
    <2>1. CASE UNCHANGED previews
      BY <2>1, SamePreviews DEF Inv
    <2>2. ASSUME NEW pattern \in Patterns, NEW list \in SetToSeqs(DOMAIN disk),
                 NEW made,
                 made = [i \in DOMAIN list |->
                           [source |-> list[i], file |-> disk[list[i]],
                            candidate |-> CandidatePath(pattern, list[i], disk[list[i]])]]
          PROVE  WellFormed(made)
      <3> DEFINE n == Cardinality(DOMAIN disk)
      <3>1. n \in Nat
        BY FS_CardinalityType DEF Inv, TypeOK, DiskOK
      <3>2. /\ list \in [1 .. n -> DOMAIN disk]
            /\ \A i, j \in 1 .. n : i # j => list[i] # list[j]
        BY DEF SetToSeqs
      <3> HIDE DEF n
      <3>3. \A p \in DOMAIN disk : p \in PathRecord /\ disk[p] \in Photos
        BY DEF Inv, TypeOK, DiskOK, FilesOn
      <3>4. \A p \in DOMAIN disk : CandidatePath(pattern, p, disk[p]) \in PathRecord
        <4>1. \A f \in Photos : pattern[f] \in NameRecord
          BY LibraryAssumption
        <4> QED BY <3>3, <4>1 DEF CandidatePath, PathRecord, NameRecord
      <3>5. made \in [1 .. n -> ItemRecord]
        BY <2>2, <3>2, <3>3, <3>4 DEF ItemRecord
      <3>6. made \in Seq(ItemRecord)
        BY <3>1, <3>5, SeqIntro
      <3>7. \A i, j \in DOMAIN made : made[i].source = made[j].source => i = j
        BY <2>2, <3>2
      <3> QED BY <3>6, <3>7 DEF WellFormed
    <2>3. ASSUME previews' # previews
          PROVE  \E list \in SetToSeqs(DOMAIN disk), pattern \in Patterns, c \in BOOLEAN :
                   previews' = previews \cup
                     {[items |-> [i \in DOMAIN list |->
                         [source |-> list[i], file |-> disk[list[i]],
                          candidate |-> CandidatePath(pattern, list[i], disk[list[i]])]],
                       collisions |-> c]}
      BY <2>3 DEF Preview
    <2>4. CASE previews' # previews
      <3>1. PICK list \in SetToSeqs(DOMAIN disk), pattern \in Patterns, c \in BOOLEAN :
                   previews' = previews \cup
                     {[items |-> [i \in DOMAIN list |->
                         [source |-> list[i], file |-> disk[list[i]],
                          candidate |-> CandidatePath(pattern, list[i], disk[list[i]])]],
                       collisions |-> c]}
        BY <2>3, <2>4
      <3> DEFINE made == [i \in DOMAIN list |->
                         [source |-> list[i], file |-> disk[list[i]],
                          candidate |-> CandidatePath(pattern, list[i], disk[list[i]])]]
      <3>2. WellFormed(made)
        BY <2>2
      <3> HIDE DEF made
      <3>3. \A preview \in previews' : preview \in previews \/ preview.items = made
        BY <3>1 DEF made
      <3>4. \A preview \in previews' : WellFormed(preview.items)
        BY <3>2, <3>3 DEF Inv, PreviewsOK
      <3> QED BY <3>4 DEF PreviewsOK, WellFormed, ItemRecord
    <2> QED BY <2>1, <2>4
  <1>3. DiskOK' /\ HistoryOK'
    BY <1>1, SameDisk, SameHistory DEF Inv, TypeOK
  <1> QED BY <1>1, <1>2, <1>3, OutsidePlan DEF Inv, TypeOK, PlanOK, ControlOK
-----------------------------------------------------------------------------
(* Apply.                                                                  *)

LEMMA ApplyBeginInv == Inv /\ ApplyBegin => Inv'
  <1> SUFFICES ASSUME Inv, ApplyBegin PROVE Inv'
    OBVIOUS
  <1>1. /\ UNCHANGED <<disk, previews, manifests, index, clock>>
        /\ pc' = "plan" /\ step' = 1 /\ targets' = <<>> /\ moves' = <<>>
    BY DEF ApplyBegin, store
  <1>2. WellFormed(items')
    BY DEF ApplyBegin, Inv, PreviewsOK
  <1>3. DiskOK' /\ PreviewsOK' /\ HistoryOK'
    BY <1>1, SameDisk, SamePreviews, SameHistory DEF Inv, TypeOK
  <1>4. PlanOK'
    BY <1>1, <1>2, <1>3, EmptySeq DEF PlanOK, PreviewsOK, WellFormed, ItemRecord, MoveRecord
  <1>5. ControlOK'
    BY <1>1 DEF ControlOK, Inv, TypeOK
  <1>6. TargetsOK'
    <2>1. WellFormed(items)'
      BY <1>2 DEF WellFormed, ItemRecord
    <2>2. Len(items') \in Nat
      BY <1>2, LenProperties DEF WellFormed
    <2> QED BY <1>1, <2>1, <2>2, EmptySeq DEF TargetsOK
  <1>7. PlanIsSafe'
    BY <1>1 DEF PlanIsSafe
  <1> QED BY <1>3, <1>4, <1>5, <1>6, <1>7 DEF Inv, TypeOK

(* The target chosen for an item avoids the earlier targets and, unless it *)
(* is the item's own source, every source and every path on the disk.      *)
LEMMA PlanItemInv == Inv /\ PlanItem => Inv'
  <1> SUFFICES ASSUME Inv, PlanItem PROVE Inv'
    OBVIOUS
  <1>1. /\ pc = "plan" /\ step \in DOMAIN items
        /\ UNCHANGED <<disk, previews, manifests, index, clock, items, moves>>
    BY DEF PlanItem, store
  <1>2. DiskOK' /\ PreviewsOK' /\ HistoryOK'
    BY <1>1, SameDisk, SamePreviews, SameHistory DEF Inv, TypeOK
  <1>3. CASE pc' = "idle"
    <2>1. UNCHANGED <<targets, step>>
      BY <1>1, <1>3 DEF PlanItem
    <2> QED BY <1>1, <1>2, <1>3, <2>1, OutsidePlan DEF Inv, TypeOK, PlanOK, ControlOK
  <1>4. CASE pc' # "idle"
    <2>1. PICK n \in 0 .. MaxSuffix :
            /\ ~HasPathConflict(Candidate(items[step].candidate, n), items[step].source)
            /\ targets' = Append(targets, Candidate(items[step].candidate, n))
            /\ step' = step + 1 /\ UNCHANGED pc
      BY <1>1, <1>4 DEF PlanItem
    <2> DEFINE item == items[step]
               new  == Candidate(item.candidate, n)
    <2>2. items \in Seq(ItemRecord) /\ DOMAIN items = 1 .. Len(items) /\ Len(items) \in Nat
      BY LenProperties DEF Inv, TypeOK, PlanOK
    <2>3. item \in ItemRecord
      BY <1>1, <2>2, LenProperties
    <2>4. new \in PathRecord
      <3>1. item.candidate \in PathRecord
        BY <2>3 DEF ItemRecord
      <3>2. n \in Nat
        BY <2>1, BoundAssumption
      <3> HIDE DEF item
      <3> QED BY <3>1, <3>2, CandidateType
    <2>5. targets \in Seq(PathRecord) /\ Len(targets) = step - 1
          /\ DOMAIN targets = 1 .. step - 1 /\ step \in Nat \ {0}
      BY <1>1, LenProperties DEF Inv, TypeOK, PlanOK, ControlOK, TargetsOK
    <2>6. /\ targets' \in Seq(PathRecord) /\ Len(targets') = step
          /\ targets'[step] = new
          /\ \A i \in 1 .. step - 1 : targets'[i] = targets[i]
      <3> HIDE DEF new
      <3>1. targets' = Append(targets, new)
        BY <2>1 DEF new
      <3> QED BY <3>1, <2>4, <2>5, AppendProperties
    <2>7. DOMAIN targets' = 1 .. step
      BY <2>6, LenProperties
    <2>8. new = item.source \/ /\ new \notin Chosen
                               /\ new \notin Sources(items)
                               /\ ~Exists(disk, new)
      BY <2>1 DEF HasPathConflict
    <2>9. \A i \in 1 .. step - 1 :
             /\ targets[i] # new
             /\ \A j \in 1 .. step - 1 : j # i => targets[i] # targets[j]
             /\ \A j \in DOMAIN items \ {i} : targets[i] # items[j].source
             /\ targets[i] = items[i].source \/ ~Exists(disk, targets[i])
      <3> TAKE i \in 1 .. step - 1
      <3> HIDE DEF item, new
      <3>1. i \in DOMAIN targets /\ i # step
        BY <2>5
      <3>2. /\ \A j \in DOMAIN targets \ {i} : targets[i] # targets[j]
            /\ \A j \in DOMAIN items \ {i} : targets[i] # items[j].source
            /\ targets[i] = items[i].source \/ ~Exists(disk, targets[i])
        BY <1>1, <3>1 DEF Inv, PlanIsSafe
      <3>3. targets[i] # new
        <4>1. CASE new = item.source
          BY <1>1, <3>1, <3>2, <4>1 DEF item
        <4>2. CASE new \notin Chosen
          BY <3>1, <4>2 DEF Chosen
        <4> QED BY <2>8, <4>1, <4>2
      <3> QED BY <2>5, <3>2, <3>3
    <2>10. \A j \in DOMAIN items \ {step} : new # items[j].source
      <3> HIDE DEF new
      <3>1. \A j \in DOMAIN items \ {step} : item.source # items[j].source
        BY <1>1 DEF Inv, TargetsOK, WellFormed
      <3>2. \A j \in DOMAIN items : items[j].source \in Sources(items)
        BY DEF Sources
      <3> HIDE DEF item
      <3> QED BY <2>8, <3>1, <3>2
    <2>11. PlanIsSafe'
      <3> HIDE DEF new, item
      <3>1. \A i \in 1 .. step :
              /\ \A j \in (1 .. step) \ {i} : targets'[i] # targets'[j]
              /\ \A j \in DOMAIN items \ {i} : targets'[i] # items[j].source
              /\ targets'[i] = items[i].source \/ ~Exists(disk, targets'[i])
        <4> TAKE i \in 1 .. step
        <4>1. CASE i = step
          BY <4>1, <2>5, <2>6, <2>8, <2>9, <2>10 DEF item
        <4>2. CASE i # step
          <5>1. i \in 1 .. step - 1
            BY <4>2, <2>5
          <5> QED BY <5>1, <2>5, <2>6, <2>9
        <4> QED BY <4>1, <4>2
      <3> QED BY <3>1, <2>7, <1>1 DEF PlanIsSafe
    <2>12. PlanOK'
      BY <1>1, <1>2, <2>6 DEF Inv, TypeOK, PlanOK, PreviewsOK, WellFormed, ItemRecord, MoveRecord
    <2>13. ControlOK'
      BY <1>1, <2>1, <2>5 DEF Inv, TypeOK, ControlOK
    <2>14. TargetsOK'
      <3>1. step' <= Len(items) + 1 /\ Len(targets') = step' - 1 /\ step' > 0
        BY <1>1, <2>1, <2>2, <2>5, <2>6
      <3>2. WellFormed(items)'
        BY <1>1 DEF Inv, TargetsOK, WellFormed, ItemRecord
      <3> QED BY <1>1, <2>1, <3>1, <3>2 DEF TargetsOK
    <2> QED BY <1>2, <2>11, <2>12, <2>13, <2>14 DEF Inv, TypeOK
  <1> QED BY <1>3, <1>4

LEMMA LoadSidecarInv == Inv /\ LoadSidecar => Inv'
  <1> SUFFICES ASSUME Inv, LoadSidecar PROVE Inv'
    OBVIOUS
  <1>1. /\ pc = "plan" /\ step \notin DOMAIN items /\ pc' = "rename" /\ step' = 1
        /\ UNCHANGED <<disk, previews, manifests, index, clock, items, targets, moves>>
    BY DEF LoadSidecar, store
  <1>2. DiskOK' /\ PreviewsOK' /\ HistoryOK'
    BY <1>1, SameDisk, SamePreviews, SameHistory DEF Inv, TypeOK
  <1>3. PlanOK' /\ ControlOK'
    BY <1>1, <1>2 DEF Inv, TypeOK, PlanOK, ControlOK, PreviewsOK, WellFormed, ItemRecord, MoveRecord
  <1>4. Len(targets) = Len(items)
    <2>1. DOMAIN items = 1 .. Len(items) /\ Len(items) \in Nat
      BY LenProperties DEF Inv, TypeOK, PlanOK
    <2> QED BY <1>1, <2>1 DEF Inv, TypeOK, ControlOK, TargetsOK
  <1>5. TargetsOK'
    BY <1>1, <1>4 DEF Inv, TargetsOK, WellFormed, ItemRecord
  <1>6. PlanIsSafe'
    BY <1>1 DEF Inv, PlanIsSafe, Exists, TypeOK, ControlOK
  <1> QED BY <1>2, <1>3, <1>5, <1>6 DEF Inv, TypeOK

(* A rename takes its own target and frees its own source; it puts no file *)
(* at a path that a later item is to take.                                 *)
LEMMA RenameItemInv == Inv /\ RenameItem => Inv'
  <1> SUFFICES ASSUME Inv, RenameItem PROVE Inv'
    OBVIOUS
  <1> DEFINE source == items[step].source
             target == targets[step]
  <1>1. /\ pc = "rename" /\ pc' = "rename" /\ step' = step + 1
        /\ UNCHANGED <<previews, manifests, index, clock, items, targets>>
        /\ step \in DOMAIN items
    BY DEF RenameItem, store
  <1>2. \/ source \in DOMAIN disk /\ source # target /\ disk' = RenameOn(disk, source, target)
        \/ disk' = disk
    BY DEF RenameItem, Exists
  <1>3. \E renamed \in BOOLEAN : moves' = Append(moves, MoveOf(items[step], target, renamed))
    BY DEF RenameItem
  <1>4. /\ DOMAIN targets = 1 .. Len(targets) /\ DOMAIN items = 1 .. Len(items)
        /\ Len(targets) = Len(items) /\ step \in DOMAIN targets
        /\ step \in Nat \ {0}
    BY <1>1, LenProperties DEF Inv, TypeOK, PlanOK, ControlOK, TargetsOK
  <1>5. items[step] \in ItemRecord /\ target \in PathRecord
    BY <1>4, LenProperties DEF Inv, TypeOK, PlanOK
  <1>6. DiskOK'
    <2> HIDE DEF source, target
    <2> QED BY <1>2, <1>5, RenameKeepsDisk, SameDisk DEF Inv, TypeOK, target
  <1>7. PreviewsOK' /\ HistoryOK'
    BY <1>1, SamePreviews, SameHistory DEF Inv, TypeOK
  <1>8. moves' \in Seq(MoveRecord)
    <2>1. PICK renamed \in BOOLEAN : moves' = Append(moves, MoveOf(items[step], target, renamed))
      BY <1>3
    <2>2. MoveOf(items[step], target, renamed) \in MoveRecord
      <3> HIDE DEF target
      <3> QED BY <1>5 DEF MoveOf, MoveRecord, ItemRecord, target
    <2>3. moves \in Seq(MoveRecord)
      BY DEF Inv, TypeOK, PlanOK
    <2> HIDE DEF target
    <2> QED BY <2>1, <2>2, <2>3, AppendProperties
  <1>9. PlanOK' /\ ControlOK'
    BY <1>1, <1>7, <1>8 DEF Inv, TypeOK, PlanOK, ControlOK, PreviewsOK, WellFormed, ItemRecord, MoveRecord
  <1>10. TargetsOK'
    BY <1>1, <1>4 DEF Inv, TargetsOK, WellFormed, ItemRecord
  <1>11. PlanIsSafe'
    <2> HIDE DEF source, target
    <2>1. \A p \in DOMAIN disk' : p \in DOMAIN disk \/ p = target
      BY <1>2 DEF RenameOn
    <2>2. \A i \in DOMAIN targets :
            /\ \A j \in DOMAIN targets \ {i} : targets[i] # targets[j]
            /\ \A j \in DOMAIN items \ {i} : targets[i] # items[j].source
            /\ targets[i] = items[i].source \/ i < step \/ ~Exists(disk, targets[i])
      BY <1>1 DEF Inv, PlanIsSafe
    <2>3. \A i \in DOMAIN targets :
            targets[i] = items[i].source \/ i < step + 1 \/ ~Exists(disk', targets[i])
      <3> TAKE i \in DOMAIN targets
      <3>1. CASE i = step
        BY <3>1, <1>4
      <3>2. CASE i # step
        <4>1. targets[i] # target
          BY <3>2, <2>2, <1>4 DEF target
        <4>2. i \in Nat /\ (i < step => i < step + 1)
          BY <1>4
        <4> QED BY <4>1, <4>2, <2>1, <2>2 DEF Exists
      <3> QED BY <3>1, <3>2
    <2> QED BY <1>1, <2>2, <2>3 DEF PlanIsSafe
  <1> QED BY <1>6, <1>7, <1>9, <1>10, <1>11 DEF Inv, TypeOK

LEMMA SaveTagsInv == Inv /\ (SaveTags \/ SaveTagsFails) => Inv'
  <1> SUFFICES ASSUME Inv, SaveTags \/ SaveTagsFails PROVE Inv'
    OBVIOUS
  <1>1. /\ UNCHANGED <<disk, previews, manifests, index, clock, items, targets, moves, step>>
        /\ pc' \in {"manifest", "idle"}
    BY DEF SaveTags, SaveTagsFails, local
  <1> QED BY <1>1, SameDisk, SamePreviews, SameHistory, OutsidePlan
          DEF Inv, TypeOK, PlanOK, ControlOK

(* Dropping manifests leaves the others as they were. *)
LEMMA WithoutType ==
    ASSUME HistoryOK, NEW ids, manifests' = Without(manifests, ids)
    PROVE  \A id \in DOMAIN manifests' : manifests'[id] \in Seq(MoveRecord)
  BY DEF HistoryOK, Without

LEMMA OperationIdType == Inv => OperationId \in IdRecord
  BY DEF Inv, TypeOK, PlanOK, ControlOK, OperationId, IdRecord

LEMMA SaveManifestInv == Inv /\ SaveManifest => Inv'
  <1> SUFFICES ASSUME Inv, SaveManifest PROVE Inv'
    OBVIOUS
  <1>1. /\ UNCHANGED <<disk, previews, index, clock, items, targets, moves, step>>
        /\ pc' \in {"index", "idle"}
    BY DEF SaveManifest, local
  <1>2. \A id \in DOMAIN manifests' : manifests'[id] \in Seq(MoveRecord)
    <2>1. CASE manifests' = [id \in DOMAIN manifests \cup {OperationId} |->
                               IF id = OperationId THEN moves ELSE manifests[id]]
      BY <2>1 DEF Inv, TypeOK, PlanOK, HistoryOK
    <2>2. CASE manifests' = manifests
      BY <2>2 DEF Inv, TypeOK, HistoryOK
    <2>3. CASE manifests' = Without(manifests, {OperationId})
      BY <2>3, WithoutType DEF Inv, TypeOK
    <2> QED BY <2>1, <2>2, <2>3 DEF SaveManifest
  <1>3. HistoryOK'
    BY <1>1, <1>2 DEF Inv, TypeOK, HistoryOK, Entry, IdRecord, ItemRecord, MoveRecord
  <1> QED BY <1>1, <1>3, SameDisk, SamePreviews, OutsidePlan DEF Inv, TypeOK, PlanOK, ControlOK

LEMMA RenamedCount ==
    ASSUME NEW list \in Seq(MoveRecord)
    PROVE  Cardinality(Renamed(list)) \in Nat
  <1>1. DOMAIN list = 1 .. Len(list) /\ Len(list) \in Nat
    BY LenProperties
  <1>2. IsFiniteSet(DOMAIN list)
    BY <1>1, FS_Interval
  <1>3. Renamed(list) \subseteq DOMAIN list
    BY DEF Renamed
  <1> QED BY <1>2, <1>3, FS_Subset, FS_CardinalityType

LEMMA SaveIndexInv == Inv /\ SaveIndex => Inv'
  <1> SUFFICES ASSUME Inv, SaveIndex PROVE Inv'
    OBVIOUS
  <1> DEFINE entry   == [id |-> OperationId, renamed |-> Cardinality(Renamed(moves)),
                         rolledBack |-> FALSE]
             entries == Append(index, entry)
  <1>1. /\ UNCHANGED <<disk, previews, clock, items, targets, moves, step>>
        /\ pc' = "idle"
        /\ manifests' = Without(manifests, Oldest(entries, MaxHistory))
        /\ index' \in {index, <<>>, Newest(entries, MaxHistory)}
    BY DEF SaveIndex, local
  <1>2. entry \in Entry
    <2>1. Cardinality(Renamed(moves)) \in Nat
      BY RenamedCount DEF Inv, TypeOK, PlanOK
    <2> QED BY <2>1, OperationIdType DEF Entry
  <1> HIDE DEF entry
  <1>3. index \in Seq(Entry) /\ Len(index) <= MaxHistory
    BY DEF Inv, TypeOK, HistoryOK
  <1>4. entries \in Seq(Entry)
    BY <1>2, <1>3, AppendProperties
  <1> HIDE DEF entries
  <1>5. Newest(entries, MaxHistory) \in Seq(Entry) /\ Len(Newest(entries, MaxHistory)) <= MaxHistory
    BY <1>4, NewestType, BoundAssumption
  <1>6. index' \in Seq(Entry) /\ Len(index') <= MaxHistory
    BY <1>1, <1>3, <1>5, EmptyIndex
  <1>7. HistoryOK'
    BY <1>1, <1>6, WithoutType DEF Inv, TypeOK, HistoryOK, Entry, IdRecord, ItemRecord, MoveRecord
  <1> QED BY <1>1, <1>7, SameDisk, SamePreviews, OutsidePlan DEF Inv, TypeOK, PlanOK, ControlOK
-----------------------------------------------------------------------------
(* Rollback and prune.                                                     *)

LEMMA RollbackBeginInv == Inv /\ RollbackBegin => Inv'
  <1> SUFFICES ASSUME Inv, RollbackBegin PROVE Inv'
    OBVIOUS
  <1>1. /\ UNCHANGED <<disk, previews, manifests, index, clock, items, targets>>
        /\ pc' = "restore"
    BY DEF RollbackBegin, store
  <1>2. PICK id \in DOMAIN manifests : moves' = manifests[id] /\ step' = Len(manifests[id])
    BY DEF RollbackBegin
  <1>3. moves' \in Seq(MoveRecord) /\ step' \in Nat
    BY <1>2, LenProperties DEF Inv, TypeOK, HistoryOK
  <1> QED BY <1>1, <1>3, SameDisk, SamePreviews, SameHistory, OutsidePlan
          DEF Inv, TypeOK, PlanOK, ControlOK

LEMMA RestoreItemInv == Inv /\ RestoreItem => Inv'
  <1> SUFFICES ASSUME Inv, RestoreItem PROVE Inv'
    OBVIOUS
  <1> DEFINE move == moves[step]
  <1>1. /\ UNCHANGED <<previews, manifests, index, clock, items, targets, moves>>
        /\ pc' = "restore" /\ step \in DOMAIN moves /\ step' = step - 1
    BY DEF RestoreItem, store
  <1>2. step' \in Nat
    <2>1. DOMAIN moves = 1 .. Len(moves) /\ Len(moves) \in Nat
      BY LenProperties DEF Inv, TypeOK, PlanOK
    <2> QED BY <1>1, <2>1
  <1>3. \/ Restorable(move) /\ disk' = RenameOn(disk, move.destination, move.source)
        \/ disk' = disk
    BY DEF RestoreItem
  <1>4. DiskOK'
    <2>1. CASE disk' = disk
      BY <2>1, SameDisk DEF Inv, TypeOK
    <2>2. CASE Restorable(move) /\ disk' = RenameOn(disk, move.destination, move.source)
      <3>1. move \in MoveRecord
        BY <1>1, LenProperties DEF Inv, TypeOK, PlanOK
      <3> HIDE DEF move
      <3>2. move.source \in PathRecord
        BY <3>1 DEF MoveRecord
      <3> QED BY <2>2, <3>2, RenameKeepsDisk DEF Inv, TypeOK, Restorable, Exists
    <2> QED BY <1>3, <2>1, <2>2
  <1> QED BY <1>1, <1>2, <1>4, SamePreviews, SameHistory, OutsidePlan
          DEF Inv, TypeOK, PlanOK, ControlOK

LEMMA RestoreTagsInv == Inv /\ RestoreTags => Inv'
  <1> SUFFICES ASSUME Inv, RestoreTags PROVE Inv'
    OBVIOUS
  <1>1. /\ UNCHANGED <<disk, previews, manifests, index, clock, items, targets, moves, step>>
        /\ pc' \in {"mark", "idle"}
    BY DEF RestoreTags, local
  <1> QED BY <1>1, SameDisk, SamePreviews, SameHistory, OutsidePlan
          DEF Inv, TypeOK, PlanOK, ControlOK

LEMMA MarkInv == Inv /\ MarkRolledBack => Inv'
  <1> SUFFICES ASSUME Inv, MarkRolledBack PROVE Inv'
    OBVIOUS
  <1>1. /\ UNCHANGED <<disk, previews, clock, items, targets, moves, step>>
        /\ pc' = "idle"
        /\ index' \in {Marked, index, <<>>}
        /\ manifests' = manifests \/ manifests' = Without(manifests, {opid})
    BY DEF MarkRolledBack, local
  <1>2. index \in Seq(Entry) /\ Len(index) <= MaxHistory
        /\ Len(index) \in Nat /\ DOMAIN index = 1 .. Len(index)
    BY LenProperties DEF Inv, TypeOK, HistoryOK
  <1>3. Marked \in [1 .. Len(index) -> Entry]
    <2>1. \A i \in DOMAIN index : index[i] \in Entry
      BY <1>2, LenProperties
    <2>2. \A e \in Entry : [e EXCEPT !.rolledBack = TRUE] \in Entry
      BY DEF Entry
    <2> QED BY <1>2, <2>1, <2>2 DEF Marked
  <1>4. Marked \in Seq(Entry) /\ Len(Marked) = Len(index)
    <2>1. Marked \in Seq(Entry)
      BY <1>2, <1>3, SeqIntro
    <2> QED BY <1>2, <1>3, <2>1, LenProperties
  <1>5. index' \in Seq(Entry) /\ Len(index') <= MaxHistory
    BY <1>1, <1>2, <1>4, EmptyIndex
  <1>6. HistoryOK'
    BY <1>1, <1>5, WithoutType DEF Inv, TypeOK, HistoryOK, Entry, IdRecord, ItemRecord, MoveRecord
  <1> QED BY <1>1, <1>6, SameDisk, SamePreviews, OutsidePlan DEF Inv, TypeOK, PlanOK, ControlOK

LEMMA PruneInv == Inv /\ Prune => Inv'
  <1> SUFFICES ASSUME Inv, Prune PROVE Inv'
    OBVIOUS
  <1>1. PICK keep \in 0 .. MaxHistory :
          /\ manifests' = Without(manifests, Oldest(index, keep))
          /\ index' \in {Newest(index, keep), index, <<>>}
    BY DEF Prune
  <1>2. /\ UNCHANGED <<disk, previews, clock, items, targets, moves, step>>
        /\ pc' = "idle"
    BY DEF Prune, local, Idle
  <1>3. index \in Seq(Entry) /\ Len(index) <= MaxHistory
    BY DEF Inv, TypeOK, HistoryOK
  <1>4. Newest(index, keep) \in Seq(Entry) /\ Len(Newest(index, keep)) <= MaxHistory
    <2>1. keep \in Nat /\ keep <= MaxHistory
      BY BoundAssumption
    <2>2. Newest(index, keep) \in Seq(Entry) /\ Len(Newest(index, keep)) <= keep
      BY <1>3, <2>1, NewestType
    <2>3. Len(Newest(index, keep)) \in Nat
      BY <2>2, LenProperties
    <2> QED BY <2>1, <2>2, <2>3, BoundAssumption
  <1>5. index' \in Seq(Entry) /\ Len(index') <= MaxHistory
    BY <1>1, <1>3, <1>4, EmptyIndex
  <1>6. HistoryOK'
    BY <1>1, <1>5, WithoutType DEF Inv, TypeOK, HistoryOK, Entry, IdRecord, ItemRecord, MoveRecord
  <1> QED BY <1>2, <1>6, SameDisk, SamePreviews, OutsidePlan DEF Inv, TypeOK, PlanOK, ControlOK

LEMMA CrashInv == Inv /\ Crash => Inv'
  <1> SUFFICES ASSUME Inv, Crash PROVE Inv'
    OBVIOUS
  <1>1. /\ UNCHANGED <<disk, previews, manifests, index, clock, items, targets, moves, step>>
        /\ pc' = "idle"
    BY DEF Crash, local, store
  <1> QED BY <1>1, SameDisk, SamePreviews, SameHistory, OutsidePlan
          DEF Inv, TypeOK, PlanOK, ControlOK
-----------------------------------------------------------------------------
LEMMA StepInv == Inv /\ [Next]_vars => Inv'
  <1> SUFFICES ASSUME Inv, [Next]_vars PROVE Inv'
    OBVIOUS
  <1>1. CASE UNCHANGED vars
    <2>1. UNCHANGED <<disk, previews, manifests, index, clock, items, targets, moves, step, pc>>
      BY <1>1 DEF vars
    <2>2. DiskOK' /\ PreviewsOK' /\ HistoryOK'
      BY <2>1, SameDisk, SamePreviews, SameHistory DEF Inv, TypeOK
    <2> QED BY <2>1, <2>2 DEF Inv, TypeOK, PlanOK, ControlOK, TargetsOK, PlanIsSafe, WellFormed,
                              ItemRecord, MoveRecord, Exists
  <1> QED BY <1>1, UserInv, PreviewInv, ApplyBeginInv, PlanItemInv, LoadSidecarInv,
             RenameItemInv, SaveTagsInv, SaveManifestInv, SaveIndexInv, RollbackBeginInv,
             RestoreItemInv, RestoreTagsInv, MarkInv, PruneInv, CrashInv
          DEF Next, Apply, Rollback

(* The renamer's values are of their kinds, the disk never has one file at *)
(* two paths, and the history never holds more than its cap.               *)
THEOREM TypeCorrect == Spec => []TypeOK
  <1>1. Spec => []Inv
    BY InitInv, StepInv, PTL DEF Spec
  <1> QED BY <1>1, PTL DEF Inv

(* The targets of a preview stay distinct, off every other item's source,  *)
(* and free until they are used.                                           *)
THEOREM PlanStaysSafe == Spec => []PlanIsSafe
  <1>1. Spec => []Inv
    BY InitInv, StepInv, PTL DEF Spec
  <1> QED BY <1>1, PTL DEF Inv

LEMMA InitIsStoreInit == Init => FS!StoreInit
  BY InitInv DEF FS!StoreInit, FS!FilesOn, FilesOn, Inv, TypeOK, DiskOK, Init

(* A rename onto a path that does not exist is a move of the file store. *)
LEMMA RenameIsMoveFile ==
    ASSUME NEW from \in DOMAIN disk, NEW to, to \notin DOMAIN disk,
           disk' = RenameOn(disk, from, to), pc # "idle", pc' # "idle"
    PROVE  FS!MoveFile
  <1>1. to \in DOMAIN disk' \ DOMAIN disk
    BY DEF RenameOn
  <1> QED BY <1>1 DEF FS!MoveFile, FS!RenameOn, RenameOn

LEMMA StepIsStoreStep == Inv /\ Inv' /\ [Next]_vars => [FS!StoreNext]_(FS!storeVars)
  <1> SUFFICES ASSUME Inv, Inv', [Next]_vars PROVE FS!StoreNext \/ UNCHANGED FS!storeVars
    OBVIOUS
  <1> USE DEF FS!StoreNext, FS!storeVars
  <1>1. CASE UNCHANGED vars
    BY <1>1 DEF vars
  <1>2. CASE User \/ Preview \/ Prune
    <2>1. pc = "idle" /\ pc' = "idle"
      BY <1>2 DEF User, Tick, UserDeletes, UserAdds, Preview, Prune, Idle
    <2>2. FS!FilesOn(disk') \subseteq Photos
      BY DEF FS!FilesOn, FilesOn, Inv, TypeOK, DiskOK
    <2> QED BY <2>1, <2>2 DEF FS!UserEdit
  <1>3. CASE ApplyBegin \/ RollbackBegin
    BY <1>3 DEF ApplyBegin, RollbackBegin, Idle, FS!BeginOrEnd
  <1>4. CASE PlanItem \/ LoadSidecar \/ SaveTags \/ SaveTagsFails \/ SaveManifest \/ SaveIndex
             \/ RestoreTags \/ MarkRolledBack \/ Crash
    <2>1. pc # "idle" /\ UNCHANGED disk
      BY <1>4 DEF PlanItem, LoadSidecar, SaveTags, SaveTagsFails, SaveManifest, SaveIndex,
                  RestoreTags, MarkRolledBack, Crash, Idle
    <2> QED BY <2>1 DEF FS!BeginOrEnd
  <1>5. CASE RenameItem
    <2> DEFINE source == items[step].source
               target == targets[step]
    <2>1. CASE UNCHANGED disk
      BY <1>5, <2>1 DEF RenameItem
    <2>2. CASE disk' # disk
      <3>1. /\ source \in DOMAIN disk /\ source # target
            /\ disk' = RenameOn(disk, source, target)
            /\ pc = "rename" /\ pc' = "rename" /\ step \in DOMAIN items
        BY <1>5, <2>2 DEF RenameItem, Exists
      <3>2. step \in DOMAIN targets /\ ~(step < step)
        <4>1. DOMAIN items = 1 .. Len(items) /\ DOMAIN targets = 1 .. Len(targets)
          BY LenProperties DEF Inv, TypeOK, PlanOK
        <4> QED BY <3>1, <4>1 DEF Inv, TypeOK, ControlOK, TargetsOK
      <3>3. target \notin DOMAIN disk
        BY <3>1, <3>2 DEF Inv, PlanIsSafe, Exists
      <3> HIDE DEF source, target
      <3> QED BY <3>1, <3>3, RenameIsMoveFile
    <2> QED BY <2>1, <2>2
  <1>6. CASE RestoreItem
    <2> DEFINE move == moves[step]
    <2>1. CASE UNCHANGED disk
      BY <1>6, <2>1 DEF RestoreItem
    <2>2. CASE disk' # disk
      <3>1. /\ Restorable(move) /\ disk' = RenameOn(disk, move.destination, move.source)
            /\ pc = "restore" /\ pc' = "restore"
        BY <1>6, <2>2 DEF RestoreItem
      <3> HIDE DEF move
      <3> QED BY <3>1, RenameIsMoveFile DEF Restorable, Exists
    <2> QED BY <2>1, <2>2
  <1> QED BY <1>1, <1>2, <1>3, <1>4, <1>5, <1>6 DEF Next, Apply, Rollback

(* Applying and rolling back renames never overwrites or drops a file: the *)
(* renamer implements the file store, for every directory and pattern and  *)
(* whatever fails or crashes.                                              *)
THEOREM RenamerImplementsFileStore == Spec => RenamesNeverOverwrite
  <1>1. Spec => []Inv
    BY InitInv, StepInv, PTL DEF Spec
  <1>2. Spec => FS!StoreSpec
    BY <1>1, InitIsStoreInit, StepIsStoreStep, PTL DEF Spec, FS!StoreSpec
  <1> QED BY <1>2 DEF RenamesNeverOverwrite
-----------------------------------------------------------------------------
(* What an apply and a rollback do to the files and their tags: the names  *)
(* below are the parts of the invariant DeepInv, each an invariant given   *)
(* the ones before it.                                                     *)
(* From the fingerprint check on, the items that are still to be renamed   *)
(* are where the preview saw them; until the plan is complete nothing has  *)
(* moved.                                                                  *)
Seen ==
    /\ pc = "plan" => disk = start /\ moves = <<>>
    /\ pc \in {"plan", "rename"} =>
         \A i \in DOMAIN items : pc = "plan" \/ i >= step =>
            Exists(disk, items[i].source) /\ disk[items[i].source] = items[i].file
    /\ pc \in {"plan", "rename", "manifest", "index"} =>
         \A i \in DOMAIN items : start[items[i].source] = items[i].file

LEMMA SeqDomains ==
    ASSUME Inv
    PROVE  /\ DOMAIN items = 1 .. Len(items) /\ Len(items) \in Nat
           /\ DOMAIN targets = 1 .. Len(targets) /\ Len(targets) \in Nat
           /\ DOMAIN moves = 1 .. Len(moves) /\ Len(moves) \in Nat
           /\ step \in Nat
  BY LenProperties DEF Inv, TypeOK, PlanOK, ControlOK

(* The item being renamed: its target is neither its source nor any path   *)
(* on the disk, and it touches no other item's source or target.           *)
LEMMA TargetFacts ==
    ASSUME Inv, pc = "rename", step \in DOMAIN items
    PROVE  /\ step \in DOMAIN targets
           /\ targets[step] = items[step].source \/ ~Exists(disk, targets[step])
           /\ \A i \in DOMAIN items \ {step} :
                 /\ items[i].source # items[step].source
                 /\ items[i].source # targets[step]
                 /\ targets[i] # items[step].source
                 /\ targets[i] # targets[step]
  <1>1. DOMAIN targets = DOMAIN items /\ ~(step < step)
    BY SeqDomains DEF Inv, TargetsOK
  <1>2. \A i \in DOMAIN items \ {step} :
           targets[i] # items[step].source /\ targets[i] # targets[step]
    BY <1>1 DEF Inv, PlanIsSafe
  <1>3. \A i \in DOMAIN items \ {step} : items[i].source # targets[step]
    BY <1>1 DEF Inv, PlanIsSafe
  <1>4. \A i \in DOMAIN items \ {step} : items[i].source # items[step].source
    BY DEF Inv, TargetsOK, WellFormed
  <1>5. targets[step] = items[step].source \/ ~Exists(disk, targets[step])
    BY <1>1 DEF Inv, PlanIsSafe
  <1> QED BY <1>1, <1>2, <1>3, <1>4, <1>5

(* What the steps outside the plan and the renames leave alone. *)
LEMMA OtherPlaces ==
    ASSUME User \/ Preview \/ Rollback \/ Prune \/ Crash \/ SaveTagsFails \/ SaveIndex
    PROVE  pc' \in {"idle", "restore", "mark"}
  BY DEF User, Tick, UserDeletes, UserAdds, Preview, Rollback, RollbackBegin, RestoreItem,
         RestoreTags, MarkRolledBack, Prune, Crash, SaveTagsFails, SaveIndex, Idle

LEMMA SeenStep == Inv /\ Inv' /\ Seen /\ [Next]_vars => Seen'
  <1> SUFFICES ASSUME Inv, Inv', Seen, [Next]_vars PROVE Seen'
    OBVIOUS
  <1>1. CASE pc' \in {"idle", "restore", "mark"}
    BY <1>1 DEF Seen
  <1>2. CASE UNCHANGED <<disk, start, items, moves, step, pc>>
    BY <1>2 DEF Seen, Exists
  <1>3. CASE ApplyBegin
    <2>1. PICK preview \in previews :
            FingerprintMatches(preview.items) /\ items' = preview.items
      BY <1>3 DEF ApplyBegin
    <2>2. disk' = disk /\ start' = disk /\ moves' = <<>> /\ pc' = "plan"
      BY <1>3 DEF ApplyBegin
    <2> QED BY <2>1, <2>2 DEF Seen, FingerprintMatches, Exists
  <1>4. CASE PlanItem
    <2>1. UNCHANGED <<disk, start, items, moves>> /\ pc = "plan" /\ pc' \in {"plan", "idle"}
      BY <1>4 DEF PlanItem, ghost
    <2> QED BY <2>1 DEF Seen, Exists
  <1>5. CASE LoadSidecar
    <2>1. UNCHANGED <<disk, start, items>> /\ pc = "plan" /\ pc' = "rename"
      BY <1>5 DEF LoadSidecar, ghost
    <2> QED BY <2>1 DEF Seen, Exists
  <1>6. CASE RenameItem
    <2> DEFINE source == items[step].source
               target == targets[step]
    <2>1. /\ UNCHANGED <<start, items, pc>> /\ pc = "rename" /\ step' = step + 1
          /\ step \in DOMAIN items
          /\ \/ disk' = disk
             \/ Exists(disk, source) /\ disk' = RenameOn(disk, source, target)
      BY <1>6 DEF RenameItem
    <2>2. ASSUME NEW i \in DOMAIN items, i >= step + 1
          PROVE  Exists(disk', items[i].source) /\ disk'[items[i].source] = items[i].file
      <3>1. i # step /\ i >= step
        BY <2>1, <2>2, SeqDomains
      <3>2. Exists(disk, items[i].source) /\ disk[items[i].source] = items[i].file
        BY <2>1, <3>1 DEF Seen
      <3>3. items[i].source # source /\ items[i].source # target
        BY <2>1, <3>1, TargetFacts
      <3> HIDE DEF source, target
      <3> QED BY <2>1, <3>2, <3>3 DEF RenameOn, Exists
    <2> QED BY <2>1, <2>2 DEF Seen
  <1>7. CASE SaveTags \/ SaveManifest
    <2>1. UNCHANGED <<start, items>> /\ pc \in {"rename", "manifest"}
          /\ pc' \in {"manifest", "index", "idle"}
      BY <1>7 DEF SaveTags, SaveManifest, local
    <2> QED BY <2>1 DEF Seen
  <1> QED BY <1>1, <1>2, <1>3, <1>4, <1>5, <1>6, <1>7, OtherPlaces DEF Next, Apply, vars

(* What has been renamed so far went to its target and is still there, and *)
(* its source is free.                                                     *)
Made ==
    /\ pc = "rename" => Len(moves) = step - 1
    /\ pc \in {"rename", "manifest", "index"} =>
         \A i \in DOMAIN moves :
            /\ i \in DOMAIN items /\ moves[i].source = items[i].source
            /\ pc = "rename" => moves[i].destination = targets[i]
            /\ moves[i].renamed =>
                 Restorable(moves[i]) /\ disk[moves[i].destination] = items[i].file

(* One renaming step: the moves are those before it and one more, which is *)
(* either not renamed and leaves the disk alone, or renames the file that  *)
(* the preview saw to a target that was free.                              *)
LEMMA RenameItemFacts ==
    ASSUME Inv, Seen, Made, RenameItem
    PROVE  /\ pc = "rename" /\ pc' = "rename" /\ step \in DOMAIN items /\ step' = step + 1
           /\ UNCHANGED <<items, targets, start, promised, deleted, sidecar, manifests>>
           /\ DOMAIN moves = 1 .. step - 1 /\ DOMAIN moves' = 1 .. step
           /\ Len(moves') = step
           /\ \A i \in 1 .. step - 1 : moves'[i] = moves[i]
           /\ moves'[step].source = items[step].source
           /\ moves'[step].destination = targets[step]
           /\ \/ ~moves'[step].renamed /\ UNCHANGED <<disk, tags>>
              \/ /\ moves'[step].renamed
                 /\ disk[items[step].source] = items[step].file
                 /\ items[step].source \in DOMAIN disk
                 /\ targets[step] \notin DOMAIN disk
                 /\ targets[step] # items[step].source
                 /\ disk' = RenameOn(disk, items[step].source, targets[step])
                 /\ MovePathKey(items[step].source, targets[step])
  <1> DEFINE source == items[step].source
             target == targets[step]
  <1>1. /\ pc = "rename" /\ pc' = "rename" /\ step \in DOMAIN items /\ step' = step + 1
        /\ UNCHANGED <<items, targets, start, promised, deleted, sidecar, manifests>>
    BY DEF RenameItem, store
  <1>2. PICK renamed \in BOOLEAN :
          /\ moves' = Append(moves, MoveOf(items[step], target, renamed))
          /\ renamed => /\ source # target /\ Exists(disk, source)
                        /\ disk' = RenameOn(disk, source, target)
                        /\ MovePathKey(source, target)
          /\ ~renamed => UNCHANGED <<disk, tags>>
    BY DEF RenameItem
  <1>3. step \in Nat \ {0} /\ moves \in Seq(MoveRecord) /\ Len(moves) = step - 1
        /\ DOMAIN moves = 1 .. step - 1
    BY <1>1, SeqDomains DEF Made, Inv, TypeOK, PlanOK
  <1>4. MoveOf(items[step], target, renamed) \in MoveRecord
    <2>1. items[step] \in ItemRecord /\ targets[step] \in PathRecord
      BY <1>1, TargetFacts, LenProperties DEF Inv, TypeOK, PlanOK
    <2> QED BY <2>1 DEF MoveOf, MoveRecord, ItemRecord
  <1> DEFINE new == MoveOf(items[step], target, renamed)
  <1>5. new.source = source /\ new.destination = target /\ new.renamed = renamed
    BY DEF MoveOf
  <1> HIDE DEF new
  <1>6. /\ moves' \in Seq(MoveRecord) /\ Len(moves') = step /\ moves'[step] = new
        /\ \A i \in 1 .. step - 1 : moves'[i] = moves[i]
    BY <1>2, <1>3, <1>4, AppendProperties DEF new
  <1>7. DOMAIN moves' = 1 .. step
    BY <1>6, LenProperties
  <1>8. renamed => target \notin DOMAIN disk /\ disk[source] = items[step].file
    BY <1>1, <1>2, <1>3, TargetFacts DEF Exists, Seen
  <1> QED BY <1>1, <1>2, <1>3, <1>5, <1>6, <1>7, <1>8 DEF Exists

LEMMA MadeStep == Inv /\ Inv' /\ Seen /\ Made /\ [Next]_vars => Made'
  <1> SUFFICES ASSUME Inv, Inv', Seen, Made, [Next]_vars PROVE Made'
    OBVIOUS
  <1>1. CASE pc' \in {"idle", "restore", "mark", "plan"}
    BY <1>1 DEF Made
  <1>2. CASE UNCHANGED <<disk, items, targets, moves, step, pc>>
    BY <1>2 DEF Made, Restorable, Exists
  <1>3. CASE ApplyBegin \/ PlanItem
    BY <1>3, <1>1 DEF ApplyBegin, PlanItem
  <1>4. CASE LoadSidecar
    <2>1. moves' = <<>> /\ step' = 1 /\ pc' = "rename"
      BY <1>4 DEF LoadSidecar, Seen
    <2> QED BY <2>1 DEF Made
  <1>5. CASE RenameItem
    <2> DEFINE source == items[step].source
               target == targets[step]
    <2> USE RenameItemFacts, <1>5
    <2>1. step \in Nat \ {0}
      BY SeqDomains
    <2>2. /\ step \in DOMAIN items
          /\ moves'[step].source = source /\ moves'[step].destination = target
          /\ moves'[step].renamed =>
               target \in DOMAIN disk' /\ disk'[target] = items[step].file
               /\ source \notin DOMAIN disk'
      BY DEF RenameOn
    <2>3. ASSUME NEW i \in 1 .. step - 1
          PROVE  /\ i \in DOMAIN items /\ moves[i].source = items[i].source
                 /\ moves[i].destination = targets[i]
                 /\ moves[i].renamed =>
                      /\ targets[i] \in DOMAIN disk' /\ disk'[targets[i]] = items[i].file
                      /\ items[i].source \notin DOMAIN disk'
      <3>1. /\ i \in DOMAIN items /\ moves[i].source = items[i].source
            /\ moves[i].destination = targets[i]
            /\ moves[i].renamed =>
                 /\ targets[i] \in DOMAIN disk /\ disk[targets[i]] = items[i].file
                 /\ items[i].source \notin DOMAIN disk
        BY DEF Made, Restorable, Exists
      <3>2. i # step
        BY <2>1
      <3>3. /\ items[i].source # target
            /\ targets[i] # source /\ targets[i] # target
        BY <3>1, <3>2, TargetFacts
      <3> QED BY <3>1, <3>3 DEF RenameOn
    <2>4. ASSUME NEW i \in 1 .. step
          PROVE  /\ i \in DOMAIN items /\ moves'[i].source = items[i].source
                 /\ moves'[i].destination = targets[i]
                 /\ moves'[i].renamed =>
                      /\ targets[i] \in DOMAIN disk' /\ disk'[targets[i]] = items[i].file
                      /\ items[i].source \notin DOMAIN disk'
      <3>1. CASE i = step
        BY <3>1, <2>2
      <3>2. CASE i # step
        <4>1. i \in 1 .. step - 1
          BY <3>2, <2>1
        <4> QED BY <4>1, <2>3
      <3> QED BY <3>1, <3>2
    <2>5. pc' = "rename" /\ step' = step + 1 /\ Len(moves') = step /\ DOMAIN moves' = 1 .. step
          /\ UNCHANGED <<items, targets>>
      OBVIOUS
    <2> HIDE RenameItemFacts, <1>5 DEF source, target
    <2>6. pc' = "rename" => Len(moves') = step' - 1
      BY <2>5, <2>1
    <2>7. ASSUME NEW i \in DOMAIN moves'
          PROVE  /\ i \in DOMAIN items' /\ moves'[i].source = items'[i].source
                 /\ pc' = "rename" => moves'[i].destination = targets'[i]
                 /\ moves'[i].renamed =>
                      Restorable(moves[i])' /\ disk'[moves'[i].destination] = items'[i].file
      <3>1. i \in 1 .. step
        BY <2>5
      <3> QED BY <3>1, <2>4, <2>5 DEF Restorable, Exists
    <2> QED BY <2>5, <2>6, <2>7 DEF Made
  <1>6. CASE SaveTags \/ SaveManifest
    <2>1. UNCHANGED <<disk, items, moves>> /\ pc \in {"rename", "manifest"}
          /\ pc' \in {"manifest", "index", "idle"}
      BY <1>6 DEF SaveTags, SaveManifest, local
    <2> QED BY <2>1 DEF Made, Restorable, Exists
  <1> QED BY <1>1, <1>2, <1>3, <1>4, <1>5, <1>6, OtherPlaces DEF Next, Apply, vars

(* No two moves of an operation share a source or a destination. *)
Distinct(list) ==
    \A i, j \in DOMAIN list :
       i # j => list[i].source # list[j].source /\ list[i].destination # list[j].destination

Apart == Distinct(moves) /\ \A id \in DOMAIN manifests : Distinct(manifests[id])

LEMMA ApartStep == Inv /\ Seen /\ Made /\ Apart /\ [Next]_vars => Apart'
  <1> SUFFICES ASSUME Inv, Seen, Made, Apart, [Next]_vars PROVE Apart'
    OBVIOUS
  <1>1. CASE UNCHANGED <<moves, manifests>>
    BY <1>1 DEF Apart, Distinct
  <1>2. CASE ApplyBegin
    BY <1>2 DEF ApplyBegin, store, Apart, Distinct
  <1>3. CASE RenameItem
    <2> USE RenameItemFacts, <1>3
    <2>1. step \in Nat \ {0}
      BY SeqDomains
    <2>2. ASSUME NEW i \in 1 .. step - 1
          PROVE  moves'[i] = moves[i] /\ moves[i].source # items[step].source
                 /\ moves[i].destination # targets[step]
      <3>1. /\ i \in DOMAIN items /\ moves[i].source = items[i].source
            /\ moves[i].destination = targets[i] /\ i # step
        BY <2>1 DEF Made
      <3> QED BY <3>1, TargetFacts
    <2>3. \A i \in 1 .. step : i # step => i \in 1 .. step - 1
      BY <2>1
    <2>4. Distinct(moves')
      <3> SUFFICES ASSUME NEW i \in 1 .. step, NEW j \in 1 .. step, i # j
                   PROVE  /\ moves'[i].source # moves'[j].source
                          /\ moves'[i].destination # moves'[j].destination
        BY DEF Distinct
      <3>1. CASE i = step
        BY <3>1, <2>2, <2>3
      <3>2. CASE j = step
        BY <3>2, <2>2, <2>3
      <3>3. CASE i # step /\ j # step
        BY <3>3, <2>2, <2>3 DEF Apart, Distinct
      <3> QED BY <3>1, <3>2, <3>3
    <2> QED BY <2>4 DEF Apart, Distinct
  <1>4. CASE SaveManifest
    BY <1>4 DEF SaveManifest, local, Apart, Distinct, Without
  <1>5. CASE SaveIndex
    BY <1>5 DEF SaveIndex, local, Apart, Distinct, Without
  <1>6. CASE RollbackBegin
    BY <1>6 DEF RollbackBegin, store, Apart, Distinct
  <1>7. CASE MarkRolledBack
    BY <1>7 DEF MarkRolledBack, local, Apart, Distinct, Without
  <1>8. CASE Prune
    BY <1>8 DEF Prune, local, Apart, Distinct, Without
  <1>9. CASE User \/ Preview \/ PlanItem \/ LoadSidecar \/ SaveTags \/ SaveTagsFails
             \/ RestoreItem \/ RestoreTags \/ Crash
    <2>1. UNCHANGED <<moves, manifests>>
      BY <1>9 DEF User, Tick, UserDeletes, UserAdds, Preview, PlanItem, LoadSidecar, SaveTags,
                  SaveTagsFails, RestoreItem, RestoreTags, Crash, store, local
    <2> QED BY <2>1, <1>1
  <1> QED BY <1>1, <1>2, <1>3, <1>4, <1>5, <1>6, <1>7, <1>8, <1>9 DEF Next, Apply, Rollback, vars

(* While a rollback that was promised runs without a failure, the moves    *)
(* below the current one can still be restored and those above it are.     *)
Promise ==
    /\ pc = "restore" => step <= Len(moves)
    /\ pc = "restore" /\ promised =>
         \A i, j \in DOMAIN moves : moves[i].destination # moves[j].source
    /\ pc = "restore" /\ promised /\ sound =>
         /\ unrestored = 0
         /\ \A i \in DOMAIN moves :
              /\ i <= step =>
                   /\ Restorable(moves[i])
                   /\ disk[moves[i].destination] = start[moves[i].destination]
              /\ i > step =>
                   /\ Exists(disk, moves[i].source)
                   /\ disk[moves[i].source] = start[moves[i].destination]
    /\ PreflightIsSound

(* One step of a rollback: a move is restored, or left alone and counted,  *)
(* which a restorable move is only when its rename fails.                  *)
LEMMA RestoreItemFacts ==
    ASSUME Inv, RestoreItem
    PROVE  /\ pc = "restore" /\ pc' = "restore" /\ step \in DOMAIN moves /\ step' = step - 1
           /\ UNCHANGED <<moves, start, promised, deleted, sidecar, manifests>>
           /\ sound' => sound
           /\ \/ /\ Restorable(moves[step]) /\ UNCHANGED unrestored
                 /\ disk' = RenameOn(disk, moves[step].destination, moves[step].source)
                 /\ MovePathKey(moves[step].destination, moves[step].source)
              \/ /\ Restorable(moves[step]) => ~sound'
                 /\ UNCHANGED <<disk, tags>>
  BY DEF RestoreItem, store, Fault, NoFault

LEMMA PromiseStep == Inv /\ Apart /\ Promise /\ [Next]_vars => Promise'
  <1> SUFFICES ASSUME Inv, Apart, Promise, [Next]_vars PROVE Promise'
    OBVIOUS
  <1>1. CASE pc' \notin {"restore", "mark"}
    BY <1>1 DEF Promise, PreflightIsSound
  <1>2. CASE UNCHANGED <<disk, moves, step, pc, start, promised, sound, unrestored>>
    BY <1>2 DEF Promise, PreflightIsSound, Restorable, Exists
  <1>3. CASE RollbackBegin
    <2>1. PICK id \in DOMAIN manifests :
            /\ moves' = manifests[id] /\ step' = Len(manifests[id])
            /\ promised' = FullyRestorable(manifests[id])
      BY <1>3 DEF RollbackBegin
    <2>2. /\ disk' = disk /\ start' = disk /\ unrestored' = 0 /\ pc' = "restore"
      BY <1>3 DEF RollbackBegin
    <2>3. /\ DOMAIN moves' = 1 .. Len(moves') /\ Len(moves') \in Nat /\ step' = Len(moves')
      BY <2>1, LenProperties DEF Inv, TypeOK, HistoryOK
    <2>4. promised' => \A i \in DOMAIN moves' :
                         /\ moves'[i].renamed /\ moves'[i].destination \in DOMAIN disk
                         /\ moves'[i].source \notin DOMAIN disk
      BY <2>1 DEF FullyRestorable, Restorable, Exists
    <2> QED BY <2>2, <2>3, <2>4 DEF Promise, PreflightIsSound, Restorable, Exists
  <1>4. CASE RestoreItem
    <2>1. /\ pc = "restore" /\ pc' = "restore" /\ step \in DOMAIN moves /\ step' = step - 1
          /\ UNCHANGED <<moves, start, promised>>
          /\ sound' => sound
          /\ \/ /\ Restorable(moves[step]) /\ UNCHANGED unrestored
                /\ disk' = RenameOn(disk, moves[step].destination, moves[step].source)
             \/ Restorable(moves[step]) => ~sound'
      BY <1>4, RestoreItemFacts
    <2>2. DOMAIN moves = 1 .. Len(moves) /\ Len(moves) \in Nat /\ step \in Nat /\ step <= step
      BY SeqDomains
    <2> DEFINE from == moves[step].destination
               to   == moves[step].source
    <2>3. ASSUME promised, sound'
          PROVE  /\ unrestored' = 0
                 /\ \A i \in DOMAIN moves :
                      /\ i < step => /\ Restorable(moves[i])'
                                     /\ disk'[moves[i].destination] = start[moves[i].destination]
                      /\ i >= step => /\ Exists(disk, moves[i].source)'
                                      /\ disk'[moves[i].source] = start[moves[i].destination]
      <3>1. unrestored = 0 /\ Restorable(moves[step]) /\ disk[from] = start[from]
        BY <2>1, <2>2, <2>3 DEF Promise
      <3>2. unrestored' = 0 /\ disk' = RenameOn(disk, from, to)
        BY <2>1, <2>3, <3>1
      <3>3. ASSUME NEW i \in DOMAIN moves, i < step
            PROVE  /\ moves[i].renamed /\ moves[i].destination \in DOMAIN disk'
                   /\ moves[i].source \notin DOMAIN disk'
                   /\ disk'[moves[i].destination] = start[moves[i].destination]
        <4>1. /\ moves[i].renamed /\ moves[i].destination \in DOMAIN disk
              /\ moves[i].source \notin DOMAIN disk
              /\ disk[moves[i].destination] = start[moves[i].destination]
          BY <2>1, <2>2, <2>3, <3>3 DEF Promise, Restorable, Exists
        <4>2. i # step
          BY <2>2, <3>3
        <4>3. /\ moves[i].destination # from /\ moves[i].destination # to
              /\ moves[i].source # to
          BY <2>1, <2>3, <4>2 DEF Promise, Apart, Distinct
        <4> HIDE DEF from, to
        <4> QED BY <3>2, <4>1, <4>3 DEF RenameOn
      <3>4. ASSUME NEW i \in DOMAIN moves, i >= step
            PROVE  /\ moves[i].source \in DOMAIN disk'
                   /\ disk'[moves[i].source] = start[moves[i].destination]
        <4>1. CASE i = step
          BY <3>1, <3>2, <4>1 DEF RenameOn
        <4>2. CASE i # step
          <5>1. i > step
            BY <2>2, <3>4, <4>2
          <5>2. /\ moves[i].source \in DOMAIN disk
                /\ disk[moves[i].source] = start[moves[i].destination]
            BY <2>1, <2>3, <5>1 DEF Promise, Exists
          <5>3. moves[i].source # from /\ moves[i].source # to
            BY <2>1, <2>3, <4>2 DEF Promise, Apart, Distinct
          <5> HIDE DEF from, to
          <5> QED BY <3>2, <5>2, <5>3 DEF RenameOn
        <4> QED BY <4>1, <4>2
      <3> QED BY <2>1, <3>2, <3>3, <3>4 DEF Restorable, Exists
    <2>4. \A i \in DOMAIN moves : (i <= step - 1 => i < step) /\ (i > step - 1 => i >= step)
      BY <2>2
    <2>5. step - 1 <= Len(moves)
      BY <2>1, <2>2
    <2>6. promised => \A i, j \in DOMAIN moves : moves[i].destination # moves[j].source
      BY <2>1 DEF Promise
    <2> QED BY <2>1, <2>3, <2>4, <2>5, <2>6 DEF Promise, PreflightIsSound
  <1>5. CASE RestoreTags
    <2>1. /\ pc = "restore" /\ step \notin DOMAIN moves /\ pc' \in {"mark", "idle"}
          /\ UNCHANGED <<disk, moves, start, promised, unrestored>>
          /\ sound' => sound
      BY <1>5 DEF RestoreTags, local, NoFault, Fault
    <2>2. \A i \in DOMAIN moves : i > step
      BY <2>1, SeqDomains DEF Promise
    <2> QED BY <2>1, <2>2 DEF Promise, PreflightIsSound, Exists
  <1>6. CASE User \/ Preview \/ Prune \/ Crash \/ MarkRolledBack \/ Apply
    <2>1. pc' \notin {"restore", "mark"}
      BY <1>6 DEF User, Tick, UserDeletes, UserAdds, Preview, MarkRolledBack, Prune, Crash, Idle,
                  Apply, ApplyBegin, PlanItem, LoadSidecar, RenameItem, SaveTags, SaveTagsFails,
                  SaveManifest, SaveIndex
    <2> QED BY <2>1, <1>1
  <1> QED BY <1>2, <1>3, <1>4, <1>5, <1>6 DEF Next, Rollback, vars

Matches(table, d) ==
    \A k \in DOMAIN table : \E p \in DOMAIN d : Key(p) = k /\ table[k] = d[p]

(* As long as no call failed, the user deleted nothing and no two files    *)
(* were at paths that differ in case only, the entries are those of the    *)
(* disk: the sidecar's between renames, and while files are moved those in *)
(* memory, with the sidecar still that of the old disk.                    *)
TagsMatch ==
    sound /\ ~deleted /\ distinct =>
      /\ CaseDistinct(disk)
      /\ pc \notin {"rename", "restore"} => Matches(sidecar, disk)
      /\ pc \in {"rename", "restore"} => Matches(tags, disk) /\ Matches(sidecar, start)
      /\ pc = "rename" /\ Renamed(moves) = {} => disk = start

(* Moving a file and the entry of its path together keeps the two alike.   *)
LEMMA MovedTogether ==
    ASSUME Matches(tags, disk), CaseDistinct(disk),
           NEW from \in DOMAIN disk, NEW to, to \notin DOMAIN disk,
           disk' = RenameOn(disk, from, to), MovePathKey(from, to)
    PROVE  Matches(tags', disk')
  <1>1. /\ DOMAIN disk' = (DOMAIN disk \ {from}) \cup {to}
        /\ disk'[to] = disk[from]
        /\ \A p \in DOMAIN disk \ {from} : disk'[p] = disk[p]
    BY DEF RenameOn
  <1>2. \A k \in DOMAIN tags \ {Key(from)} :
           \E p \in DOMAIN disk' : Key(p) = k /\ tags[k] = disk'[p]
    BY <1>1 DEF Matches
  <1>3. CASE Key(from) \in DOMAIN tags
    <2>1. tags[Key(from)] = disk[from]
      BY <1>3 DEF Matches, CaseDistinct
    <2>2. /\ DOMAIN tags' = (DOMAIN tags \ {Key(from)}) \cup {Key(to)}
          /\ tags'[Key(to)] = disk[from]
          /\ \A k \in DOMAIN tags' \ {Key(to)} : tags'[k] = tags[k]
      BY <1>3, <2>1 DEF MovePathKey, RenameOn
    <2> QED BY <1>1, <1>2, <2>2 DEF Matches
  <1>4. CASE Key(from) \notin DOMAIN tags
    BY <1>2, <1>4 DEF Matches, MovePathKey
  <1> QED BY <1>3, <1>4

(* Without paths that differ in case only, the entries a preview makes are *)
(* given to the files they are made for.                                   *)
LEMMA EnsuredMatch ==
    ASSUME Matches(sidecar, disk), CaseDistinct(disk), IsFiniteSet(DOMAIN disk),
           NEW list \in SetToSeqs(DOMAIN disk)
    PROVE  Matches(EnsureEntries(sidecar, list), disk)
  <1>1. Cardinality(DOMAIN disk) \in Nat
    BY FS_CardinalityType
  <1>2. /\ DOMAIN list = 1 .. Cardinality(DOMAIN disk)
        /\ \A i \in DOMAIN list : list[i] \in DOMAIN disk
        /\ \A i, j \in DOMAIN list : list[i] = list[j] => i = j
    BY DEF SetToSeqs
  <1> DEFINE At(k) == CHOOSE i \in DOMAIN list :
                         /\ Key(list[i]) = k
                         /\ \A j \in 1 .. i - 1 : Key(list[j]) # k
  <1>3. ASSUME NEW i \in DOMAIN list
        PROVE  At(Key(list[i])) \in DOMAIN list /\ Key(list[At(Key(list[i]))]) = Key(list[i])
    <2>1. \A j \in 1 .. i - 1 : Key(list[j]) # Key(list[i])
      <3> SUFFICES ASSUME NEW j \in 1 .. i - 1, Key(list[j]) = Key(list[i]) PROVE FALSE
        OBVIOUS
      <3>1. j \in DOMAIN list /\ j # i
        BY <1>1, <1>2
      <3>2. list[j] = list[i]
        BY <1>2, <3>1 DEF CaseDistinct
      <3> QED BY <1>2, <3>1, <3>2
    <2> QED BY <2>1
  <1> HIDE DEF At
  <1>4. SUFFICES ASSUME NEW k \in DOMAIN sidecar \cup {Key(list[i]) : i \in DOMAIN list},
                        k \notin DOMAIN sidecar
                 PROVE  \E p \in DOMAIN disk : Key(p) = k /\ disk[list[At(k)]] = disk[p]
    BY DEF Matches, EnsureEntries, At
  <1>5. PICK i \in DOMAIN list : k = Key(list[i])
    BY <1>4
  <1> QED BY <1>2, <1>3, <1>5

LEMMA TagsStep == Inv /\ Seen /\ Made /\ TagsMatch /\ [Next]_vars => TagsMatch'
  <1> SUFFICES ASSUME Inv, Seen, Made, TagsMatch, [Next]_vars, sound', ~deleted', distinct'
               PROVE  TagsMatch'
    BY DEF TagsMatch
  <1>1. sound /\ ~deleted /\ distinct
    <2>1. /\ (sound' = sound \/ sound' = FALSE) /\ (deleted' = deleted \/ deleted' = TRUE)
          /\ distinct' => distinct
      <3>1. CASE UNCHANGED vars
        BY <3>1 DEF vars
      <3>2. CASE User \/ Preview \/ Prune \/ Crash
        BY <3>2 DEF User, Tick, UserDeletes, UserAdds, Preview, Prune, Crash, ghost, Fault, NoFault
      <3>3. CASE ApplyBegin \/ PlanItem \/ LoadSidecar \/ RenameItem
        BY <3>3 DEF ApplyBegin, PlanItem, LoadSidecar, RenameItem, ghost, Fault, NoFault
      <3>4. CASE SaveTags \/ SaveTagsFails \/ SaveManifest \/ SaveIndex
        BY <3>4 DEF SaveTags, SaveTagsFails, SaveManifest, SaveIndex, ghost, Fault, NoFault
      <3>5. CASE Rollback
        BY <3>5 DEF Rollback, RollbackBegin, RestoreItem, RestoreTags, MarkRolledBack, ghost,
                    Fault, NoFault
      <3> QED BY <3>1, <3>2, <3>3, <3>4, <3>5 DEF Next, Apply
    <2>2. sound
      BY <2>1
    <2>3. ~deleted
      BY <2>1
    <2>4. distinct
      BY <2>1
    <2> QED BY <2>2, <2>3, <2>4
  <1>2. CASE UNCHANGED <<disk, sidecar, tags, start, moves, pc>>
    BY <1>1, <1>2 DEF TagsMatch, Matches, Renamed, CaseDistinct
  <1>3. CASE Tick \/ ApplyBegin \/ PlanItem \/ SaveManifest \/ SaveIndex \/ MarkRolledBack \/ Prune
    <2>1. /\ UNCHANGED <<disk, sidecar>>
          /\ pc \notin {"rename", "restore"} /\ pc' \notin {"rename", "restore"}
      BY <1>3 DEF Tick, ApplyBegin, PlanItem, SaveManifest, SaveIndex, MarkRolledBack, Prune,
                  store, Idle
    <2> QED BY <1>1, <2>1 DEF TagsMatch, Matches, CaseDistinct
  <1>4. CASE UserAdds
    <2>1. PICK f \in Photos \ FilesOn(disk) :
            /\ ~Exists(disk, Home[f])
            /\ disk' = [p \in DOMAIN disk \cup {Home[f]} |-> IF p = Home[f] THEN f ELSE disk[p]]
      BY <1>4 DEF UserAdds
    <2>2. pc = "idle" /\ pc' = "idle" /\ sidecar' = sidecar /\ CaseDistinct(disk')
      BY <1>4 DEF UserAdds, Idle, store
    <2>3. Matches(sidecar, disk)
      BY <1>1, <2>2 DEF TagsMatch
    <2>4. \A p \in DOMAIN disk : p \in DOMAIN disk' /\ disk'[p] = disk[p]
      BY <2>1 DEF Exists
    <2>5. Matches(sidecar, disk')
      BY <2>3, <2>4 DEF Matches
    <2> QED BY <2>2, <2>5 DEF TagsMatch, Matches, CaseDistinct
  <1>5. CASE Preview
    <2>1. PICK list \in SetToSeqs(DOMAIN disk) :
             sidecar' = EnsureEntries(sidecar, list) \/ sound' = FALSE
      BY <1>5 DEF Preview, Fault
    <2>2. pc = "idle" /\ pc' = "idle" /\ disk' = disk
      BY <1>5 DEF Preview, Idle
    <2>3. Matches(sidecar, disk) /\ CaseDistinct(disk) /\ IsFiniteSet(DOMAIN disk)
      BY <1>1, <2>2 DEF TagsMatch, Inv, TypeOK, DiskOK
    <2>4. sidecar' = EnsureEntries(sidecar, list)
      BY <2>1
    <2>5. Matches(sidecar', disk)
      BY <2>3, <2>4, EnsuredMatch
    <2> QED BY <2>2, <2>3, <2>5 DEF TagsMatch, Matches, CaseDistinct
  <1>6. CASE LoadSidecar
    <2>1. pc = "plan" /\ pc' = "rename" /\ tags' = sidecar /\ UNCHANGED <<disk, sidecar, start>>
      BY <1>6 DEF LoadSidecar, store, ghost
    <2>2. disk = start
      BY <2>1 DEF Seen
    <2> QED BY <1>1, <2>1, <2>2 DEF TagsMatch, Matches, CaseDistinct
  <1>7. CASE RenameItem
    <2>1. /\ pc = "rename" /\ pc' = "rename" /\ step \in DOMAIN items
          /\ UNCHANGED <<start, sidecar>>
          /\ DOMAIN moves = 1 .. step - 1 /\ DOMAIN moves' = 1 .. step
          /\ \A i \in 1 .. step - 1 : moves'[i] = moves[i]
          /\ \/ ~moves'[step].renamed /\ UNCHANGED <<disk, tags>>
             \/ /\ moves'[step].renamed
                /\ items[step].source \in DOMAIN disk
                /\ targets[step] \notin DOMAIN disk
                /\ disk' = RenameOn(disk, items[step].source, targets[step])
                /\ MovePathKey(items[step].source, targets[step])
      BY <1>7, RenameItemFacts
    <2>2. step \in Nat \ {0}
      BY <2>1, SeqDomains
    <2>3. Matches(tags, disk) /\ Matches(sidecar, start) /\ CaseDistinct(disk)
      BY <1>1, <2>1 DEF TagsMatch
    <2>6. CaseDistinct(disk')
      BY <1>7 DEF RenameItem
    <2>4. CASE moves'[step].renamed
      <3>1. Matches(tags', disk')
        BY <2>1, <2>3, <2>4, MovedTogether
      <3>2. step \in Renamed(moves')
        BY <2>1, <2>2, <2>4 DEF Renamed
      <3> QED BY <2>1, <2>3, <2>6, <3>1, <3>2 DEF TagsMatch, Matches, Renamed, CaseDistinct
    <2>5. CASE ~moves'[step].renamed
      <3>1. UNCHANGED <<disk, tags>>
        BY <2>1, <2>5
      <3>2. Renamed(moves') = {} => Renamed(moves) = {}
        BY <2>1, <2>2 DEF Renamed
      <3>3. Renamed(moves') = {} => disk = start
        BY <1>1, <2>1, <3>2 DEF TagsMatch
      <3> QED BY <2>1, <2>3, <2>6, <3>1, <3>3 DEF TagsMatch, Matches, Renamed, CaseDistinct
    <2> QED BY <2>4, <2>5
  <1>8. CASE SaveTags
    <2>1. /\ pc = "rename" /\ pc' = "manifest" /\ disk' = disk
          /\ sidecar' = IF Renamed(moves) # {} THEN tags ELSE sidecar
      BY <1>8 DEF SaveTags
    <2>2. /\ Matches(tags, disk) /\ Matches(sidecar, start) /\ CaseDistinct(disk)
          /\ Renamed(moves) = {} => disk = start
      BY <1>1, <2>1 DEF TagsMatch
    <2>3. Matches(sidecar', disk)
      BY <2>1, <2>2
    <2> QED BY <2>1, <2>2, <2>3 DEF TagsMatch, Matches, CaseDistinct
  <1>9. CASE RollbackBegin
    <2>1. /\ pc = "idle" /\ pc' = "restore" /\ tags' = sidecar /\ disk' = disk /\ start' = disk
          /\ sidecar' = sidecar
      BY <1>9 DEF RollbackBegin, Idle, store
    <2> QED BY <1>1, <2>1 DEF TagsMatch, Matches, CaseDistinct
  <1>10. CASE RestoreItem
    <2>1. /\ pc = "restore" /\ pc' = "restore" /\ UNCHANGED <<start, sidecar>>
          /\ \/ /\ Restorable(moves[step])
                /\ disk' = RenameOn(disk, moves[step].destination, moves[step].source)
                /\ MovePathKey(moves[step].destination, moves[step].source)
             \/ UNCHANGED <<disk, tags>>
      BY <1>10, RestoreItemFacts
    <2>2. Matches(tags, disk) /\ Matches(sidecar, start) /\ CaseDistinct(disk)
      BY <1>1, <2>1 DEF TagsMatch
    <2>4. CaseDistinct(disk')
      BY <1>10 DEF RestoreItem
    <2>3. Matches(tags', disk')
      <3>1. CASE UNCHANGED <<disk, tags>>
        BY <2>2, <3>1
      <3>2. CASE ~UNCHANGED <<disk, tags>>
        <4>1. /\ moves[step].destination \in DOMAIN disk /\ moves[step].source \notin DOMAIN disk
              /\ disk' = RenameOn(disk, moves[step].destination, moves[step].source)
              /\ MovePathKey(moves[step].destination, moves[step].source)
          BY <2>1, <3>2 DEF Restorable, Exists
        <4> QED BY <4>1, <2>2, MovedTogether
      <3> QED BY <3>1, <3>2
    <2> QED BY <2>1, <2>2, <2>3, <2>4 DEF TagsMatch, Matches, CaseDistinct
  <1>11. CASE RestoreTags
    <2>1. /\ pc = "restore" /\ pc' = "mark" /\ disk' = disk
          /\ sidecar' = IF disk # start THEN tags ELSE sidecar
      BY <1>11 DEF RestoreTags, Fault
    <2>2. Matches(sidecar', disk) /\ CaseDistinct(disk)
      BY <1>1, <2>1 DEF TagsMatch
    <2> QED BY <2>1, <2>2 DEF TagsMatch, Matches, CaseDistinct
  <1>12. ~UserDeletes /\ ~SaveTagsFails /\ ~Crash
    BY DEF UserDeletes, SaveTagsFails, Crash, Fault
  <1> QED BY <1>2, <1>3, <1>4, <1>5, <1>6, <1>7, <1>8, <1>9, <1>10, <1>11, <1>12
          DEF Next, User, Apply, Rollback, vars
-----------------------------------------------------------------------------
DeepInv == Inv /\ Seen /\ Made /\ Apart /\ Promise /\ TagsMatch

LEMMA InitDeep == Init => DeepInv
  <1> SUFFICES ASSUME Init PROVE DeepInv
    OBVIOUS
  <1>1. Inv
    BY InitInv
  <1>2. Seen /\ Made /\ Apart /\ Promise
    BY DEF Init, Seen, Made, Apart, Distinct, Promise, PreflightIsSound
  <1>3. TagsMatch
    <2>1. distinct = CaseDistinct(disk) /\ sidecar = <<>> /\ pc = "idle"
      BY DEF Init, NoTags
    <2>2. Matches(sidecar, disk)
      BY <2>1 DEF Matches
    <2> QED BY <2>1, <2>2 DEF TagsMatch
  <1> QED BY <1>1, <1>2, <1>3 DEF DeepInv

LEMMA StepDeep == DeepInv /\ [Next]_vars => DeepInv'
  BY StepInv, SeenStep, MadeStep, ApartStep, PromiseStep, TagsStep DEF DeepInv

LEMMA DeepInvariance == Spec => []DeepInv
  BY InitDeep, StepDeep, PTL DEF Spec

(* A file is renamed only if it is the file the preview saw at that path.  *)
(* The fingerprint is checked once, when the apply begins; no rename after *)
(* it puts another file at a source that is still to be renamed.           *)
THEOREM RenamesOnlyWhatWasPreviewed == Spec => RenamesWhatWasPreviewed
  <1>1. ASSUME DeepInv, [Next]_vars, pc = "rename", disk' # disk
        PROVE  disk[items[step].source] = items[step].file
    <2>1. RenameItem
      BY <1>1 DEF Next, User, Tick, UserDeletes, UserAdds, Preview, Apply, ApplyBegin, PlanItem,
                  LoadSidecar, SaveTags, SaveTagsFails, SaveManifest, SaveIndex, Rollback,
                  RollbackBegin, RestoreItem, RestoreTags, MarkRolledBack, Prune, Crash, vars, Idle
    <2> QED BY <1>1, <2>1, RenameItemFacts DEF DeepInv
  <1>2. DeepInv /\ [Next]_vars
          => [pc = "rename" /\ disk' # disk => disk[items[step].source] = items[step].file]_vars
    BY <1>1
  <1> QED BY <1>2, DeepInvariance, PTL DEF Spec, RenamesWhatWasPreviewed

(* The operation that is recorded when every item was renamed can be       *)
(* rolled back in full: each move names where its file was and is.         *)
THEOREM FreshOperationsAreRestorable == Spec => []FreshOperationIsRestorable
  <1>1. DeepInv => FreshOperationIsRestorable
    <2> SUFFICES ASSUME DeepInv, pc \in {"manifest", "index"}, moves # <<>>,
                        Renamed(moves) = DOMAIN moves
                 PROVE  /\ FullyRestorable(moves)
                        /\ \A i \in DOMAIN moves :
                              disk[moves[i].destination] = start[moves[i].source]
      BY DEF FreshOperationIsRestorable
    <2>1. \A i \in DOMAIN moves : moves[i].renamed
      BY DEF Renamed
    <2>2. \A i \in DOMAIN moves :
             /\ Restorable(moves[i]) /\ disk[moves[i].destination] = items[i].file
             /\ i \in DOMAIN items /\ moves[i].source = items[i].source
      BY <2>1 DEF DeepInv, Made
    <2>3. \A i \in DOMAIN items : start[items[i].source] = items[i].file
      BY DEF DeepInv, Seen
    <2> QED BY <2>2, <2>3 DEF FullyRestorable
  <1> QED BY <1>1, DeepInvariance, PTL

(* When the preflight promised a full rollback and no call failed, every   *)
(* file is back at its source when the operation is marked rolled back.    *)
THEOREM PreflightKeepsItsWord == Spec => []PreflightIsSound
  <1>1. DeepInv => PreflightIsSound
    BY DEF DeepInv, Promise
  <1> QED BY <1>1, DeepInvariance, PTL

(* Tags follow their file through any number of previews, applies and      *)
(* rollbacks in which nothing failed, the user deleted no file and no two  *)
(* files were ever at paths that differ in case only, for every spelling   *)
(* of the names in between and every way (Key) of telling paths apart.     *)
THEOREM TagsFollowTheirFiles == Spec => []TagsFollowFiles
  <1>1. DeepInv => TagsFollowFiles
    BY DEF DeepInv, TagsMatch, TagsFollowFiles, Matches, Idle, Exists
  <1> QED BY <1>1, DeepInvariance, PTL
=============================================================================
