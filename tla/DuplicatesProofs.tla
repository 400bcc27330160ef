------------------------- MODULE DuplicatesProofs -------------------------
(***************************************************************************)
(* Theorems about the duplicate mover, for every library, hash, directory  *)
(* and bound: its types, that a move never takes the last copy from its    *)
(* place, that a complete one leaves one copy, and that it implements the  *)
(* file store.                                                             *)
(***************************************************************************)
EXTENDS Duplicates, FiniteSets, FiniteSetTheorems, SequenceTheorems, TLAPS
-----------------------------------------------------------------------------
(* Files on a disk.                                                        *)

(* The n-th name the collision loops try is a path: only its suffix grows. *)
LEMMA CandidateKeepsShape ==
    ASSUME NEW path \in [dir : STRING, stem : STRING, sfx : Seq(Nat)], NEW n \in Nat
    PROVE  Candidate(path, n) \in [dir : STRING, stem : STRING, sfx : Seq(Nat)]
  <1>1. Append(path.sfx, n) \in Seq(Nat)
    BY AppendProperties
  <1>2. Suffixed(path, n) \in [dir : STRING, stem : STRING, sfx : Seq(Nat)]
    <2>1. /\ Suffixed(path, n) = [path EXCEPT !.sfx = Append(path.sfx, n)]
          /\ path.dir \in STRING /\ path.stem \in STRING
      BY DEF Suffixed
    <2> QED BY ONLY <2>1, <1>1, path \in [dir : STRING, stem : STRING, sfx : Seq(Nat)]
  <1> QED BY <1>2 DEF Candidate

(* A rename onto a free path, or onto the path itself, keeps every file:   *)
(* FsMoveFile and the renamers check for the path before they rename.      *)
LEMMA RenameKeepsFiles ==
    ASSUME NEW d, NEW from \in DOMAIN d, NEW to,
           to \notin DOMAIN d \/ to = from
    PROVE  FilesOn(RenameOn(d, from, to)) = FilesOn(d)
  <1> DEFINE e == RenameOn(d, from, to)
  <1>1. /\ DOMAIN e = (DOMAIN d \ {from}) \cup {to}
        /\ e[to] = d[from]
        /\ \A p \in DOMAIN d \ {from, to} : e[p] = d[p]
    BY DEF RenameOn
  <1>2. \A p \in DOMAIN e : \E q \in DOMAIN d : e[p] = d[q]
    BY <1>1
  <1>3. \A q \in DOMAIN d : \E p \in DOMAIN e : e[p] = d[q]
    <2>1. TAKE q \in DOMAIN d
    <2>2. CASE q = from
      BY <2>2, <1>1
    <2>3. CASE q # from
      BY <2>3, <1>1
    <2> QED BY <2>2, <2>3
  <1> HIDE DEF e
  <1>4. FilesOn(e) = FilesOn(d)
    BY <1>2, <1>3 DEF FilesOn
  <1> QED BY <1>4 DEF e

(* A disk stays finite. *)
LEMMA RenameKeepsFinite ==
    ASSUME NEW d, IsFiniteSet(DOMAIN d), NEW from \in DOMAIN d, NEW to
    PROVE  IsFiniteSet(DOMAIN RenameOn(d, from, to))
  <1>1. IsFiniteSet((DOMAIN d \ {from}) \cup {to})
    BY FS_AddElement, FS_RemoveElement
  <1> QED BY <1>1 DEF RenameOn

(* What a collision loop returns is free, and one of its candidates. *)
LEMMA FirstFreeIsFree ==
    ASSUME NEW d, NEW path, NEW bound \in Nat, NEW free \in FirstFree(d, path, bound)
    PROVE  /\ free \notin DOMAIN d
           /\ \E n \in 0 .. bound : free = Candidate(path, n)
  BY DEF FirstFree, Exists
-----------------------------------------------------------------------------

LEMMA Assumed ==
    /\ Md5 \in [Contents -> Md5s]
    /\ UserPaths \subseteq PathRecord /\ Targets \subseteq STRING /\ Targets # {}
    /\ MaxSuffix \in Nat /\ MaxOps \in Nat /\ MaxFaults \in Nat
  BY DuplicatesAssumption

(* The disk, cache and report parts of the type invariant, to be kept by   *)
(* one action each.                                                        *)
DiskOK ==
    /\ FilesOn(disk) \subseteq Contents
    /\ DOMAIN disk \subseteq PathRecord /\ IsFiniteSet(DOMAIN disk)

CacheOK ==
    /\ DOMAIN cache \subseteq PathRecord /\ IsFiniteSet(DOMAIN cache)
    /\ \A p \in DOMAIN cache : cache[p] \in Md5s

ControlOK ==
    /\ pc \in {"idle", "moving"} /\ target \in Targets
    /\ at = {} \/ \E g \in report : at = {g.original}
    /\ ops \in 0 .. MaxOps /\ faults \in 0 .. MaxFaults

AtRest == pc = "idle" => at = {} /\ ~failed

LEMMA TypeParts == TypeOK <=> DiskOK /\ CacheOK /\ IsReport /\ ControlOK /\ AtRest
  BY DEF TypeOK, DiskOK, CacheOK, ControlOK, AtRest

LEMMA SameDisk == DiskOK /\ UNCHANGED disk => DiskOK'
  BY DEF DiskOK

LEMMA SameCache == CacheOK /\ UNCHANGED cache => CacheOK'
  BY DEF CacheOK

LEMMA SameReport == IsReport /\ UNCHANGED report => IsReport'
  BY DEF IsReport

(* An operation that starts leaves the counter in its bound.               *)
LEMMA OneMore == ControlOK /\ Idle => ops' \in 0 .. MaxOps
  BY Assumed DEF ControlOK, Idle

LEMMA InitType == Init => TypeOK
  <1> SUFFICES ASSUME Init PROVE TypeOK
    OBVIOUS
  <1>1. DiskOK
    BY DuplicatesAssumption DEF Init, DiskOK
  <1>2. CacheOK
    <2>1. cache = <<>> /\ DOMAIN cache = {}
      BY DEF Init
    <2> QED BY <2>1, FS_EmptySet DEF CacheOK
  <1>3. IsReport
    BY DEF Init, IsReport
  <1>4. ControlOK
    BY Assumed DEF Init, ControlOK
  <1>5. AtRest
    BY DEF Init, AtRest
  <1> QED BY <1>1, <1>2, <1>3, <1>4, <1>5, TypeParts

(* What is missed counts against the bound, and what is read are contents. *)
LEMMA MissingIsBounded ==
    ASSUME DiskOK, ControlOK, NEW missed \in SUBSET DOMAIN disk, Missing(missed)
    PROVE  faults' \in 0 .. MaxFaults
  <1>1. Cardinality(missed) \in Nat
    BY FS_Subset, FS_CardinalityType DEF DiskOK
  <1> QED BY <1>1, Assumed DEF Missing, ControlOK

LEMMA ReadingsAreContents ==
    ASSUME DiskOK, NEW missed \in SUBSET DOMAIN disk, NEW read \in Readings(missed)
    PROVE  /\ DOMAIN read \subseteq DOMAIN disk
           /\ \A p \in DOMAIN read : read[p] \in Contents
           /\ missed = {} => /\ DOMAIN read = DOMAIN disk
                             /\ \A p \in DOMAIN disk : read[p] = disk[p]
  <1> DEFINE Made(unread) == {[p \in DOMAIN disk \ unread |->
                                 IF p \in missed THEN seen[p] ELSE disk[p]] :
                                seen \in [missed -> Contents]}
  <1>0. PICK unread \in SUBSET missed : read \in Made(unread)
    <2>1. read \in UNION {Made(unread) : unread \in SUBSET missed}
      BY DEF Readings
    <2> HIDE DEF Made
    <2> QED BY <2>1
  <1>1. PICK seen \in [missed -> Contents] :
           read = [p \in DOMAIN disk \ unread |-> IF p \in missed THEN seen[p] ELSE disk[p]]
    BY <1>0
  <1> HIDE DEF Made
  <1>2. \A p \in DOMAIN disk : disk[p] \in Contents
    BY DEF DiskOK, FilesOn
  <1>3. \A p \in DOMAIN read : read[p] \in Contents
    <2>1. TAKE p \in DOMAIN read
    <2>2. p \in DOMAIN disk /\ read[p] = IF p \in missed THEN seen[p] ELSE disk[p]
      BY <1>1
    <2> QED BY <1>2, <2>2
  <1> QED BY <1>1, <1>3

LEMMA ScanType == TypeOK /\ Scan => TypeOK'
  <1> SUFFICES ASSUME TypeOK, Scan PROVE TypeOK'
    OBVIOUS
  <1>0. DiskOK /\ CacheOK /\ IsReport /\ ControlOK /\ AtRest
    BY TypeParts
  <1>1. DiskOK' /\ IsReport'
    BY <1>0, SameDisk, SameReport DEF Scan
  <1>2. CacheOK'
    <2>0. PICK missed \in SUBSET DOMAIN disk : \E read \in Readings(missed) :
             \E reached \in SUBSET DOMAIN read, kept \in {DOMAIN cache, {}} :
                cache' = [p \in kept \cup reached |->
                             IF p \in reached THEN Md5[read[p]] ELSE cache[p]]
      BY DEF Scan
    <2>r. PICK read \in Readings(missed) :
             \E reached \in SUBSET DOMAIN read, kept \in {DOMAIN cache, {}} :
                cache' = [p \in kept \cup reached |->
                             IF p \in reached THEN Md5[read[p]] ELSE cache[p]]
      BY <2>0
    <2>1. PICK reached \in SUBSET DOMAIN read, kept \in {DOMAIN cache, {}} :
             cache' = [p \in kept \cup reached |->
                          IF p \in reached THEN Md5[read[p]] ELSE cache[p]]
      BY <2>r
    <2>c. /\ reached \subseteq DOMAIN disk
          /\ \A p \in reached : read[p] \in Contents
      BY <1>0, ReadingsAreContents
    <2>2. kept \subseteq DOMAIN cache
      BY <2>1
    <2>3. DOMAIN cache' = kept \cup reached
      BY <2>1
    <2>4. IsFiniteSet(kept) /\ IsFiniteSet(reached)
      BY <1>0, <2>2, <2>c, FS_Subset DEF DiskOK, CacheOK
    <2>5. IsFiniteSet(kept \cup reached)
      BY <2>4, FS_Union
    <2>6. kept \cup reached \subseteq PathRecord
      BY <1>0, <2>2, <2>c DEF DiskOK, CacheOK
    <2>7. ASSUME NEW p \in kept \cup reached PROVE cache'[p] \in Md5s
      <3>1. CASE p \in reached
        <4>1. read[p] \in Contents
          BY <2>c, <3>1
        <4>2. Md5[read[p]] \in Md5s
          BY <4>1, Assumed
        <4> QED BY <2>1, <3>1, <4>2
      <3>2. CASE p \notin reached
        BY <1>0, <2>1, <2>2, <3>2 DEF CacheOK
      <3> QED BY <3>1, <3>2
    <2> QED BY <2>3, <2>5, <2>6, <2>7 DEF CacheOK
  <1>3. ControlOK'
    <2>1. faults' \in 0 .. MaxFaults
      BY <1>0, MissingIsBounded DEF Scan
    <2> QED BY <1>0, <2>1, OneMore DEF Scan, ControlOK
  <1>4. AtRest'
    BY <1>0 DEF Scan, AtRest
  <1> QED BY <1>1, <1>2, <1>3, <1>4, TypeParts, PTL

LEMMA UserEditType == TypeOK /\ UserEdit => TypeOK'
  <1> SUFFICES ASSUME TypeOK, UserEdit PROVE TypeOK'
    OBVIOUS
  <1>0. DiskOK /\ CacheOK /\ IsReport /\ ControlOK /\ AtRest
    BY TypeParts
  <1>1. CacheOK' /\ IsReport'
    BY <1>0, SameCache, SameReport DEF UserEdit
  <1>2. DiskOK'
    <2>1. PICK p \in UserPaths :
            \/ \E c \in Contents :
                  disk' = [q \in DOMAIN disk \cup {p} |-> IF q = p THEN c ELSE disk[q]]
            \/ disk' = [q \in DOMAIN disk \ {p} |-> disk[q]]
      BY DEF UserEdit
    <2>2. p \in PathRecord
      BY <2>1, Assumed
    <2>3. CASE \E c \in Contents :
                  disk' = [q \in DOMAIN disk \cup {p} |-> IF q = p THEN c ELSE disk[q]]
      <3>1. DOMAIN disk' = DOMAIN disk \cup {p} /\ IsFiniteSet(DOMAIN disk \cup {p})
        BY <1>0, <2>3, FS_AddElement DEF DiskOK
      <3>2. \A q \in DOMAIN disk' : disk'[q] \in Contents
        BY <1>0, <2>3 DEF DiskOK, FilesOn
      <3> QED BY <1>0, <2>2, <3>1, <3>2 DEF DiskOK, FilesOn
    <2>4. CASE disk' = [q \in DOMAIN disk \ {p} |-> disk[q]]
      <3>1. DOMAIN disk' = DOMAIN disk \ {p} /\ IsFiniteSet(DOMAIN disk \ {p})
        BY <1>0, <2>4, FS_RemoveElement DEF DiskOK
      <3>2. \A q \in DOMAIN disk' : disk'[q] \in Contents
        BY <1>0, <2>4 DEF DiskOK, FilesOn
      <3> QED BY <1>0, <3>1, <3>2 DEF DiskOK, FilesOn
    <2> QED BY <2>1, <2>3, <2>4
  <1>3. ControlOK'
    BY <1>0, OneMore DEF UserEdit, ControlOK
  <1>4. AtRest'
    BY <1>0 DEF UserEdit, AtRest
  <1> QED BY <1>1, <1>2, <1>3, <1>4, TypeParts, PTL
-----------------------------------------------------------------------------
(* The groups of a search are disjoint, as the blocks they come from are.  *)
LEMMA SearchIsReport ==
    ASSUME CacheOK, NEW base, NEW read, \A b \in Blocks : base[b] \in b,
           report' = {[original |-> base[b], duplicates |-> Verified(b, base[b], read)] :
                         b \in {x \in Blocks : Verified(x, base[x], read) # {}}}
    PROVE  IsReport'
  <1> DEFINE Group(b) == [original |-> base[b], duplicates |-> Verified(b, base[b], read)]
  <1>1. ASSUME NEW g \in report'
        PROVE  \E b \in Blocks : /\ g = Group(b) /\ Verified(b, base[b], read) # {}
    OBVIOUS
  <1>2. ASSUME NEW b \in Blocks PROVE Verified(b, base[b], read) \subseteq b \ {base[b]}
    BY DEF Verified
  <1>3. ASSUME NEW b \in Blocks PROVE b \subseteq DOMAIN cache
    BY DEF Blocks
  <1>4. ASSUME NEW b \in Blocks, NEW c \in Blocks, b # c PROVE b \cap c = {}
    <2>1. PICK m \in Md5s : b = {p \in DOMAIN cache : cache[p] = m}
      BY DEF Blocks
    <2>2. PICK n \in Md5s : c = {p \in DOMAIN cache : cache[p] = n}
      BY DEF Blocks
    <2> QED BY <1>4, <2>1, <2>2
  <1>5. ASSUME NEW g \in report'
        PROVE  /\ g \in [original : PathRecord, duplicates : SUBSET PathRecord]
               /\ g.duplicates # {} /\ g.original \notin g.duplicates
    <2>1. PICK b \in Blocks : g = Group(b) /\ Verified(b, base[b], read) # {}
      BY <1>1
    <2>2. base[b] \in b
      BY <2>1
    <2>3. b \subseteq PathRecord
      BY <1>3 DEF CacheOK
    <2> QED BY <1>2, <2>1, <2>2, <2>3
  <1>6. ASSUME NEW g \in report', NEW h \in report', g # h
        PROVE  ({g.original} \cup g.duplicates) \cap ({h.original} \cup h.duplicates) = {}
    <2>1. PICK b \in Blocks : g = Group(b)
      BY <1>1
    <2>2. PICK c \in Blocks : h = Group(c)
      BY <1>1
    <2>3. b # c
      BY <1>6, <2>1, <2>2
    <2>4. base[b] \in b /\ base[c] \in c
      BY <2>1, <2>2
    <2>5. {g.original} \cup g.duplicates \subseteq b /\ {h.original} \cup h.duplicates \subseteq c
      BY <1>2, <2>1, <2>2, <2>4
    <2> QED BY <1>4, <2>3, <2>5
  <1> QED BY <1>5, <1>6 DEF IsReport

LEMMA FindType == TypeOK /\ Find => TypeOK'
  <1> SUFFICES ASSUME TypeOK, Find PROVE TypeOK'
    OBVIOUS
  <1>0. DiskOK /\ CacheOK /\ IsReport /\ ControlOK /\ AtRest
    BY TypeParts
  <1>1. DiskOK' /\ CacheOK'
    BY <1>0, SameDisk, SameCache DEF Find
  <1>2. IsReport' /\ faults' \in 0 .. MaxFaults
    <2>1. CASE report' = {} /\ faults < MaxFaults /\ faults' = faults + 1
      BY <1>0, <2>1, Assumed DEF IsReport, ControlOK
    <2>2. CASE \E missed \in SUBSET DOMAIN disk :
             /\ Missing(missed)
             /\ \E base \in [Blocks -> DOMAIN cache], read \in Readings(missed) :
                   /\ \A b \in Blocks : base[b] \in b
                   /\ report' = {[original |-> base[b], duplicates |-> Verified(b, base[b], read)] :
                                    b \in {x \in Blocks : Verified(x, base[x], read) # {}}}
      <3>1. PICK missed \in SUBSET DOMAIN disk :
             /\ Missing(missed)
             /\ \E base \in [Blocks -> DOMAIN cache], read \in Readings(missed) :
                   /\ \A b \in Blocks : base[b] \in b
                   /\ report' = {[original |-> base[b], duplicates |-> Verified(b, base[b], read)] :
                                    b \in {x \in Blocks : Verified(x, base[x], read) # {}}}
        BY <2>2
      <3>2. IsReport'
        BY <1>0, <3>1, SearchIsReport
      <3>3. faults' \in 0 .. MaxFaults
        BY <1>0, <3>1, MissingIsBounded
      <3> QED BY <3>2, <3>3
    <2> QED BY <2>1, <2>2 DEF Find
  <1>3. /\ pc = "idle" /\ UNCHANGED <<pc, at, target, failed>>
    BY DEF Find, Idle
  <1>4. ControlOK'
    BY <1>0, <1>2, <1>3, OneMore DEF Find, ControlOK, AtRest
  <1>5. AtRest'
    BY <1>0, <1>3 DEF AtRest
  <1> QED BY <1>1, <1>2, <1>4, <1>5, TypeParts, PTL
-----------------------------------------------------------------------------
LEMMA BeginMoveType == TypeOK /\ BeginMove => TypeOK'
  <1> SUFFICES ASSUME TypeOK, BeginMove PROVE TypeOK'
    OBVIOUS
  <1>0. DiskOK /\ CacheOK /\ IsReport /\ ControlOK /\ AtRest
    BY TypeParts
  <1>1. DiskOK' /\ CacheOK' /\ IsReport'
    BY <1>0, SameDisk, SameCache, SameReport DEF BeginMove
  <1>2. ControlOK'
    BY <1>0, OneMore DEF BeginMove, ControlOK
  <1>3. AtRest'
    BY DEF BeginMove, AtRest
  <1> QED BY <1>1, <1>2, <1>3, TypeParts, PTL

(* FsMoveFile takes the file to a name in the target directory that did    *)
(* not exist.                                                              *)
LEMMA MovedTo ==
    ASSUME DiskOK, ControlOK, NEW d, MoveFile(d)
    PROVE  /\ d \in DOMAIN disk
           /\ \E to \in PathRecord : /\ to \notin DOMAIN disk /\ to.dir = target
                                     /\ disk' = RenameOn(disk, d, to)
  <1> DEFINE asked == [d EXCEPT !.dir = target]
  <1>1. d \in DOMAIN disk /\ d \in PathRecord
    BY DEF MoveFile, Exists, DiskOK
  <1>2. target \in STRING
    BY Assumed DEF ControlOK
  <1>3. asked \in PathRecord /\ asked.dir = target
    BY <1>1, <1>2 DEF PathRecord
  <1>4. PICK to \in FirstFree(disk, asked, MaxSuffix) : disk' = RenameOn(disk, d, to)
    BY DEF MoveFile
  <1> HIDE DEF asked
  <1>5. to \notin DOMAIN disk /\ \E n \in 0 .. MaxSuffix : to = Candidate(asked, n)
    BY <1>4, FirstFreeIsFree, Assumed
  <1>6. PICK n \in Nat : to = Candidate(asked, n)
    BY <1>5, Assumed
  <1>7. to \in PathRecord
    BY <1>3, <1>6, CandidateKeepsShape DEF PathRecord
  <1>8. to.dir = target
    <2>1. CASE n = 0
      BY <1>3, <1>6, <2>1 DEF Candidate
    <2>2. CASE n # 0
      BY <1>3, <1>6, <2>2 DEF Candidate, Suffixed, PathRecord
    <2> QED BY <2>1, <2>2
  <1> QED BY <1>1, <1>4, <1>5, <1>7, <1>8

(* What is left of a report is of the groups there were.                   *)
LEMMA WithoutType ==
    ASSUME IsReport, NEW g \in report, NEW d \in g.duplicates, report' = Without(g, d)
    PROVE  /\ \A h \in report' : \E k \in report :
                 /\ h.original = k.original
                 /\ h.duplicates = IF k = g THEN k.duplicates \ {d} ELSE k.duplicates
           /\ g.duplicates # {d} => \E h \in report' :
                 h.original = g.original /\ h.duplicates = g.duplicates \ {d}
           /\ report \ {g} \subseteq report'
           /\ IsReport'
  <1> DEFINE left == [g EXCEPT !.duplicates = @ \ {d}]
  <1>1. g \in [original : PathRecord, duplicates : SUBSET PathRecord]
    BY DEF IsReport
  <1>2. /\ left \in [original : PathRecord, duplicates : SUBSET PathRecord]
        /\ left.original = g.original /\ left.duplicates = g.duplicates \ {d}
    BY <1>1
  <1>3. report' = (report \ {g}) \cup (IF g.duplicates = {d} THEN {} ELSE {left})
    BY DEF Without
  <1> HIDE DEF left
  <1>4. \A h \in report' : h \in report \ {g} \/ (h = left /\ g.duplicates # {d})
    BY <1>3
  <1>5. \A h \in report' : \E k \in report :
                 /\ h.original = k.original
                 /\ h.duplicates = IF k = g THEN k.duplicates \ {d} ELSE k.duplicates
    BY <1>2, <1>4
  <1>6. g.duplicates # {d} => left \in report'
    BY <1>3
  <1>7. report \ {g} \subseteq report'
    BY <1>3
  <1>8. ASSUME NEW h \in report'
        PROVE  /\ h \in [original : PathRecord, duplicates : SUBSET PathRecord]
               /\ h.duplicates # {} /\ h.original \notin h.duplicates
    <2>1. CASE h \in report
      BY <2>1 DEF IsReport
    <2>2. CASE h = left /\ g.duplicates # {d}
      BY <1>2, <2>2 DEF IsReport
    <2> QED BY <1>4, <2>1, <2>2
  <1>9. ASSUME NEW h \in report', NEW k \in report', h # k
        PROVE  ({h.original} \cup h.duplicates) \cap ({k.original} \cup k.duplicates) = {}
    <2>1. CASE h \in report \ {g} /\ k \in report \ {g}
      BY <1>9, <2>1 DEF IsReport
    <2>2. CASE h \in report \ {g} /\ k = left
      <3>1. ({h.original} \cup h.duplicates) \cap ({g.original} \cup g.duplicates) = {}
        BY <2>2 DEF IsReport
      <3> QED BY <1>2, <2>2, <3>1
    <2>3. CASE h = left /\ k \in report \ {g}
      <3>1. ({g.original} \cup g.duplicates) \cap ({k.original} \cup k.duplicates) = {}
        BY <2>3 DEF IsReport
      <3> QED BY <1>2, <2>3, <3>1
    <2> QED BY <1>4, <1>9, <2>1, <2>2, <2>3
  <1>10. IsReport'
    BY <1>8, <1>9 DEF IsReport
  <1> QED BY <1>2, <1>5, <1>6, <1>7, <1>10

LEMMA MoveDuplicateType == TypeOK /\ MoveDuplicate => TypeOK'
  <1> SUFFICES ASSUME TypeOK, MoveDuplicate PROVE TypeOK'
    OBVIOUS
  <1>0. DiskOK /\ CacheOK /\ IsReport /\ ControlOK /\ AtRest
    BY TypeParts
  <1>1. PICK g \in report : \E d \in g.duplicates :
          /\ \/ MoveFile(d) /\ UNCHANGED <<failed, faults>>
             \/ MoveFails(d) /\ failed' = TRUE
          /\ report' = Without(g, d)
          /\ at' = IF g.duplicates = {d} THEN {} ELSE {g.original}
    BY DEF MoveDuplicate
  <1>2. PICK d \in g.duplicates :
          /\ \/ MoveFile(d) /\ UNCHANGED <<failed, faults>>
             \/ MoveFails(d) /\ failed' = TRUE
          /\ report' = Without(g, d)
          /\ at' = IF g.duplicates = {d} THEN {} ELSE {g.original}
    BY <1>1
  <1>3. CacheOK'
    BY <1>0, SameCache DEF MoveDuplicate
  <1>4. IsReport'
    BY <1>0, <1>2, WithoutType
  <1>5. DiskOK'
    <2>1. CASE MoveFile(d)
      <3>1. PICK to \in PathRecord : /\ d \in DOMAIN disk /\ to \notin DOMAIN disk
                                     /\ disk' = RenameOn(disk, d, to)
        BY <1>0, <2>1, MovedTo
      <3>2. FilesOn(disk') = FilesOn(disk)
        BY <3>1, RenameKeepsFiles
      <3>3. IsFiniteSet(DOMAIN disk')
        BY <1>0, <3>1, RenameKeepsFinite DEF DiskOK
      <3>4. DOMAIN disk' \subseteq PathRecord
        BY <1>0, <3>1 DEF DiskOK, RenameOn
      <3> QED BY <1>0, <3>2, <3>3, <3>4 DEF DiskOK
    <2>2. CASE MoveFails(d)
      BY <1>0, <2>2, SameDisk DEF MoveFails
    <2> QED BY <1>2, <2>1, <2>2
  <1>6. faults' \in 0 .. MaxFaults
    BY <1>0, <1>2, Assumed DEF ControlOK, MoveFails
  <1>7. at' = {} \/ \E h \in report' : at' = {h.original}
    BY <1>0, <1>2, WithoutType
  <1>8. ControlOK'
    BY <1>0, <1>6, <1>7 DEF MoveDuplicate, ControlOK
  <1>9. AtRest'
    BY DEF MoveDuplicate, AtRest
  <1> QED BY <1>3, <1>4, <1>5, <1>8, <1>9, TypeParts, PTL

LEMMA EndMoveType == TypeOK /\ EndMove => TypeOK'
  <1> SUFFICES ASSUME TypeOK, EndMove PROVE TypeOK'
    OBVIOUS
  <1>0. DiskOK /\ CacheOK /\ IsReport /\ ControlOK /\ AtRest
    BY TypeParts
  <1>1. DiskOK' /\ CacheOK' /\ IsReport'
    BY <1>0, SameDisk, SameCache, SameReport DEF EndMove
  <1>2. at = {}
    BY <1>0 DEF EndMove, ControlOK
  <1>3. ControlOK'
    BY <1>0, <1>2 DEF EndMove, ControlOK
  <1>4. AtRest'
    BY <1>2 DEF EndMove, AtRest
  <1> QED BY <1>1, <1>3, <1>4, TypeParts, PTL

LEMMA CrashType == TypeOK /\ Crash => TypeOK'
  <1> SUFFICES ASSUME TypeOK, Crash PROVE TypeOK'
    OBVIOUS
  <1>0. DiskOK /\ CacheOK /\ IsReport /\ ControlOK /\ AtRest
    BY TypeParts
  <1>1. DiskOK' /\ CacheOK'
    BY <1>0, SameDisk, SameCache DEF Crash
  <1>2. IsReport'
    BY DEF Crash, IsReport
  <1>3. ControlOK'
    BY <1>0, Assumed DEF Crash, ControlOK
  <1>4. AtRest'
    BY DEF Crash, AtRest
  <1> QED BY <1>1, <1>2, <1>3, <1>4, TypeParts, PTL

LEMMA StepType == TypeOK /\ [Next]_vars => TypeOK'
  <1> SUFFICES ASSUME TypeOK, [Next]_vars PROVE TypeOK'
    OBVIOUS
  <1>1. CASE UNCHANGED vars
    <2>1. DiskOK /\ CacheOK /\ IsReport /\ ControlOK /\ AtRest
      BY TypeParts
    <2>2. DiskOK' /\ CacheOK' /\ IsReport'
      BY <1>1, <2>1, SameDisk, SameCache, SameReport DEF vars
    <2>3. ControlOK' /\ AtRest'
      BY <1>1, <2>1 DEF vars, ControlOK, AtRest
    <2> QED BY <2>2, <2>3, TypeParts, PTL
  <1> QED BY <1>1, ScanType, UserEditType, FindType, BeginMoveType, MoveDuplicateType,
             EndMoveType, CrashType DEF Next

(* The mover's values are of their kinds, and the groups of a report are   *)
(* disjoint, through every search, move, edit and crash.                   *)
THEOREM TypeCorrect == Spec => []TypeOK
  BY InitType, StepType, PTL DEF Spec
-----------------------------------------------------------------------------
(* A report that is true stays true until the disk changes otherwise.      *)
LEMMA SearchIsTrue ==
    ASSUME NEW base, NEW read,
           report' = {[original |-> base[b], duplicates |-> Verified(b, base[b], read)] :
                         b \in {x \in Blocks : Verified(x, base[x], read) # {}}},
           DOMAIN read \subseteq DOMAIN disk, fresh' = (\A p \in DOMAIN read : read[p] = disk[p]),
           pc' = "idle", disk' = disk
    PROVE  ReportIsTrue'
  <1> SUFFICES ASSUME fresh', NEW g \in report', NEW p \in g.duplicates \cup {g.original}
               PROVE  p \in DOMAIN disk /\ disk[p] = disk[g.original]
    BY DEF ReportIsTrue, Exists
  <1>1. PICK b \in Blocks :
           /\ g = [original |-> base[b], duplicates |-> Verified(b, base[b], read)]
           /\ Verified(b, base[b], read) # {}
    OBVIOUS
  <1>2. base[b] \in DOMAIN read
    BY <1>1 DEF Verified
  <1>3. ASSUME p \in Verified(b, base[b], read)
        PROVE  p \in DOMAIN disk /\ disk[p] = disk[base[b]]
    BY <1>3 DEF Verified
  <1> QED BY <1>1, <1>2, <1>3

LEMMA ReportStaysTrue ==
    TypeOK /\ ReportIsTrue /\ [Next]_vars => ReportIsTrue'
  <1> SUFFICES ASSUME TypeOK, ReportIsTrue, [Next]_vars PROVE ReportIsTrue'
    OBVIOUS
  <1>1. CASE UNCHANGED vars
    BY <1>1 DEF vars, ReportIsTrue, Exists
  <1>2. CASE Scan
    BY <1>2 DEF Scan, Idle, ReportIsTrue, Exists
  <1>3. CASE UserEdit \/ EndMove \/ Crash
    BY <1>3 DEF UserEdit, EndMove, Crash, ReportIsTrue
  <1>4. CASE Find
    <2>1. pc' = "idle" /\ disk' = disk
      BY <1>4 DEF Find, Idle
    <2>2. CASE report' = {} /\ fresh' = FALSE
      BY <2>2 DEF ReportIsTrue
    <2>3. CASE \E missed \in SUBSET DOMAIN disk :
             \E base \in [Blocks -> DOMAIN cache], read \in Readings(missed) :
                   /\ report' = {[original |-> base[b], duplicates |-> Verified(b, base[b], read)] :
                                    b \in {x \in Blocks : Verified(x, base[x], read) # {}}}
                   /\ fresh' = (\A p \in DOMAIN read : read[p] = disk[p])
      <3>1. PICK missed \in SUBSET DOMAIN disk :
             \E base \in [Blocks -> DOMAIN cache], read \in Readings(missed) :
                   /\ report' = {[original |-> base[b], duplicates |-> Verified(b, base[b], read)] :
                                    b \in {x \in Blocks : Verified(x, base[x], read) # {}}}
                   /\ fresh' = (\A p \in DOMAIN read : read[p] = disk[p])
        BY <2>3
      <3>2. PICK base \in [Blocks -> DOMAIN cache], read \in Readings(missed) :
                   /\ report' = {[original |-> base[b], duplicates |-> Verified(b, base[b], read)] :
                                    b \in {x \in Blocks : Verified(x, base[x], read) # {}}}
                   /\ fresh' = (\A p \in DOMAIN read : read[p] = disk[p])
        BY <3>1
      <3>3. DOMAIN read \subseteq DOMAIN disk
        BY ReadingsAreContents, TypeParts
      <3> QED BY <2>1, <3>2, <3>3, SearchIsTrue
    <2> QED BY <1>4, <2>2, <2>3 DEF Find
  <1>5. CASE BeginMove
    BY <1>5 DEF BeginMove, ReportIsTrue, Exists
  <1>6. CASE MoveDuplicate
    <2>1. PICK g \in report : \E d \in g.duplicates :
            /\ MoveFile(d) \/ UNCHANGED disk
            /\ report' = Without(g, d)
      BY <1>6 DEF MoveDuplicate, MoveFails
    <2>2. PICK d \in g.duplicates : /\ MoveFile(d) \/ UNCHANGED disk
                                    /\ report' = Without(g, d)
      BY <2>1
    <2>3. DiskOK /\ ControlOK /\ IsReport
      BY TypeParts
    <2>4. UNCHANGED <<pc, start, fresh>>
      BY <1>6 DEF MoveDuplicate
    <2>5. ASSUME fresh, NEW h \in report', NEW p \in h.duplicates \cup {h.original}
          PROVE  \E k \in report : /\ h.original = k.original /\ p # d /\ k.original # d
                                   /\ p \in k.duplicates \cup {k.original}
      <3>1. PICK k \in report :
                 /\ h.original = k.original
                 /\ h.duplicates = IF k = g THEN k.duplicates \ {d} ELSE k.duplicates
        BY <2>2, <2>3, WithoutType
      <3>2. CASE k = g
        BY <2>2, <2>3, <2>5, <3>1, <3>2 DEF IsReport
      <3>3. CASE k # g
        <4>1. ({k.original} \cup k.duplicates) \cap ({g.original} \cup g.duplicates) = {}
          BY <2>3, <3>3 DEF IsReport
        <4> QED BY <2>2, <2>5, <3>1, <3>3, <4>1
      <3> QED BY <3>2, <3>3
    <2>6. ASSUME fresh, NEW p \in DOMAIN disk, p # d
          PROVE  p \in DOMAIN disk' /\ disk'[p] = disk[p]
      <3>1. CASE MoveFile(d)
        <4>1. PICK to : /\ d \in DOMAIN disk /\ to \notin DOMAIN disk
                        /\ disk' = RenameOn(disk, d, to)
          BY <2>3, <3>1, MovedTo
        <4> QED BY <2>6, <4>1 DEF RenameOn
      <3> QED BY <2>2, <3>1
    <2>7. ASSUME fresh, NEW h \in report', NEW p \in h.duplicates \cup {h.original}
          PROVE  /\ p \in DOMAIN disk' /\ disk'[p] = disk'[h.original]
                 /\ pc = "moving" => p \in DOMAIN start /\ start[p] = disk'[p]
      <3>1. PICK k \in report : /\ h.original = k.original /\ p # d /\ k.original # d
                                /\ p \in k.duplicates \cup {k.original}
        BY <2>5, <2>7
      <3>2. /\ p \in DOMAIN disk /\ disk[p] = disk[k.original]
            /\ k.original \in DOMAIN disk
            /\ pc = "moving" => p \in DOMAIN start /\ start[p] = disk[p]
        BY <2>7, <3>1 DEF ReportIsTrue, Exists
      <3>3. /\ p \in DOMAIN disk' /\ disk'[p] = disk[p]
            /\ disk'[k.original] = disk[k.original]
        BY <2>6, <2>7, <3>1, <3>2
      <3> QED BY <3>1, <3>2, <3>3
    <2> QED BY <2>4, <2>7 DEF ReportIsTrue, Exists
  <1> QED BY <1>1, <1>2, <1>3, <1>4, <1>5, <1>6 DEF Next
-----------------------------------------------------------------------------
LEMMA OnePlaceStep ==
    TypeOK /\ ReportIsTrue /\ OnePlaceIsKept /\ [Next]_vars => OnePlaceIsKept'
  <1> SUFFICES ASSUME TypeOK, ReportIsTrue, OnePlaceIsKept, [Next]_vars PROVE OnePlaceIsKept'
    OBVIOUS
  <1>1. CASE UNCHANGED vars
    BY <1>1 DEF vars, OnePlaceIsKept
  <1>2. CASE Scan \/ UserEdit \/ Find \/ EndMove \/ Crash
    <2>1. pc' = "idle"
      BY <1>2 DEF Scan, UserEdit, Find, EndMove, Crash, Idle
    <2> QED BY <2>1 DEF OnePlaceIsKept
  <1>3. CASE BeginMove
    BY <1>3 DEF BeginMove, OnePlaceIsKept
  <1>4. CASE MoveDuplicate
    <2>1. PICK g \in report : \E d \in g.duplicates : MoveFile(d) \/ UNCHANGED disk
      BY <1>4 DEF MoveDuplicate, MoveFails
    <2>2. PICK d \in g.duplicates : MoveFile(d) \/ UNCHANGED disk
      BY <2>1
    <2>3. pc = "moving" /\ UNCHANGED <<pc, fresh, start>>
      BY <1>4 DEF MoveDuplicate
    <2>4. CASE UNCHANGED disk
      BY <2>3, <2>4 DEF OnePlaceIsKept
    <2>5. CASE MoveFile(d)
      <3>1. PICK to : /\ d \in DOMAIN disk /\ to \notin DOMAIN disk
                      /\ disk' = RenameOn(disk, d, to)
        BY <2>5, TypeParts, MovedTo
      <3>2. ASSUME NEW q \in DOMAIN disk, q # d
            PROVE  q \in DOMAIN disk' /\ disk'[q] = disk[q]
        BY <3>1, <3>2 DEF RenameOn
      <3>3. ASSUME fresh, NEW p \in DOMAIN start
            PROVE  \E q \in DOMAIN disk' \cap DOMAIN start :
                      start[q] = start[p] /\ disk'[q] = start[p]
        <4>1. PICK q \in DOMAIN disk \cap DOMAIN start :
                      start[q] = start[p] /\ disk[q] = start[p]
          BY <2>3, <3>3 DEF OnePlaceIsKept
        <4>2. CASE q # d
          BY <3>2, <4>1, <4>2
        <4>3. CASE q = d
          <5> DEFINE o == g.original
          <5>1. /\ o \in DOMAIN disk /\ disk[d] = disk[o]
                /\ o \in DOMAIN start /\ start[o] = disk[o]
            BY <2>2, <2>3, <3>3 DEF ReportIsTrue, Exists
          <5>2. o # d
            BY <2>2, TypeParts DEF IsReport
          <5> HIDE DEF o
          <5>3. o \in DOMAIN disk' /\ disk'[o] = disk[o]
            BY <3>2, <5>1, <5>2
          <5> QED BY <4>1, <4>3, <5>1, <5>3
        <4> QED BY <4>2, <4>3
      <3> QED BY <2>3, <3>3 DEF OnePlaceIsKept
    <2> QED BY <2>2, <2>4, <2>5
  <1> QED BY <1>1, <1>2, <1>3, <1>4 DEF Next
-----------------------------------------------------------------------------
(* Over a cache that is true, and when everything can be read, a search    *)
(* puts every two equal files the cache knows into one group: they have    *)
(* one MD5, so they are in one block of at least two, and its base holds   *)
(* what they hold.                                                         *)
LEMMA SearchIsWhole ==
    ASSUME CacheOK, CacheIsTrue, NEW base, \A b \in Blocks : base[b] \in b,
           NEW read, DOMAIN read = DOMAIN disk, \A r \in DOMAIN disk : read[r] = disk[r],
           \A b \in Blocks : Verified(b, base[b], read) # {} =>
               [original |-> base[b], duplicates |-> Verified(b, base[b], read)] \in report',
           NEW p \in DOMAIN cache, NEW q \in DOMAIN cache, p # q, disk[p] = disk[q]
    PROVE  \E g \in report' : {p, q} \subseteq g.duplicates \cup {g.original}
  <1> DEFINE b == {r \in DOMAIN cache : cache[r] = cache[p]}
  <1>1. cache[p] = cache[q] /\ cache[p] \in Md5s
    BY DEF CacheIsTrue, CacheOK
  <1>2. b \in Blocks
    <2>1. IsFiniteSet(b)
      BY FS_Subset DEF CacheOK
    <2>2. p \in b /\ q \in b
      BY <1>1
    <2> HIDE DEF b
    <2>3. Cardinality({p, q}) = 2
      <3>1. Cardinality({p}) = 1 /\ IsFiniteSet({p})
        BY FS_Singleton
      <3>2. Cardinality({p} \cup {q}) = Cardinality({p}) + 1
        BY <3>1, FS_AddElement
      <3>3. {p} \cup {q} = {p, q}
        OBVIOUS
      <3> QED BY <3>1, <3>2, <3>3
    <2>4. {p, q} \subseteq b
      BY <2>2
    <2>5. Cardinality({p, q}) <= Cardinality(b)
      BY <2>1, <2>4, FS_Subset
    <2>6. Cardinality(b) \in Nat
      BY <2>1, FS_CardinalityType
    <2>7. Cardinality(b) > 1
      BY <2>3, <2>5, <2>6
    <2> QED BY <1>1, <2>7 DEF b, Blocks
  <1>3. base[b] \in b
    BY <1>2
  <1> DEFINE o == base[b]
  <1>4. o \in DOMAIN cache /\ cache[o] = cache[p]
    BY <1>3
  <1>5. \A r \in b : r \in DOMAIN disk /\ disk[r] = disk[o]
    BY <1>4 DEF CacheIsTrue, Exists
  <1>6. o \in DOMAIN disk
    BY <1>4 DEF CacheIsTrue, Exists
  <1>7. p \in b /\ q \in b
    BY <1>1
  <1> HIDE DEF b, o
  <1>8. \A r \in b \ {o} : r \in Verified(b, o, read)
    BY <1>5, <1>6 DEF Verified
  <1>9. Verified(b, o, read) # {}
    BY <1>7, <1>8
  <1>10. [original |-> o, duplicates |-> Verified(b, o, read)] \in report'
    BY <1>2, <1>9 DEF o
  <1>11. {p, q} \subseteq Verified(b, o, read) \cup {o}
    BY <1>7, <1>8
  <1> QED BY <1>10, <1>11

LEMMA ReportStaysWhole ==
    TypeOK /\ ReportIsTrue /\ ReportIsWhole /\ [Next]_vars => ReportIsWhole'
  <1> SUFFICES ASSUME TypeOK, ReportIsTrue, ReportIsWhole, [Next]_vars PROVE ReportIsWhole'
    OBVIOUS
  <1>1. CASE UNCHANGED vars
    BY <1>1 DEF vars, ReportIsWhole
  <1>2. CASE Scan \/ UserEdit \/ EndMove \/ Crash
    BY <1>2 DEF Scan, UserEdit, EndMove, Crash, ReportIsWhole
  <1>3. CASE Find
    <2>1. CASE report' = {} /\ fresh' = FALSE /\ whole' = FALSE
      BY <2>1 DEF ReportIsWhole
    <2>2. CASE \E missed \in SUBSET DOMAIN disk :
             \E base \in [Blocks -> DOMAIN cache], read \in Readings(missed) :
                   /\ \A b \in Blocks : base[b] \in b
                   /\ report' = {[original |-> base[b], duplicates |-> Verified(b, base[b], read)] :
                                    b \in {x \in Blocks : Verified(x, base[x], read) # {}}}
                   /\ whole' = (CacheIsTrue /\ missed = {})
      <3>1. PICK missed \in SUBSET DOMAIN disk :
             \E base \in [Blocks -> DOMAIN cache], read \in Readings(missed) :
                   /\ \A b \in Blocks : base[b] \in b
                   /\ report' = {[original |-> base[b], duplicates |-> Verified(b, base[b], read)] :
                                    b \in {x \in Blocks : Verified(x, base[x], read) # {}}}
                   /\ whole' = (CacheIsTrue /\ missed = {})
        BY <2>2
      <3>2. PICK base \in [Blocks -> DOMAIN cache], read \in Readings(missed) :
                   /\ \A b \in Blocks : base[b] \in b
                   /\ report' = {[original |-> base[b], duplicates |-> Verified(b, base[b], read)] :
                                    b \in {x \in Blocks : Verified(x, base[x], read) # {}}}
                   /\ whole' = (CacheIsTrue /\ missed = {})
        BY <3>1
      <3>3. CASE ~(CacheIsTrue /\ missed = {})
        BY <3>2, <3>3 DEF ReportIsWhole
      <3>4. CASE CacheIsTrue /\ missed = {}
        <4>1. /\ DOMAIN read = DOMAIN disk
              /\ \A r \in DOMAIN disk : read[r] = disk[r]
              /\ \A b \in Blocks : Verified(b, base[b], read) # {} =>
                    [original |-> base[b], duplicates |-> Verified(b, base[b], read)] \in report'
          BY <3>2, <3>4, ReadingsAreContents, TypeParts
        <4>2. ASSUME NEW p \in DOMAIN cache, NEW q \in DOMAIN cache, p # q, disk[p] = disk[q]
              PROVE  \E g \in report' : {p, q} \subseteq g.duplicates \cup {g.original}
          <5>1. CacheOK /\ \A b \in Blocks : base[b] \in b
            BY <3>2, TypeParts
          <5> QED BY <3>4, <4>1, <4>2, <5>1, SearchIsWhole
        <4>3. cache' = cache /\ disk' = disk
          BY <1>3 DEF Find
        <4> QED BY <4>2, <4>3 DEF ReportIsWhole
      <3> QED BY <3>3, <3>4
    <2> QED BY <1>3, <2>1, <2>2 DEF Find
  <1>4. CASE BeginMove
    <2>1. ~failed /\ pc = "idle" /\ UNCHANGED <<disk, cache, report, fresh, whole>>
      BY <1>4, TypeParts DEF BeginMove, Idle, AtRest
    <2> QED BY <2>1 DEF ReportIsWhole
  <1>5. CASE MoveDuplicate
    <2>1. PICK g \in report : \E d \in g.duplicates :
            /\ \/ MoveFile(d) /\ UNCHANGED <<failed, faults>>
               \/ MoveFails(d) /\ failed' = TRUE
            /\ report' = Without(g, d)
      BY <1>5 DEF MoveDuplicate
    <2>2. PICK d \in g.duplicates :
            /\ \/ MoveFile(d) /\ UNCHANGED <<failed, faults>>
               \/ MoveFails(d) /\ failed' = TRUE
            /\ report' = Without(g, d)
      BY <2>1
    <2>3. CASE failed' = TRUE
      BY <2>3 DEF ReportIsWhole
    <2>4. CASE MoveFile(d) /\ failed' = failed
      <3>1. pc = "moving" /\ UNCHANGED <<cache, pc, target, fresh, whole>>
        BY <1>5 DEF MoveDuplicate
      <3>2. PICK to \in PathRecord : /\ d \in DOMAIN disk /\ to \notin DOMAIN disk
                                     /\ to.dir = target /\ disk' = RenameOn(disk, d, to)
        BY <2>4, TypeParts, MovedTo
      <3>3. ASSUME NEW p \in DOMAIN disk', p.dir # target
            PROVE  p # d /\ p \in DOMAIN disk /\ disk'[p] = disk[p]
        <4>1. p # to
          BY <3>2, <3>3
        <4> QED BY <3>2, <3>3, <4>1 DEF RenameOn
      <3>4. ASSUME fresh, whole, ~failed,
                   NEW p \in DOMAIN cache \cap DOMAIN disk', NEW q \in DOMAIN cache \cap DOMAIN disk',
                   p # q, disk'[p] = disk'[q], p.dir # target, q.dir # target
            PROVE  \E h \in report' : {p, q} \subseteq h.duplicates \cup {h.original}
        <4>1. /\ p # d /\ p \in DOMAIN disk /\ disk'[p] = disk[p]
              /\ q # d /\ q \in DOMAIN disk /\ disk'[q] = disk[q]
          BY <3>3, <3>4
        <4>2. PICK k \in report : {p, q} \subseteq k.duplicates \cup {k.original}
          <5>1. /\ p \in DOMAIN cache \cap DOMAIN disk /\ q \in DOMAIN cache \cap DOMAIN disk
                /\ p # q /\ disk[p] = disk[q] /\ p.dir # target /\ q.dir # target
            BY <3>4, <4>1
          <5> QED BY <3>4, <5>1 DEF ReportIsWhole
        <4>3. CASE k # g
          BY <2>2, <4>2, <4>3, TypeParts, WithoutType
        <4>4. CASE k = g
          <5>1. g.duplicates # {d}
            BY <3>4, <4>1, <4>2, <4>4
          <5>2. PICK h \in report' : h.original = g.original /\ h.duplicates = g.duplicates \ {d}
            BY <2>2, <5>1, TypeParts, WithoutType
          <5> QED BY <4>1, <4>2, <4>4, <5>2
        <4> QED BY <4>3, <4>4
      <3>5. CASE ~(fresh /\ whole /\ ~failed)
        BY <2>4, <3>1, <3>5 DEF ReportIsWhole
      <3>6. CASE fresh /\ whole /\ ~failed
        BY <2>4, <3>1, <3>4, <3>6 DEF ReportIsWhole
      <3> QED BY <3>5, <3>6
    <2> QED BY <2>2, <2>3, <2>4
  <1> QED BY <1>1, <1>2, <1>3, <1>4, <1>5 DEF Next
-----------------------------------------------------------------------------
LEMMA InitInv == Init => DuplicatesInv
  BY DEF Init, DuplicatesInv, ReportIsTrue, ReportIsWhole, OnePlaceIsKept

LEMMA Inductive == Spec => [](TypeOK /\ DuplicatesInv)
  <1>1. Init => TypeOK /\ DuplicatesInv
    BY InitType, InitInv
  <1>2. TypeOK /\ DuplicatesInv /\ [Next]_vars => (TypeOK /\ DuplicatesInv)'
    BY StepType, ReportStaysTrue, ReportStaysWhole, OnePlaceStep DEF DuplicatesInv
  <1> QED BY <1>1, <1>2, PTL DEF Spec

(* A move from a report that is true never takes the last copy of a        *)
(* content from its place, whatever fails on the way.                      *)
THEOREM OnePlaceStays == Spec => []OnePlaceIsKept
  <1>1. DuplicatesInv => OnePlaceIsKept
    BY DEF DuplicatesInv
  <1> QED BY <1>1, Inductive, PTL

(* A search over a true cache and a move in which nothing fails leave one  *)
(* copy of every content outside the target directory.                     *)
THEOREM OneCopyRemains == Spec => []LibraryHasOneCopy
  <1>1. DuplicatesInv => LibraryHasOneCopy
    BY DEF DuplicatesInv, ReportIsWhole, LibraryHasOneCopy
  <1> QED BY <1>1, Inductive, PTL
-----------------------------------------------------------------------------
LEMMA InitIsStoreInit == Init => Store!StoreInit
  BY InitType DEF Store!StoreInit, Store!FilesOn, FilesOn, TypeOK, Init

(* A step of the move loop moves one file onto a free path, or none.       *)
LEMMA MoveIsStoreMove ==
    TypeOK /\ MoveDuplicate => Store!MoveFile \/ UNCHANGED Store!storeVars
  <1> SUFFICES ASSUME TypeOK, MoveDuplicate PROVE Store!MoveFile \/ UNCHANGED Store!storeVars
    OBVIOUS
  <1>1. PICK d : MoveFile(d) \/ UNCHANGED disk
    BY DEF MoveDuplicate, MoveFails
  <1>2. pc = "moving" /\ pc' = "moving"
    BY DEF MoveDuplicate
  <1>3. CASE UNCHANGED disk
    BY <1>2, <1>3 DEF Store!storeVars
  <1>4. CASE MoveFile(d)
    <2>1. PICK to : d \in DOMAIN disk /\ to \notin DOMAIN disk /\ disk' = RenameOn(disk, d, to)
      BY <1>4, TypeParts, MovedTo
    <2>2. to \in DOMAIN disk' \ DOMAIN disk
      BY <2>1 DEF RenameOn
    <2> QED BY <1>2, <2>1, <2>2 DEF Store!MoveFile, Store!RenameOn, RenameOn
  <1> QED BY <1>1, <1>3, <1>4

LEMMA StepIsStoreStep ==
    TypeOK /\ TypeOK' /\ [Next]_vars => [Store!StoreNext]_(Store!storeVars)
  <1> SUFFICES ASSUME TypeOK, TypeOK', [Next]_vars
               PROVE  Store!StoreNext \/ UNCHANGED Store!storeVars
    OBVIOUS
  <1>1. CASE UNCHANGED vars
    BY <1>1 DEF vars, Store!storeVars
  <1>2. CASE Scan \/ Find
    BY <1>2 DEF Scan, Find, Store!storeVars
  <1>3. CASE UserEdit
    <2>1. pc = "idle" /\ pc' = "idle"
      BY <1>3 DEF UserEdit, Idle
    <2>2. Store!FilesOn(disk') \subseteq Contents
      BY DEF Store!FilesOn, FilesOn, TypeOK
    <2> QED BY <2>1, <2>2 DEF Store!UserEdit, Store!StoreNext
  <1>4. CASE BeginMove \/ EndMove
    BY <1>4 DEF BeginMove, EndMove, Idle, Store!BeginOrEnd, Store!StoreNext
  <1>5. CASE Crash
    BY <1>5 DEF Crash, TypeOK, Store!BeginOrEnd, Store!StoreNext, Store!storeVars
  <1>6. CASE MoveDuplicate
    BY <1>6, MoveIsStoreMove DEF Store!StoreNext
  <1> QED BY <1>1, <1>2, <1>3, <1>4, <1>5, <1>6 DEF Next

(* The duplicate mover implements the file store: it overwrites, drops and *)
(* doubles no file, however old its report, whatever fails or crashes.     *)
THEOREM DuplicatesImplementFileStore == Spec => ImplementsFileStore
  <1>1. Spec => []TypeOK
    BY TypeCorrect
  <1>2. Spec => Store!StoreSpec
    BY <1>1, InitIsStoreInit, StepIsStoreStep, PTL DEF Spec, Store!StoreSpec
  <1> QED BY <1>2 DEF ImplementsFileStore
=============================================================================
