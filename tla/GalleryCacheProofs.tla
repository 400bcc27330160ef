-------------------------- MODULE GalleryCacheProofs --------------------------
(***************************************************************************)
(* Proofs about the gallery cache, for all environments, files and         *)
(* profiles and without a bound on operations or crashes.                  *)
(***************************************************************************)
EXTENDS GalleryCache, FiniteSetTheorems, TLAPS

LEMMA EmptyIsEmpty ==
    Empty \in [Files -> Marks] /\ Entries(Empty) = {} /\ \A q \in Profiles : Of(Empty, q)
  BY CacheAssumption DEF Empty, Marks, Entries, Of

LEMMA CountIsNat ==
    ASSUME NEW c \in [Files -> Marks] PROVE Cardinality(Entries(c)) \in Nat
  <1>1. IsFiniteSet(Entries(c))
    BY CacheAssumption, FS_Subset DEF Entries
  <1>. QED BY <1>1, FS_CardinalityType

(* The actions one by one. *)
LEMMA NextCases ==
    ASSUME [Next]_vars
    PROVE  \/ Begin \/ EnsureCacheReady \/ Decide \/ RemoveCache \/ RemoveProfile
           \/ ScanFile \/ ScanFails \/ PreviewFile \/ PreviewFails \/ Visits
           \/ OpenForSave \/ WriteCache \/ OpenProfile \/ WriteProfile
           \/ Exit \/ UNCHANGED vars
  BY DEF Next, Scan, Preview, Save
-----------------------------------------------------------------------------
(* Kinds.                                                                  *)

Kinds == DiskOK /\ MemoryOK /\ RequestOK

LEMMA KindsInit == Init => Kinds
  BY EmptyIsEmpty DEF Init, Kinds, DiskOK, MemoryOK, RequestOK, Steps, Results

LEMMA KindsStep == Kinds /\ [Next]_vars => Kinds'
  <1>. SUFFICES ASSUME Kinds, [Next]_vars PROVE Kinds'
    OBVIOUS
  <1>. USE CacheAssumption, EmptyIsEmpty
       DEF Kinds, DiskOK, MemoryOK, RequestOK, Steps, Results, memory, request, disk
  <1>1. CASE Begin
    BY <1>1 DEF Begin
  <1>2. CASE EnsureCacheReady
    BY <1>2 DEF EnsureCacheReady, Load, Ready, Release, Goto, Return
  <1>3. CASE Decide
    BY <1>3 DEF Decide, Goto, Return
  <1>4. CASE RemoveCache
    BY <1>4 DEF RemoveCache, Release, Goto
  <1>5. CASE RemoveProfile
    BY <1>5 DEF RemoveProfile, Goto
  <1>6. CASE ScanFile
    BY <1>6 DEF ScanFile, Visited, Marks
  <1>7. CASE ScanFails
    BY <1>7 DEF ScanFails, Return
  <1>8. CASE PreviewFile
    BY <1>8 DEF PreviewFile, Marks
  <1>9. CASE PreviewFails
    BY <1>9 DEF PreviewFails, Return
  <1>10. CASE Visits
    BY <1>10 DEF Visits, Goto, Return
  <1>11. CASE OpenForSave
    BY <1>11 DEF OpenForSave, Goto, Return
  <1>12. CASE WriteCache
    <2>1. /\ pc = "write" /\ UNCHANGED <<profile, counted, memory, request, todo, dirty>>
          /\ \/ /\ file' = [file EXCEPT ![env] = "whole"]
                /\ saved' = [saved EXCEPT ![env] = mem]
             \/ UNCHANGED <<file, saved>>
          /\ \/ pc' = "idle" /\ result' \in {"ok", "cache_error"}
             \/ pc' = "sign" /\ UNCHANGED result
      BY <1>12 DEF WriteCache, Goto, Return
    <2>2. DiskOK'
      <3>1. file' \in [Envs -> {"absent", "whole", "torn"}]
        BY <2>1
      <3>2. saved' \in [Envs -> [Files -> Marks]]
        BY <2>1
      <3>3. UNCHANGED <<profile, counted>>
        BY <2>1
      <3>. QED BY <3>1, <3>2, <3>3
    <2>3. MemoryOK'
      <3>1. UNCHANGED <<open, mem, env>> /\ pc' \in {"idle", "sign"} /\ open = env
        BY <2>1
      <3>. QED BY <3>1
    <2>4. RequestOK'
      BY <2>1
    <2>. QED BY <2>2, <2>3, <2>4
  <1>13. CASE OpenProfile
    BY <1>13 DEF OpenProfile, Goto, Return
  <1>14. CASE WriteProfile
    <2>1. Cardinality(Entries(mem)) \in Nat
      BY CountIsNat
    <2>2. /\ pc = "writeProfile" /\ UNCHANGED <<file, saved, memory, request, todo, dirty>>
          /\ \/ /\ profile' = [profile EXCEPT ![env] = wanted]
                /\ counted' = [counted EXCEPT ![env] = Cardinality(Entries(mem))]
             \/ UNCHANGED <<profile, counted>>
          /\ pc' = "idle" /\ result' \in {"ok", "io_error"}
      BY <1>14 DEF WriteProfile, Return
    <2>3. DiskOK'
      <3>1. profile' \in [Envs -> Profiles \cup {"absent", "torn"}]
        BY <2>2
      <3>2. counted' \in [Envs -> Nat]
        BY <2>1, <2>2
      <3>3. UNCHANGED <<file, saved>>
        BY <2>2
      <3>. QED BY <3>1, <3>2, <3>3
    <2>4. MemoryOK'
      <3>1. UNCHANGED <<open, mem, env>> /\ pc' = "idle"
        BY <2>2
      <3>. QED BY <3>1
    <2>5. RequestOK'
      BY <2>2
    <2>. QED BY <2>3, <2>4, <2>5
  <1>15. CASE Exit
    BY <1>15 DEF Exit, Release
  <1>16. CASE UNCHANGED vars
    BY <1>16 DEF vars
  <1>. QED BY <1>1, <1>2, <1>3, <1>4, <1>5, <1>6, <1>7, <1>8, <1>9, <1>10, <1>11, <1>12, <1>13, <1>14, <1>15, <1>16, NextCases

DirtyOK == dirty \in BOOLEAN

LEMMA DirtyStep == DirtyOK /\ [Next]_vars => DirtyOK'
  BY Zenon, NextCases
     DEF DirtyOK, vars, Begin, EnsureCacheReady, Decide, RemoveCache, RemoveProfile,
         ScanFile, ScanFails, PreviewFile, PreviewFails, Visits, OpenForSave,
         WriteCache, OpenProfile, WriteProfile, Exit

(* The variables of the cache are of their kinds, for every environment,   *)
(* set of files and profile; a released cache holds nothing.               *)
THEOREM TypeCorrect == Spec => []TypeOK
  <1>1. Init => DirtyOK
    BY Zenon DEF Init, DirtyOK
  <1>2. Kinds /\ DirtyOK <=> TypeOK
    BY DEF Kinds, TypeOK, DirtyOK
  <1>. QED BY <1>1, <1>2, KindsInit, KindsStep, DirtyStep, PTL DEF Spec
-----------------------------------------------------------------------------
(* The invariant.                                                          *)

IndInv == Kinds /\ CacheInv /\ ProfileVouchesForCache /\ SuccessIsSaved

LEMMA MarksApart == \A q \in Profiles : q \notin {"none", "bare", "absent", "torn"}
  BY CacheAssumption

LEMMA IndInvInit == Init => IndInv
  BY KindsInit, EmptyIsEmpty, CacheAssumption, MarksApart
     DEF Init, IndInv, CacheInv, AbsentIsEmpty, LoadedIsWhole, RebuildIsClean, ScanIsPure,
         ProfileVouchesForCache, SuccessIsSaved

(* Of a cache file that is absent nothing is remembered. *)
LEMMA AbsentStep == IndInv /\ [Next]_vars => AbsentIsEmpty'
  <1>. SUFFICES ASSUME IndInv, [Next]_vars PROVE AbsentIsEmpty'
    OBVIOUS
  <1>. USE DEF IndInv, Kinds, DiskOK, RequestOK, CacheInv, AbsentIsEmpty
  <1>1. CASE RemoveCache
    BY <1>1 DEF RemoveCache
  <1>2. CASE OpenForSave
    BY <1>2 DEF OpenForSave
  <1>3. CASE WriteCache
    BY <1>3 DEF WriteCache
  <1>4. CASE UNCHANGED <<file, saved>>
    BY <1>4
  <1>. QED
    BY <1>1, <1>2, <1>3, <1>4, NextCases
       DEF disk, vars, Begin, EnsureCacheReady, Decide, RemoveProfile, ScanFile, ScanFails,
           PreviewFile, PreviewFails, Visits, OpenProfile, WriteProfile, Exit

(* A loaded cache has every entry of its file: it is loaded whole, and a   *)
(* visit drops no entry.                                                   *)
LEMMA LoadedStep == IndInv /\ [Next]_vars => LoadedIsWhole'
  <1>. SUFFICES ASSUME IndInv, [Next]_vars PROVE LoadedIsWhole'
    OBVIOUS
  <1>. USE MarksApart DEF IndInv, Kinds, DiskOK, MemoryOK, RequestOK, CacheInv, LoadedIsWhole
  <1>1. CASE EnsureCacheReady
    BY <1>1, EmptyIsEmpty, CacheAssumption
       DEF EnsureCacheReady, Load, Release, AbsentIsEmpty, memory, disk
  <1>2. CASE RemoveCache
    BY <1>2, CacheAssumption DEF RemoveCache, Release
  <1>3. CASE ScanFile
    BY <1>3 DEF ScanFile, Visited, Entries, disk
  <1>4. CASE PreviewFile
    BY <1>4 DEF PreviewFile, Entries, disk
  <1>5. CASE WriteCache
    BY <1>5 DEF WriteCache, memory
  <1>6. CASE Exit
    BY <1>6, CacheAssumption DEF Exit, Release
  <1>7. CASE UNCHANGED <<open, mem, saved>>
    BY <1>7 DEF Entries
  <1>. QED
    BY <1>1, <1>2, <1>3, <1>4, <1>5, <1>6, <1>7, NextCases
       DEF disk, memory, vars, Begin, Decide, RemoveProfile, ScanFails, PreviewFails,
           Visits, OpenForSave, OpenProfile, WriteProfile

(* A rebuild loads its cache when nothing is left of the old one. *)
LEMMA RebuildStep == IndInv /\ [Next]_vars => RebuildIsClean'
  <1>. SUFFICES ASSUME IndInv, [Next]_vars PROVE RebuildIsClean'
    OBVIOUS
  <1>. USE DEF IndInv, Kinds, DiskOK, RequestOK, CacheInv, RebuildIsClean
  <1>1. CASE EnsureCacheReady
    BY <1>1 DEF EnsureCacheReady, Ready, Goto, Return, request
  <1>2. CASE Decide
    BY <1>2 DEF Decide, Goto, Return, request
  <1>3. CASE RemoveCache
    BY <1>3 DEF RemoveCache, Release, Goto, request
  <1>4. CASE RemoveProfile
    BY <1>4 DEF RemoveProfile, Goto, memory, request
  <1>5. CASE WriteCache
    BY <1>5 DEF WriteCache, Goto, Return, request
  <1>6. CASE OpenProfile
    BY <1>6 DEF OpenProfile, Goto, Return, request
  <1>7. CASE pc' \in {"idle", "open"}
    BY <1>7
  <1>8. CASE /\ pc \in {"visit", "save"} /\ pc' \in {"visit", "save", "write"}
             /\ UNCHANGED op
    BY <1>8
  <1>9. CASE UNCHANGED vars
    BY <1>9 DEF vars, disk, memory, request
  <1>. QED
    BY <1>1, <1>2, <1>3, <1>4, <1>5, <1>6, <1>7, <1>8, <1>9, NextCases
       DEF Goto, Return, request, Begin, ScanFile, ScanFails, PreviewFile, PreviewFails,
           Visits, OpenForSave, WriteProfile, Exit

(* A scan works on a cache of its own profile only: the one it found and   *)
(* whose profile matched, or an empty one.                                 *)
LEMMA PureStep == IndInv /\ [Next]_vars => ScanIsPure'
  <1>. SUFFICES ASSUME IndInv, [Next]_vars PROVE ScanIsPure'
    OBVIOUS
  <1>. USE MarksApart DEF IndInv, Kinds, DiskOK, MemoryOK, RequestOK, CacheInv, ScanIsPure
  <1>1. CASE EnsureCacheReady
    BY <1>1, EmptyIsEmpty, CacheAssumption
       DEF EnsureCacheReady, Load, Ready, Goto, Return, RebuildIsClean, disk, request
  <1>2. CASE Decide
    BY <1>2, CacheAssumption
       DEF Decide, Matches, Goto, Return, Steps, ProfileVouchesForCache, disk, memory, request
  <1>3. CASE ScanFile
    BY <1>3 DEF ScanFile, Visited, Of, disk, request
  <1>4. CASE PreviewFile
    BY <1>4 DEF PreviewFile, request
  <1>5. CASE Visits
    BY <1>5 DEF Visits, Goto, Return, disk, memory, request
  <1>6. CASE OpenForSave
    BY <1>6 DEF OpenForSave, Goto, Return, memory, request
  <1>7. CASE WriteCache
    BY <1>7 DEF WriteCache, Goto, Return, memory, request
  <1>8. CASE OpenProfile
    BY <1>8 DEF OpenProfile, Goto, Return, memory, request
  <1>9. CASE pc' \in {"idle", "open", "rebuild", "unprofile", "reopen"}
    BY <1>9
  <1>10. CASE UNCHANGED vars
    BY <1>10 DEF Of, vars, disk, memory, request
  <1>. QED
    BY <1>1, <1>2, <1>3, <1>4, <1>5, <1>6, <1>7, <1>8, <1>9, <1>10, NextCases
       DEF Goto, Return, Begin, RemoveCache, RemoveProfile, ScanFails, PreviewFails,
           WriteProfile, Exit

(* A profile vouches for the cache beside it and for the copy in memory. *)
LEMMA VouchStep == IndInv /\ [Next]_vars => ProfileVouchesForCache'
  <1>. SUFFICES ASSUME IndInv, [Next]_vars PROVE ProfileVouchesForCache'
    OBVIOUS
  <1>. USE MarksApart, CacheAssumption
       DEF IndInv, Kinds, DiskOK, MemoryOK, RequestOK, CacheInv, ProfileVouchesForCache, Of
  <1>1. CASE EnsureCacheReady
    BY <1>1, EmptyIsEmpty DEF EnsureCacheReady, Load, Release, memory, disk
  <1>2. CASE RemoveCache
    BY <1>2 DEF RemoveCache, Release
  <1>3. CASE RemoveProfile
    BY <1>3 DEF RemoveProfile, memory
  <1>4. CASE ScanFile
    BY <1>4 DEF ScanFile, Visited, ScanIsPure, Steps, disk
  <1>5. CASE PreviewFile
    BY <1>5 DEF PreviewFile, disk
  <1>6. CASE OpenForSave
    BY <1>6 DEF OpenForSave, memory
  <1>7. CASE WriteCache
    BY <1>7 DEF WriteCache, Steps, memory
  <1>8. CASE OpenProfile
    BY <1>8 DEF OpenProfile, memory
  <1>9. CASE WriteProfile
    BY <1>9 DEF WriteProfile, ScanIsPure, RebuildIsClean, Steps, memory
  <1>10. CASE Exit
    BY <1>10 DEF Exit, Release, disk
  <1>11. CASE UNCHANGED <<disk, memory>>
    BY <1>11 DEF disk, memory
  <1>. QED
    BY <1>1, <1>2, <1>3, <1>4, <1>5, <1>6, <1>7, <1>8, <1>9, <1>10, <1>11, NextCases
       DEF vars, Begin, Decide, ScanFails, PreviewFails, Visits

(* Only the writing of the profile ends a scan with success. *)
LEMMA SuccessStep == IndInv /\ [Next]_vars => SuccessIsSaved'
  <1>. SUFFICES ASSUME IndInv, [Next]_vars PROVE SuccessIsSaved'
    OBVIOUS
  <1>. USE DEF IndInv, SuccessIsSaved
  <1>1. CASE WriteProfile
    <2>1. pc = "writeProfile" /\ op = "scan" /\ open = env /\ todo = {}
      BY <1>1 DEF WriteProfile, CacheInv, RebuildIsClean, ScanIsPure, Kinds, MemoryOK, Steps
    <2>2. /\ file[env] = "whole" /\ saved[env] = mem
          /\ \A f \in Under[wanted] : mem[f] = wanted
      BY <2>1 DEF CacheInv, ScanIsPure
    <2>. QED BY <1>1, <2>1, <2>2
              DEF WriteProfile, Return, Kinds, DiskOK, RequestOK, memory, request
  <1>2. CASE pc' # "idle" \/ op' # "scan" \/ result' # "ok"
    BY <1>2
  <1>3. CASE UNCHANGED vars
    BY <1>3 DEF Entries, vars, disk, memory, request
  <1>4. CASE EnsureCacheReady
    BY <1>2, <1>4 DEF EnsureCacheReady, Ready, Goto, Return, request
  <1>5. CASE WriteCache
    BY <1>2, <1>5 DEF WriteCache, Goto, Return, request
  <1>6. CASE Visits
    BY <1>2, <1>6 DEF Visits, Goto, Return, request
  <1>. QED
    BY <1>1, <1>2, <1>3, <1>4, <1>5, <1>6, NextCases
       DEF Goto, Return, Begin, Decide, RemoveCache, RemoveProfile, ScanFile, ScanFails,
           PreviewFile, PreviewFails, OpenForSave, OpenProfile, Exit

LEMMA Invariance == Spec => []IndInv
  <1>1. IndInv /\ [Next]_vars => IndInv'
    BY KindsStep, AbsentStep, LoadedStep, RebuildStep, PureStep, VouchStep, SuccessStep
       DEF IndInv, CacheInv
  <1>. QED BY <1>1, IndInvInit, PTL DEF Spec
-----------------------------------------------------------------------------
(* The theorems.                                                           *)

(* A scan that finds its own profile may reuse every entry of the cache,   *)
(* whatever was cancelled, failed, crashed or previewed before it: none    *)
(* comes from a scan with other parameters.                                *)
THEOREM ReuseIsSound == Spec => []ProfileVouchesForCache
  BY Invariance, PTL DEF IndInv

(* What a scan returned OK for is on the disk: complete entries of its     *)
(* files, a profile that says how they were made, and their number.        *)
THEOREM SuccessIsDurable == Spec => []SuccessIsSaved
  BY Invariance, PTL DEF IndInv

(* No save loses an entry that the cache file had.                         *)
THEOREM NoEntryIsLost == Spec => SavesKeepEntries
  <1>1. ASSUME IndInv, [Next]_vars, NEW e \in Envs, pc = "write", file'[e] = "whole"
        PROVE  Entries(saved[e]) \subseteq Entries(saved'[e])
    <2>1. open = env /\ Entries(saved[env]) \subseteq Entries(mem)
      BY <1>1 DEF IndInv, Kinds, MemoryOK, RequestOK, Steps, CacheInv, LoadedIsWhole
    <2>2. saved' = saved \/ saved' = [saved EXCEPT ![env] = mem]
      BY <1>1, NextCases
         DEF vars, disk, Begin, EnsureCacheReady, Decide, RemoveCache, RemoveProfile,
             ScanFile, ScanFails, PreviewFile, PreviewFails, Visits, OpenForSave,
             WriteCache, OpenProfile, WriteProfile, Exit
    <2>3. saved'[e] = saved[e] \/ (e = env /\ saved'[e] = mem)
      BY <1>1, <2>2 DEF IndInv, Kinds, DiskOK
    <2>. QED BY <2>1, <2>3 DEF Entries
  <1>2. IndInv /\ [Next]_vars =>
          [\A e \in Envs :
              pc = "write" /\ file'[e] = "whole" =>
                  Entries(saved[e]) \subseteq Entries(saved'[e])]_vars
    BY <1>1
  <1>. QED BY <1>2, Invariance, PTL DEF Spec, SavesKeepEntries
=============================================================================
