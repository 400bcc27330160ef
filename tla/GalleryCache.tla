---------------------------- MODULE GalleryCache ----------------------------
(***************************************************************************)
(* The life of the gallery cache: the copy in memory, the cache file of    *)
(* each environment directory, and the profile file beside it that tells   *)
(* with which parameters the cache was scanned.  A scan reuses the cache   *)
(* when the profile is that of its request and rebuilds it otherwise; a    *)
(* rename preview refreshes entries and saves the cache without a word to  *)
(* the profile; every other operation only loads the cache.                *)
(*                                                                         *)
(* Sources: src/app/app_scan.c, app_errors.c, app_cache_profile.c,         *)
(* app_runtime_state.c, src/core/gallery_cache_io.c, and the previews of   *)
(* src/systems/renamer_preview.c.                                          *)
(*                                                                         *)
(* Files are written by fopen "wb" and fwrite, so each save has a step at  *)
(* which the file is torn; the process may end at any step.  How threads   *)
(* fill the cache is the business of ScanPipeline: here the visit of a     *)
(* file is one step.  One process at a time uses an environment, a cache   *)
(* file that is there can be opened for reading, and a write that fails    *)
(* fails in fwrite (CacheSave does not look at what fclose answers).       *)
(***************************************************************************)
EXTENDS Integers, FiniteSets

CONSTANTS Envs,       \* environment directories
          Files,      \* media files
          Profiles,   \* what a request asks for: source, options, models
          Under,      \* Under[q]: the files of q's source directory
          MaxOps,     \* bound: operations begun
          MaxCrashes  \* bound: processes that end

ASSUME CacheAssumption ==
    /\ Under \in [Profiles -> SUBSET Files]
    /\ IsFiniteSet(Files)
    /\ Profiles \cap {"none", "bare", "absent", "torn"} = {}
    /\ "none" \notin Envs
    /\ MaxOps \in Nat /\ MaxCrashes \in Nat

VARIABLES \* On the disk, of each environment:
          file,       \* the cache file: "absent", "torn" or "whole"
          saved,      \* its entries, as they were last written whole
          profile,    \* the profile file: "absent", "torn", or what it says
          counted,    \* its cacheEntryCount
          \* In memory:
          open,       \* the environment whose cache is loaded, or "none"
          mem,        \* the entries loaded
          \* The operation under way:
          op, env, wanted, todo, dirty, pc, result,
          ops, crashes

disk    == <<file, saved, profile, counted>>
memory  == <<open, mem>>
request == <<op, env, wanted, ops, crashes>>
vars    == <<disk, memory, request, todo, dirty, pc, result>>

(* The entry of a file: none; bare (a preview's, without hash and          *)
(* inference); or complete, with what a scan of some profile found.        *)
Marks == Profiles \cup {"none", "bare"}
Empty == [f \in Files |-> "none"]

Init ==
    /\ file = [e \in Envs |-> "absent"] /\ saved = [e \in Envs |-> Empty]
    /\ profile = [e \in Envs |-> "absent"] /\ counted = [e \in Envs |-> 0]
    /\ open = "none" /\ mem = Empty
    /\ op = "none" /\ env \in Envs /\ wanted \in Profiles
    /\ todo = {} /\ dirty = FALSE /\ pc = "idle" /\ result = "none"
    /\ ops = 0 /\ crashes = 0

Return(r) == pc' = "idle" /\ result' = r
Goto(l)   == pc' = l /\ UNCHANGED result

Release == open' = "none" /\ mem' = Empty
-----------------------------------------------------------------------------
(* The start of an operation, and AppEnsureCacheReady.                     *)

Begin ==
    /\ pc = "idle" /\ ops < MaxOps
    /\ ops' = ops + 1 /\ env' \in Envs
    /\ pc' = "open" /\ result' = "none" /\ dirty' = FALSE
    /\ \/ op' = "scan" /\ wanted' \in Profiles /\ todo' = {}
       \/ op' = "preview" /\ todo' \in SUBSET Files /\ UNCHANGED wanted
       \/ op' = "read" /\ todo' = {} /\ UNCHANGED wanted
    /\ UNCHANGED <<disk, memory, crashes>>

(* Mutant: a preview starts from an empty cache. *)
PreviewLoadsNothing ==
    /\ file[env] # "torn"
    /\ open' = env
    /\ mem' = IF file[env] = "whole" /\ op # "preview" THEN saved[env] ELSE Empty

(* CacheInit: no file makes an empty cache; a file that cannot be decoded  *)
(* is an error.                                                            *)
Load ==
    /\ file[env] # "torn"
    /\ open' = env
    /\ mem' = IF file[env] = "whole" THEN saved[env] ELSE Empty

Ready ==
    \/ pc = "reopen" /\ todo' = Under[wanted] /\ Goto("visit")
    \/ pc = "open" /\ op = "scan" /\ Goto("decide") /\ UNCHANGED todo
    \/ pc = "open" /\ op = "preview" /\ Goto("visit") /\ UNCHANGED todo
    \/ pc = "open" /\ op = "read" /\ Return("ok") /\ UNCHANGED todo

EnsureCacheReady ==
    /\ pc \in {"open", "reopen"}
    /\ \/ open = env /\ UNCHANGED memory /\ Ready
       \/ open # env /\ Load /\ Ready
       \/ \* the cache is torn, or its directory cannot be made
          /\ open # env /\ Release
          /\ UNCHANGED todo
          /\ Return(IF file[env] = "torn" THEN "cache_error" ELSE "io_error")
    /\ UNCHANGED <<disk, request, dirty>>
-----------------------------------------------------------------------------
(* A scan.                                                                 *)

(* Mutant: profiles are compared by the source directory alone. *)
MatchesSource(e) == profile[e] \in Profiles /\ Under[profile[e]] = Under[wanted]

Matches(e) == profile[e] = wanted

(* AppEvaluateScanProfileDecision; before it, the models may be missing or *)
(* unreadable.                                                             *)
Decide ==
    /\ pc = "decide"
    /\ \/ Matches(env) /\ todo' = Under[wanted] /\ Goto("visit")
       \/ ~Matches(env) /\ Goto("rebuild") /\ UNCHANGED todo
       \/ Return("models") /\ UNCHANGED todo
    /\ UNCHANGED <<disk, memory, request, dirty>>

(* AppRebuildCacheForProfileMismatch: the cache is released and removed,   *)
(* then the profile.  (The program does not look at what remove() answers; *)
(* here a file that is there can be removed.)                              *)
RemoveCache ==
    /\ pc = "rebuild"
    /\ Release
    /\ file' = [file EXCEPT ![env] = "absent"]
    /\ saved' = [saved EXCEPT ![env] = Empty]
    /\ Goto("unprofile")
    /\ UNCHANGED <<profile, counted, request, todo, dirty>>

RemoveProfile ==
    /\ pc = "unprofile"
    /\ profile' = [profile EXCEPT ![env] = "absent"]
    /\ Goto("reopen")
    /\ UNCHANGED <<file, saved, counted, memory, request, todo, dirty>>

(* Mutant: a rescan adds to an entry without a mark. *)
KeepsBare(mark) == IF mark = "none" THEN {wanted} ELSE {mark, wanted}

(* The entry of a file after the scan has visited it: an entry that is up  *)
(* to date and complete is kept, any other is made anew.                   *)
Visited(mark) == IF mark \in Profiles THEN {mark, wanted} ELSE {wanted}

ScanFile ==
    /\ op = "scan" /\ pc = "visit"
    /\ \E f \in todo :
          /\ todo' = todo \ {f}
          /\ \E mark \in Visited(mem[f]) : mem' = [mem EXCEPT ![f] = mark]
    /\ UNCHANGED <<disk, open, request, dirty, pc, result>>

(* The scan is cancelled or fails: nothing is saved, and the entries       *)
(* visited so far stay in memory.                                          *)
ScanFails ==
    /\ op = "scan" /\ pc = "visit"
    /\ Return("failed")
    /\ UNCHANGED <<disk, memory, request, todo, dirty>>
-----------------------------------------------------------------------------
(* A preview: RenamerPreviewLoadMetadataForPath of each file.              *)

PreviewFile ==
    /\ op = "preview" /\ pc = "visit"
    /\ \E f \in todo :
          /\ todo' = todo \ {f}
          /\ \/ mem[f] # "none" /\ UNCHANGED <<mem, dirty>>
             \/ mem' = [mem EXCEPT ![f] = "bare"] /\ dirty' = TRUE
    /\ UNCHANGED <<disk, open, request, pc, result>>

PreviewFails ==
    /\ op = "preview" /\ pc = "visit"
    /\ Return("failed")
    /\ UNCHANGED <<disk, memory, request, todo, dirty>>

Visits ==
    /\ pc = "visit" /\ todo = {}
    /\ IF op = "preview" /\ ~dirty THEN Return("ok") ELSE Goto("save")
    /\ UNCHANGED <<disk, memory, request, todo, dirty>>
-----------------------------------------------------------------------------
(* CacheSave and AppSaveCacheProfile.                                      *)

(* The encoding fails or the file cannot be opened; or it is opened, which *)
(* empties it.                                                             *)
OpenForSave ==
    /\ pc = "save"
    /\ \/ Return("cache_error") /\ UNCHANGED file
       \/ Goto("write") /\ file' = [file EXCEPT ![env] = "torn"]
    /\ UNCHANGED <<saved, profile, counted, memory, request, todo, dirty>>

WriteCache ==
    /\ pc = "write"
    /\ \/ /\ file' = [file EXCEPT ![env] = "whole"]
          /\ saved' = [saved EXCEPT ![env] = mem]
          /\ IF op = "preview" THEN Return("ok") ELSE Goto("sign")
       \/ Return("cache_error") /\ UNCHANGED <<file, saved>>
    /\ UNCHANGED <<profile, counted, memory, request, todo, dirty>>

OpenProfile ==
    /\ pc = "sign"
    /\ \/ Return("io_error") /\ UNCHANGED profile
       \/ Goto("writeProfile") /\ profile' = [profile EXCEPT ![env] = "torn"]
    /\ UNCHANGED <<file, saved, counted, memory, request, todo, dirty>>

Entries(c) == {f \in Files : c[f] # "none"}

WriteProfile ==
    /\ pc = "writeProfile"
    /\ \/ /\ profile' = [profile EXCEPT ![env] = wanted]
          /\ counted' = [counted EXCEPT ![env] = Cardinality(Entries(mem))]
          /\ Return("ok")
       \/ Return("io_error") /\ UNCHANGED <<profile, counted>>
    /\ UNCHANGED <<file, saved, memory, request, todo, dirty>>
-----------------------------------------------------------------------------
(* The process ends, by a crash or by AppContextDestroy.                   *)
Exit ==
    /\ crashes < MaxCrashes
    /\ crashes' = crashes + 1
    /\ Release /\ pc' = "idle" /\ result' = "none" /\ todo' = {} /\ dirty' = FALSE
    /\ UNCHANGED <<disk, op, env, wanted, ops>>

Scan    == Decide \/ RemoveCache \/ RemoveProfile \/ ScanFile \/ ScanFails
Preview == PreviewFile \/ PreviewFails
Save    == OpenForSave \/ WriteCache \/ OpenProfile \/ WriteProfile

Next == Begin \/ EnsureCacheReady \/ Scan \/ Preview \/ Visits \/ Save \/ Exit

Spec == Init /\ [][Next]_vars
-----------------------------------------------------------------------------
(* Properties.                                                             *)

Steps == {"idle", "open", "reopen", "decide", "rebuild", "unprofile", "visit",
          "save", "write", "sign", "writeProfile"}
Results == {"none", "ok", "models", "failed", "cache_error", "io_error"}

(* The kinds of the variables; a released cache holds nothing, and the     *)
(* cache that is visited or saved is that of the request's environment.    *)
DiskOK    == /\ file \in [Envs -> {"absent", "torn", "whole"}]
             /\ saved \in [Envs -> [Files -> Marks]]
             /\ profile \in [Envs -> Profiles \cup {"absent", "torn"}]
             /\ counted \in [Envs -> Nat]
MemoryOK  == /\ open \in Envs \cup {"none"} /\ mem \in [Files -> Marks]
             /\ open = "none" => mem = Empty
             /\ pc \in Steps \ {"idle", "open", "unprofile", "reopen"} => open = env
RequestOK == /\ op \in {"none", "scan", "preview", "read"}
             /\ env \in Envs /\ wanted \in Profiles /\ todo \in SUBSET Files
             /\ pc \in Steps /\ result \in Results /\ ops \in Nat /\ crashes \in Nat

TypeOK == DiskOK /\ MemoryOK /\ RequestOK /\ dirty \in BOOLEAN

(* Of(c, q): no entry of c was scanned with other parameters than q. *)
Of(c, q) == \A f \in Files : c[f] \in Profiles => c[f] = q

(* A profile file vouches for the cache: whatever was cancelled, failed,   *)
(* crashed or previewed since, no entry in the cache file or in the copy   *)
(* loaded from it comes from a scan with other parameters.  So a scan that *)
(* finds its own profile may reuse every entry.                            *)
ProfileVouchesForCache ==
    \A e \in Envs : profile[e] \in Profiles =>
        /\ file[e] = "whole" => Of(saved[e], profile[e])
        /\ open = e => Of(mem, profile[e])

(* A scan that returned OK has saved a complete entry, made with its own   *)
(* parameters, of every file of its source, and a profile that says so:    *)
(* the next process finds what this one had.                               *)
SuccessIsSaved ==
    pc = "idle" /\ op = "scan" /\ result = "ok" =>
        /\ file[env] = "whole" /\ profile[env] = wanted
        /\ open = env /\ saved[env] = mem
        /\ \A f \in Under[wanted] : saved[env][f] = wanted
        /\ counted[env] = Cardinality(Entries(saved[env]))

(* Saving the cache never loses an entry the cache file had: a scan that   *)
(* reuses the cache keeps what it did not visit, and so does a preview of  *)
(* some other directory, whichever environment was loaded before.          *)
SavesKeepEntries ==
    [][\A e \in Envs :
          pc = "write" /\ file'[e] = "whole" =>
              Entries(saved[e]) \subseteq Entries(saved'[e])]_vars

(* What makes the three inductive.  Of a cache file that is absent nothing *)
(* is remembered, and a loaded cache has every entry of its file.          *)
AbsentIsEmpty == \A e \in Envs : file[e] = "absent" => saved[e] = Empty
LoadedIsWhole == \A e \in Envs : open = e => Entries(saved[e]) \subseteq Entries(mem)

(* A rebuild loads its cache when nothing is left of the old one. *)
RebuildIsClean ==
    /\ pc \notin {"idle", "open"} => op \in {"scan", "preview"}
    /\ pc \in {"decide", "rebuild", "unprofile", "reopen", "sign", "writeProfile"} => op = "scan"
    /\ pc \in {"unprofile", "reopen"} => open = "none" /\ file[env] = "absent"
    /\ pc = "reopen" => profile[env] = "absent"

(* A scan works on a cache of its own profile only, has made complete what *)
(* is no longer to do, and signs what it has saved.                        *)
ScanIsPure ==
    /\ op = "scan" /\ pc \in {"visit", "save", "write", "sign", "writeProfile"} =>
          /\ profile[env] \in {wanted, "absent", "torn"}
          /\ Of(mem, wanted)
          /\ \A f \in Under[wanted] \ todo : mem[f] = wanted
          /\ pc # "visit" => todo = {}
    /\ pc \in {"sign", "writeProfile"} => file[env] = "whole" /\ saved[env] = mem

CacheInv == AbsentIsEmpty /\ LoadedIsWhole /\ RebuildIsClean /\ ScanIsPure
-----------------------------------------------------------------------------
(* What the documentation says and the code does not keep.                 *)

(* docs/app_api.md: "If profile is missing/malformed/mismatched, cache is  *)
(* rebuilt automatically before scan".                                     *)
RebuildIsAutomatic ==
    [][op = "scan" /\ pc = "open" /\ profile[env] # wanted
          => result' # "cache_error"]_vars
=============================================================================
