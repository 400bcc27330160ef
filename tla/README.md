# CGalleryOrganizer in TLA+

CGalleryOrganizer scans directories of photos and videos into a cache, finds
duplicates and similar pictures, organizes a library into directories, and
renames files by a pattern, from a command line and from a GUI. It moves and
renames the user's only copies, its scans share state between threads, and what
it remembers (a cache, a profile, a manifest, a history, a tag sidecar) lives in
plain files that are written without a log and may be cut short. This directory
holds TLA+ models of those parts, TLC configurations that check them on small
instances, and proofs, checked by TLAPS, for every value of the constants.

All paths below are relative to the repository; `src/` is its source directory.

## 1. The system

### Components

| Component | State it keeps | Operations |
|---|---|---|
| organizer (`src/systems/organizer_*.c`, `src/app/app_organize.c`) | `<env>/manifest.json`; in memory the plan and the journal | plan, execute, rollback |
| file moves (`src/utils/fs_utils.c`) | the directory tree | `FsRenameFile`, `FsMoveFile` with numbering, the walk |
| renamer (`src/systems/renamer_*.c`, `src/app/app_rename.c`) | `rename_previews/`, `rename_history/<id>.json`, the index, `rename_tags.json`, the default pattern in `rename_config.json` | pattern, tags, preview, apply, preflight, rollback, prune, redo |
| rename panel's tags (`src/gui/core/gui_rename_map.c`) | none; the same `rename_tags.json`, or a map of the user's | apply manual tags, apply metadata tags |
| scan pipeline (`src/app/app_scan_pipeline.c`) | the list, the threads, counters, two flags | scan by one or several threads, cancel |
| gallery cache (`src/core/gallery_cache_*.c`, `src/app/app_scan.c`, `app_cache_profile.c`, `app_errors.c`) | the cache file, the profile file, the copy in memory | load, rebuild, update, save, release |
| App API (`src/app/`) | one `AppContext` without a lock | all requests pass through it |
| GUI and worker (`src/gui/gui_worker*.c`, `src/gui/core/`) | `g_worker` under a mutex, a snapshot per frame, dialogs | start a task, cancel, show, inspect, exit |
| duplicates (`src/app/app_duplicates.c`, `src/systems/duplicate_finder.c`) | a report held by the caller | find, move |
| models and inference (`src/app/app_models*.c`, `src/ml/`) | model files, a lockfile, loaded sessions | install, load, infer |
| GUI settings (`src/gui/gui_state*.c`, `src/gui/core/gui_ui_state*.c`, the panels) | `gui_state.json`, the fields' texts and values, what the window believes to be saved | launch, type, take over, start with, save, reset, close |
| similarity (`src/systems/similarity_*.c`) | none | rank, report |
| runtime state (`src/app/app_runtime_state.c`) | none | inspect |
| command line (`src/main.c`, `src/cli/`) | none | parse, call the API |

### Interactions

- The command line and the GUI call the App API. The GUI calls it from two
  threads: a worker thread runs the task, the main thread inspects the runtime
  state and the profile. The `AppContext` has no lock; `g_worker.busy` and the
  order of the steps in a frame are all that keeps the two apart.
- A scan writes cache and profile; the organizer, the duplicate finder, the
  similarity report and the previews read the cache, the previews also write it.
  Only one cache is loaded at a time, whichever environment it belongs to.
- The threads of a scan share the cache, the counters and the model sessions,
  each under a mutex of its own, and call back into the caller for progress and
  cancellation.
- Organizer and renamer rename files the cache, the tag sidecar and older
  previews name by path. None of them is told; each finds out when it runs.
- The rename panel rewrites the tag sidecar on the main thread, without asking
  whether the worker runs a preview, an apply or a rollback that has loaded it.
- The duplicate mover trusts a report: a search rests on MD5s of the last scan
  and on what the files held when it ran, the move on the search. In the GUI any
  time may pass between, and the target directory is the field's by then.
- A scan's profile holds the digests of the models it infers with, so a model
  that is replaced or removed makes later scans rebuild or refuse, while the
  session opened from the old files may still be loaded.
- The GUI's fields have a text and a value; tasks take one or the other, results
  fill them, and the exit dialog compares them with what was saved.

### What is hard here, and what makes each component correct

- **Organizer.** Each move is two renames, the names of one plan collide with
  each other and with files the plan is still to move, and the manifest comes
  last. Correct: executing never loses a file; the journal really leads back;
  a rollback restores what can be restored. A rollback *can* lose files when an
  in-place execution reused a name (finding below).
- **Renamer.** A preview may be old, targets are chosen before the first rename,
  and four files have to agree afterwards. Correct: targets stay safe until
  used; nothing is overwritten; only what was previewed is renamed; tags follow
  files; what a preflight promises is what a rollback does. Tags *can* go to another
  file when two names differ in case only between two renames (recorded below).
- **Scan pipeline.** Threads, a cancellation that can be noticed at three places,
  a thread that cannot be created, edits during the scan. Correct: each file is
  taken once, an OK scan is complete, no thread survives it, entries are true.
- **Cache and profile.** Two files written one after the other in place, a
  decision read from one about the other, environments that take turns.
  Correct: entries of other parameters are never reused, a scan that returned
  OK is on the disk, no save loses entries.
- **GUI worker.** Every decision of a frame rests on a snapshot. Correct: the
  App has one user at a time, no result, start or thread is lost, a late cancel
  hits nothing, and closing the window ends the program.

- **Pattern and names.** A pattern is cut to its buffer, read by a scanner that
  never looks back, saved as the default of later previews, and its names are
  squeezed and cut. Correct: what is accepted is what the language has, a name
  means what the pattern says, stays in its directory and keeps its extension.
- **Tags.** Each preview replays its edits on the sidecar the earlier ones left,
  in three lists per file with a limit; a panel writes the same file from another
  thread and in other spellings. Correct: the last word on each tag is what is
  shown; the same preview shows the same. An edit of the panel *can* be lost
  (recorded below).
- **Duplicates.** Correct: nothing is overwritten, however old the report; while
  it is true, every content keeps a place it had; a complete move leaves one copy.
- **Models.** Files overwritten in place, a check afterwards, a lockfile at the
  end. Correct: no wrong model stays, the lockfile is true, no scan infers
  without its models, and installing again repairs what a crash left.
- **GUI settings.** Correct: nothing typed is lost without a question, saving
  ends the question, and a task runs on the numbers that are shown.

`PROJECT.json` lists these hazards line by line with the properties that
cover them.

## 2. The modules

Every module names its sources at its head; `PROJECT.json` maps each definition
to its lines. Modules whose names begin with MC define small instances.

| Module | What it is |
|---|---|
| `FileSystem` | Files on a disk: a function from paths to file identities. `RenameOn` is rename(2), which replaces what has the name; `Candidate` and `FirstFree` are the collision loops, which look for `name_1`, `name_2`, ... |
| `FileStore` | Abstract: while an operation runs, files move one at a time onto paths that do not exist. |
| `Organizer` | Scan (by its effect), plan, the two renames per move, the manifest, the rollback, the user, crashes. |
| `Renamer` | Preview, apply (plan, rename, sidecar, manifest, index), rollback, prune, the user, crashes. |
| `WorkPool` | Abstract: items are taken once, success means all are done, a return means none is in hand. |
| `ScanPipeline` | The main thread that divides, creates and joins; the workers, step by step. |
| `GalleryCache` | Cache file, profile file and copy in memory of several environments, under scans, previews and reads. |
| `GuiWorker` | The frames of the main thread against the worker thread. |
| `Duplicates` | Scan (by its effect), search, the move duplicate by duplicate, the user, crashes. |
| `Models` | The installation step by step, the lockfile, the session and the scans that use it, the user, crashes. |
| `RenameText` | Functions on texts: slugs, normalized tags, the length policy. |
| `RenamerPattern` | Pattern, scanner, tokens and names, character by character, over several previews and files. |
| `RenamerTags` | The sidecar over several previews and edits of the rename panel, and the tags each preview shows. |
| `GuiState` | Texts, values, what is believed saved, and the state file, over launches. |
| `*Proofs` | The lemmas and proofs of a module; those about the operators of `FileSystem` open each module that uses them. |

### How the models correspond to the code

- **A step** is what happens between two points at which another actor, a
  failure or a crash could show: one rename, one file written, one section under
  a mutex. Saving a file that `fopen "w"` truncates has a step at which the file
  is torn; a write that goes through a buffer and is then flushed has the
  failure that `fwrite` reports.
- **A path** is a directory, a stem and the collision suffixes so far, so
  that `T` numbered 1 and a file named `T_1` are one path, as in the code. File
  extensions and the formatting of dates are part of the stem.
- **A file** is an identity: what the properties follow through renames. Its
  metadata is what `Target`, a pattern or an inference makes of it.
- **Organizer**: `disk`, `cache` (in key order, which decides who gets the bare
  name), `manifest`; `journal` is `g_manifest_array`. `MoveIntoDirectory` is the
  probe and `FsMoveFile`, `FinalizeName` the second rename and the record.
  `Rollback` is one record of the loop of `OrganizerRollback`.
- **Renamer**: `previews` holds the artifacts, `items`, `targets` and `moves` the
  arrays of the running apply; an operation id is the second it was made in and
  its preview, as `BuildOperationId` makes it. A preview's fingerprint is checked
  by comparing what it is computed from. The sidecar is a cJSON object: `sidecar` and
  `tags` are indexed by `Key(path)`, the path as the vendored lookup sees it, which
  ignores case, while `HasPathConflict` compares paths exactly, as `strcmp` does.
  `distinct` remembers whether two files were ever at paths with one key, between the
  renames of an operation too. `MarkRolledBack` marks the index whatever became of the
  manifest, whose result the code does not look at.
- **ScanPipeline**: `Launch` is one turn of the loop around `pthread_create`,
  `Join` the joins and the result; `Check`, `Lookup`, `Extract`, `StartInference`,
  `Infer`, `Store` and `Tally` are a worker's steps. The list may name a path
  twice (links). Key comparison without regard to case, a trait of the vendored
  cJSON, is in `Slots`.
- **GalleryCache**: an entry is none, bare (a preview's), or complete for a
  profile. The visit of a file is one step; its threads are `ScanPipeline`'s.
- **GuiWorker**: `pc` walks through one frame in the order of `gui_main.c`;
  `snap` is the frame's snapshot. A task's work is one step that ends well,
  fails, or, for tasks with hooks, is cancelled. `CreateThread` may fail.

- **Duplicates**: `disk` holds contents, `cache` MD5s, `report` the groups that
  are left. Sorting leaves the order within a block open, so any member may be
  its original. `Readings` are what the two digest functions see of the files: a file
  that cannot be opened is left out, but an error of `fread` is taken for the end of
  the file, so that any content may be seen of it. `MoveDuplicate` is one turn of the two loops of
  `AppMoveDuplicates`; `fresh` and `whole` say whether the report is still true
  and was complete.
- **Models**: `Download` is the part up to `fopen "wb"` of the target, `Write` the
  payload, `Verify` the digest and the removal, `OpenLock` and `WriteLock` the
  lockfile. A payload is its own digest. `Fingerprints` is the part of the profile
  a scan builds before `EnsureReady` opens a session.
- **RenamerPattern**: `pos` is the index of the loop in `ValidateOrRenderInternal`,
  one action for each of its branches, run once to validate and once per file.
  A text is a sequence of characters; `Lower`, the hash's arithmetic
  (`Mix`, `Hex`) and `Numeral`, the digits of a file's number, are parameters.
- **RenamerTags**: there are three copies of the sidecar: the file (`disk`), a
  preview's (`root`) and a panel edit's (`panel`), each with its entries by key and with
  what was last asked of each entry and tag (`manualIs`, `metaIs`), which goes with the
  copy, so that what a later save overwrites is no longer asked for. Two paths that
  differ in case only have one entry, and what is asked of one is asked of both.
  `TagListAppend` is the array with its limit. `PanelLoads` is
  `GuiRenameMapUpsertEntry` up to the write, for any row of the last preview, and
  `PanelSaves` the write; `Torn` is what a reader finds, or two writers leave, when the
  file was opened with `"wb"` by another. The panel stores what was typed,
  not normalized (`AppendCsvTags`); once it has written the sidecar for want of a map,
  the field names the sidecar itself as the map of the previews that follow (`OwnMaps`).
  When the field names another file the panel edits that one, which a preview then
  reads as any map.
- **GuiState**: `ui` has one field for each kind of setting, with the text beside
  the value where the code has both. `ShowsFloat` is `"%.3f"`, `Clamp` the codec.

### How they are composed

`Organizer` and `Renamer` use one file system. `Renamer` is shown to implement
`FileStore`, and `ScanPipeline` to implement `WorkPool`, by refinement mappings
stated in the detailed modules; `Duplicates` implements the same `FileStore`, with
contents for identities. `RenamerPattern` and `RenamerTags` share the text
functions of `RenameText`: the tags a preview shows are the text of its tag
token. `Organizer` does not implement `FileStore`: its
rollback overwrites, which `RollbackKeepsFiles` records. `ScanPipeline`,
`GalleryCache` and `Organizer` see the same scan at three sizes: its threads,
its two files, and its effect on what is planned next.

## 3. What the runs check

Each property is stated in words where it is defined. The type invariants and
the facts that hold mostly by the shape of the code are theorems (section 4),
checked by TLC when the proofs were made and not repeated by the runs.

| Run | Instance | Distinct states | What it shows |
|---|---|---|---|
| `organizer_inplace` | 2 files with colliding names, 3 directories to scan, 6 operations, 1 failure or crash | 114,467 | Executing keeps every file (`ExecuteKeepsFiles`); the journal leads back to the start (`JournalUndoesExecution`); disjoint executions are undone by one rollback, whole (`RollbackUndoesDisjointRun`); a fresh plan gives each file its name (`FreshPlanOrganizes`). |
| `renamer` | 3 files and 2 patterns that permute their names, two of them equal but for case, history of 2, 1 second, 5 operations, 1 failure or crash | 5,545,253 | Apply and rollback implement `FileStore` (`RenamesNeverOverwrite`); an old preview renames only what it showed (`RenamesWhatWasPreviewed`); the preflight's promise is kept (`PreflightIsSound`, `FreshOperationIsRestorable`); tags follow files (`TagsFollowFiles`). |
| `scan` | 5 list items (a path twice, two that are no media), 2 threads, 2 scans, 1 edit per file, cancellation and failures at any point | 582,108 | The threads share the list as `WorkPool` promises (`ImplementsWorkPool`), an OK scan is complete (`CompleteOnSuccess`), entries are true (`FreshEntriesAreTrue`), no inference is repeated (`InferredOnce`), and the scan ends (`ScanEnds`). |
| `gallery_cache` | 2 environments, 2 files, 3 profiles (two of one directory), 4 operations, 2 crashes, failures at any point | 1,850,382 | `ProfileVouchesForCache`, `SuccessIsSaved`, `SavesKeepEntries`. |
| `gui_worker` | 3 tasks of any kind | 255,400 | `AppHasOneUser`, `ThreadIsJoined`, `StartsAreNeverRefused`, `CancelReachesItsTask`, and that a result is shown (`ResultIsShown`) and the program ends (`ExitEnds`). |
| `duplicates` | 2 libraries, 3 contents of which two share an MD5, 2 targets, 6 operations, 1 failure, partial reading or crash | 412,309 | `OnePlaceIsKept`, `LibraryHasOneCopy`, and `FileStore` again (`ImplementsFileStore`). |
| `models` | 2 models in 2 versions, 4 manifests (sound, wrong payload, unsupported URL, malformed), 4 operations, 2 failures or crashes | 114,407 | `NoWrongModelStays`, `LockfileIsTrue`, `InferenceHasItsModels`, and that installing repairs (`InstallRepairs`). |
| `renamer_pattern` | all patterns of up to 5 characters out of 6 and 8 longer ones, 2 files, 2 previews | 122,790 | The scanner against a reference grammar (`RenderedIsMeaning`), `NameIsSafe`, `ExtensionIsKept`, `DefaultIsUsable`. |
| `renamer_tags` | 2 files with one key, a third and one with too many tags, 3 tags in several spellings, a limit of 2, 2 previews, 1 edit from the panel at any moment, 1 failed or torn save | 238,379 | `DecisionsAreShown`, `FailsOnlyAtTheLimit`, `SameEditSameTags`. |
| `gui_state` | texts of every kind, 2 files to find, 3 edits, 2 launches, 1 failed save or crash | 333,461 | `LaunchShowsWhatWasLeft`, `SavingIsEnough`, `TasksRunOnWhatIsShown`. |

Two runs are expected to find a violation, each a disagreement between the
code and what its documents or header say (`findings` in `PROJECT.json` quotes
the lines):

| Run | What TLC finds |
|---|---|
| `organizer_rollback_loses` (`RollbackKeepsFiles`) | A rollback that replays the manifest from its first record overwrites a file when one file of an in-place execution took a name another was moved out of. |
| `cache_torn` (`RebuildIsAutomatic`) | A torn cache file stops the scan that would rebuild it. |

### Disagreements recorded without a run

Modelling met these too. The models contain what the code does, and the properties
say where they stop short of them; no run is spent on them, because reading the line
is enough.

- `IMG_0` and `IMG_1` are renamed to `img_1` and `img_2`. No two files differ in case
  only before or after, but the first rename deletes the entry of `IMG_1` as that of
  `img_1` (`renamer_tags.c:249`), and the second takes the entry just moved (line 244):
  one file's tags are lost, the other is given the first one's, although
  `docs/tests.md:318` says that keys are updated on apply and rollback. It is what
  `TagsFollowFiles` without `distinct` runs into.
- Apply Manual is pressed while a preview runs (`gui_panels_rename.c:287`): the preview
  then saves the sidecar it had loaded, and the tags the banner reported as updated are
  gone, although `docs/scope.md:735` says that the panel's edits persist. In the model
  it is a `Save` after a `PanelSaves` with an older `root`.
- Two applies of one preview within a second share an operation id and so a
  manifest (`renamer_apply.c:41`); pruning one of them removes the other's.
- With several jobs the order of the cache's keys depends on the schedule, and
  the order decides who gets the bare name of a plan or a preview
  (`docs/scope.md:287`).
- A cancellation noticed before the last file's inference leaves a scan that
  returns OK (`docs/app_api.md:32`).
- Keys are compared without case: two paths that differ in case only share an
  entry (`gallery_cache_entry.c:210`).
- A tag the panel stored in another spelling (`Portrait`) is not found by a preview
  that removes it (`portrait`, `renamer_tags_common.c:217`) and is still shown; one that
  was hidden stays hidden when the panel adds it so spelled (`gui_rename_map.c:116`).
- Two files that differ in case only share one tag entry: what a map says of the
  second replaces what it said of the first, and what an edit of the panel asks of
  one is shown for both.
- The digests of a search take a read error for the end of the file
  (`hash_utils.c:49`), and two files that differ may be reported as equal
  (`duplicate_finder.c:97` calls it verified).
- A preview changes the number of entries, and the count of the profile is still
  reported as known (`docs/app_api.md:155`).
- An empty threshold is read as 0 and accepted (`docs/frontends.md:78`), and an
  empty keep count keeps none, so that a prune removes every record.
- The threshold `nan` is read by `strtof` and passes every comparison: it counts as in
  range and as no change, a task runs with it, and it is saved as `null`, so that the
  next launch shows 0.920. `GuiState` leaves it out.
- The results of `fputs` (`gui_state.c:414`), `fclose` and `remove` are ignored; a
  threshold changed by less than the comparison's tolerance is not asked about; a
  blank pattern is saved as blank and comes back as the default.

### Bounds

- Two files collide, and three make a chain and a cycle of names; suffix bounds
  are larger than the number of files, so the loops always find a name.
- An execution, a rescan, a second execution and its rollback, with an edit of
  the user between, is five operations; a preview made before another apply and
  used after it, then rolled back, is five.
- One failure or crash: an operation that failed is followed by one that works
  on what it left. The cache has two crashes, so that a crash can meet what a
  crash left, beside failures that are not bounded.
- Two threads with three and two items: one more than the other (the remainder
  of the division), a thread that ends early, and two threads at one path.
- Two scans: the second meets what the first left, cancelled or not. One edit
  of each file: before, between or during the scans.
- Three tasks: the first leaves a report, the second changes it, the third
  depends on it; a cancel may be late by one task, and a result by one frame.
- Three copies of one content, one of them in an environment directory under the
  same name, so that a move needs a number, or renumbers a file in place; and a
  library where two contents share an MD5, so that a wrong group can form.
- Two models: one verified when the other fails. An installation, one that
  replaces it and fails, a scan, and one that repairs are four operations.
- Patterns of five characters hold every order of two brackets, a token and a
  doubled bracket; the longer ones meet each buffer's end. The buffers are scaled
  down (14, 12 and 20 for 256, 256 and 1024; 8 for a name's 180), so that a cut
  falls inside tokens; a limit of two tags is met by the third.
- Two previews and an edit of the panel: each edit has one before it, after it, or
  between its load and its save, and a preview repeats one with nobody between. Two
  launches: what the second finds is what the first left.
- `MaxOps`, `MaxClock`, `MaxFaults`, `MaxCrashes`, `MaxScans`, `MaxEdits` and
  `MaxTasks` bound counters that the program does not have; the runs that end
  for that reason have deadlock checking off. The proofs hold for all their
  values.

### Fairness

`Organizer`, `Renamer`, `GalleryCache`, `Duplicates`, `RenamerPattern`,
`RenamerTags` and `GuiState` have safety properties only and assume none. In
`Models` the steps of a running installation are weakly fair: a loop over the
manifest in one thread, which waits for nothing but the file system. In `ScanPipeline` the main thread and each worker are weakly fair: they
wait for nothing but mutexes held for a few statements, an inference and a
decoder are taken to return, and `pthread_join` waits for a worker that is
itself fair. In `GuiWorker` the main thread is weakly fair, because it draws
frames until it exits, and so is the worker thread, because every task of the
API comes to an end. No fairness is assumed of the user, of failures, or of which
alternative a step takes: that a result is shown does not need the user to do
anything.

## 4. What is proved

The theorems hold for every value of the constants that satisfies the named
`ASSUME`s, so for any number of files, threads, operations, failures and
crashes. The assumptions: the homes of the files are distinct paths and patterns
give names (`LibraryAssumption`); the bounds are natural numbers; the list is a
function into the paths (`ListAssumption`); profiles are none of the marks used
for entries (`CacheAssumption`); a manifest names a model once, its digests are
payloads and the marks are none (`ModelsAssumption`); the libraries are finite, of
contents at paths, and MD5 gives each content a value (`DuplicatesAssumption`; nothing
is assumed of collisions); every number has a text, and the settings files hold
values of the right types (`NumberAssumption`, `FractionAssumption`,
`SwitchAssumption`); lower-case letters stay as they are, and
the requests, the metadata and what is typed in the panel hold lists of texts, and the paths, of which there are finitely many, have keys (`LowerAssumption`, `LimitAssumption`,
`RequestAssumption`, `MetadataAssumption`); a shortened name has room for its digits, which
are lower-case letters and digits (`HashAssumption`); a token of the list is a text of 1 to 63
characters without brackets (`AllowlistAssumption`); the fields of a file and their
fallbacks are texts (`BatchAssumption`), and so are the patterns (`PatternAssumption`);
each file has a format, a short text of letters and digits (`FormatAssumption`, since the list of a
preview holds media files only); and the built-in pattern ends in the tokens for the number
and the format with a dot between, after a front that does not end in a bracket
(`DefaultAssumption`: it is `pic-[datetime]-[index].[format]`).

- **`OrganizerProofs`.** `TypeCorrect`; `StagedMoveHolds`; `ExecutionKeepsFiles`:
  no execution loses a file. The inductive invariant is the type invariant, with
  "no file is at two paths", and `StagedMove`: what makes the second rename
  harmless is that the name probed *before* the first rename is still free, or
  is the name the first rename gave, in which case the file is renamed to itself.

  `FreshPlansOrganize`, `JournalsUndoExecutions` and `RollbackUndoesDisjointRuns` say what
  an execution does as a whole. They look at the disk from `Before`, with a first rename
  taken back while the second is due: then every move is one rename onto a free path
  that keeps its record (`MovesInv`, and `Carries`, which a move step satisfies), and
  the three follow by three further invariants. `Organized`: in the execution of a fresh
  plan each move made has its file where the plan said, and no move to come is disturbed. `Undoable`: the
  recorded renames, last first, lead to the disk the execution began with.
  `Reversible`: while records are disjoint, the disk of an execution is that of its
  start with the recorded files moved (`Rearranged`), and a rollback, record by
  record, moves them back whatever their order (`UndoneInv`). The induction
  over a journal is a least-counterexample argument over the naturals (`LeastOf`).
- **`RenamerProofs`.** `TypeCorrect`, with the cap of the history; `PlanStaysSafe`;
  `RenamerImplementsFileStore`. The invariant adds that the items of every
  preview have distinct sources (`PreviewsOK`) and that there are no more targets
  than items (`TargetsOK`). A target is distinct from the other targets and from all
  other sources, so each rename leaves the remaining ones free; the refinement
  then maps each rename to a `MoveFile`, a step that moves nothing to a stutter.

  On this rest `RenamesOnlyWhatWasPreviewed`, `FreshOperationsAreRestorable`,
  `PreflightKeepsItsWord` and `TagsFollowTheirFiles`. The invariant (`DeepInv`) says what the moves
  made so far have done to the disk and that the renames to come cannot disturb it (`Seen`,
  `Made`); that no two moves of one operation, running or recorded, share a source or a destination
  (`Apart`), so that restoring one leaves the others restorable; that what a preflight
  promised of an operation holds while nothing else touches the disk (`Promise`), which
  its rollback then uses up move by move; and that the tag entries are at the keys of the files
  they were given to, in the sidecar between operations and in memory while files move
  (`TagsMatch`), as long as the keys of the files on the disk have always been distinct
  (`distinct`): then a move of an entry takes none but its own, and without it this fails
  (section 3).
- **`ScanPipelineProofs`.** `TypeCorrect`; `NoThreadLeft`;
  `ScanImplementsWorkPool`; `NoDoubleEntries`; `FreshEntriesStayTrue` (for
  paths that do not differ in case only).
  The invariant says that the stretches follow one another (`Ordered`) without a
  gap (`Covered`), that a thread is inside its own (`Within`), and that a thread
  that ended with no failure is at its end; the arithmetic of base, remainder and
  span is a lemma of its own. `KeysDiffer` (no two entries have equal keys) and
  `AllReadLater` (content was read after date and size) carry the last two.
  `SuccessIsComplete` and `NothingInferredTwice` add what a position that was passed
  has left behind: an entry of its file (`Complete`), inferred when the
  profile asks for it (`NothingMissed`); the second holds when no two paths differ in case only
  and the scan is not told to infer always.
- **`GalleryCacheProofs`.** `TypeCorrect`; `ReuseIsSound`; `SuccessIsDurable`;
  `NoEntryIsLost`. The invariant is stated in `GalleryCache` (`CacheInv`): an
  absent file has no entries, a loaded cache has every entry of its file, a
  rebuild loads its cache when nothing is left of the old, and a scan works only
  on entries of its own profile.
- **`GuiProofs`**, of the worker. `TypeCorrect`; `AppIsNeverShared`; `NoThreadIsLost`;
  `StartsAlwaysSucceed`; `NoResultIsLost`; `CancelIsAimed`. The invariant is
  stated in `GuiWorker` (`GuiInv`): an idle snapshot stays true until a task is
  started, because only the main thread starts one; a thread that has ended
  waits with its result for the frame that shows, clears and reaps it.
- **`DuplicatesProofs`.** `TypeCorrect`, with the groups of a report disjoint;
  `OnePlaceStays`; `OneCopyRemains`; `DuplicatesImplementFileStore`. The invariant
  is stated in `Duplicates` (`DuplicatesInv`): when the search read whole files, and while
  nothing else changes the disk, the files of a group are where the report says, equal, and untouched by the
  running move (`ReportIsTrue`); two equal files the cache knew are in one group or
  one has gone to the target (`ReportIsWhole`), because equal contents have equal
  MD5s, so a block of two has both, and its base holds what they hold. When the
  last duplicate at a place is moved, its original stands in for it.
- **`ModelsProofs`.** `TypeCorrect`; `WrongModelsAreRemoved`; `LockfileStaysTrue`;
  `SuccessIsComplete`; `VerifiedModelsStay`; `InferenceHadItsModels`. The invariant
  (`ModelsInv`) says that a model written in place came from a URL that decodes and
  is vouched for by nothing else (`StepOK`), that the entries before the one at
  hand hold (`DoneSoFar`), because a manifest names no model twice, and that what
  held when the call began holds (`IntactOK`).
- **`GuiProofs`**, of the settings. `SettingsTypeCorrect`: each number is in its range and has a text.
  `WindowsReopenAsLeft`; `SavesLeaveNothing`; `TasksRunOnTheTexts`. A lemma for each
  conversion between texts, values, settings and file says what it keeps. The
  invariant says that what a launch would read (`Stored`) is what the window believes
  saved (`Believed`) and what the last window left (`LeftIsStored`), as long as no
  write failed and nothing crashed. The distance of a threshold adds up on the way, half a thousandth for the text
  and half for the saved value, which is where the bound of the property comes from.

- **`PreviewProofs`.** `PreviewsAreEdits`; `DecisionsShow`; `FailuresAreAtTheLimit`;
  `RepeatedEditsAreSame`. A loop is proved about as a run, a function from the number of
  items read to what was made of them (`Loop` is such a recursive function), by
  induction over its steps as sets of numbers, so that no operator is a parameter. Lemmas then say what each
  conversion and list operation does: a normalized tag is one that stays as it is (`NormalStays`),
  adding and taking out change the set of tags of a list as a union and a
  difference do, a list that overflows has as many different tags as the limit.
  The inductive invariant (`PreviewInv`) says that every copy of the sidecar, on the disk,
  in a preview and in the panel, agrees entry by entry and tag by tag with what was last asked of it
  (`Agrees`), as far as its lists hold normalized tags (`Plain`), since the panel's
  do not; that hidden tags are normalized, whoever wrote them; and that a preview's copy is
  what its request makes of some such sidecar, so that the same edit made to it changes no list
  (`EditedAgain`). A torn file agrees as the empty sidecar does (`NothingAgrees`), a
  panel's edit and a sidecar that is its own map keep agreement (`PanelEditedAgrees`,
  `OwnMapsAreMaps`), and of entries that paths share nothing more is needed than that the
  lists and what was asked go by the same keys.

  Of the patterns, `ScansKeepMeaning`; `RenderingIsMeaning`; `NamesAreSafe`; `DefaultsAreUsable`;
  `ExtensionsAreKept`.
  The reference `Meanings` is a recursion from the end of the pattern; `FromRuns` gives it as a
  function `From` of the position, by induction backwards. Of the ways to cut a
  pattern into pieces, at most one begins at any position, and it is the one the scanner
  takes: the bracket-free tokens of the list make the next `]` the only end a token can have
  (`TokenIsNamed`, and the `...Piece` lemmas). So the invariant (`PatternInv`) can say that the
  meaning of the whole is what was rendered followed by the meanings of the rest, and, while
  validating, that the rest has none exactly when the whole has none. A slug is squeezed, so
  that marks never follow one another, and trimmed; a cut name ends in the digits or its
  extension, whose characters were the slug's (`FinishedIsSafe`). The number, the dot and the
  format are the end of the built-in pattern's meaning (`DefaultEnds`, since no piece reaches over the bracket
  of the number's token); an end without two marks in a row that begins and ends with a letter passes through
  squeezing and trimming (`SqueezeKeeps`, `TrimKeeps`), and the last dot is the one before the
  format, in the slug and in the shortened name (`ShortKeeps`).

### Only model-checked

- Liveness (`ScanEnds`, `ResultIsShown`, `ExitEnds`, `InstallRepairs`): fairness and
  ENABLED are beyond the prover.

Every other property of a passing run is a theorem.

## 5. What is not modelled, and what is assumed

- One process uses an environment at a time; nothing in the code locks one.
- Between operations the user may do anything to the files a model has; while
  an operation runs he does nothing, except that files may be edited during a scan.
- A buffered write that fails is noticed by `fwrite`: `CacheSave` and the others
  ignore what `fclose` returns. `remove` succeeds on what is there, and what is
  there can be opened for reading. A cache file that cannot be removed would let a rebuild keep
  old entries under a new profile, and a full disk noticed only by `fclose` would
  let a scan return OK with a torn cache.
- A file that can be opened is read whole, except by a scan and a search in
  `Duplicates`. (The digests of a model for the profile ignore a read error too,
  `hash_utils.c:49`; those of the installation do not.)
- Case is ignored in keys of ASCII letters only, as `tolower` does; the renames of
  `Renamer` meet two spellings of one name, and `ScanPipeline` of one path.
- In `RenamerTags`, the preview reads the sidecar and, when it is its own map, reads it
  again, both in one step. The rows stay when the program is restarted, and name their
  files after an apply: more edits are possible than the panel offers. The panel is not
  composed with `Renamer`: an apply or rollback that has loaded the sidecar loses its
  edits in the same way, or its keys to them.
- A file whose content changes changes its date or its size, as `CacheGetValidEntry`
  and the fingerprint of a preview take for granted.
- Allocation never fails.
- Two contents may share an MD5 but not a SHA-256.
- Locale, compression, JSON and base64 texts, drawing, the path picker, the
  command line and option parsing are left out: they decide no property here.
  Extensions and file names are texts in `RenamerPattern` only.
- Data races: the flags written without a lock (`cancel_requested` and the
  report's flag at shutdown and in the find task) are words read once, so each
  read gives the value before or after; both orders are in the model.
- The model records some facts no property is spent on, since one line of the code
  shows them: an execution whose manifest could not be written still reports
  success, `executed_moves` counts what was planned, a preflight also counts items
  that need no move, and an apply whose sidecar cannot be saved leaves no
  record of its renames.
- **Not modelled.** *Similarity* is a pure ranking of vectors, sorted whole; its
  reading of the cache is in `GalleryCache`. The *command line* parses options and
  makes one call, or a fixed sequence of calls, of the operations modelled here.
  The *directory walk* gives the list of a scan, an input of `ScanPipeline`. The
  *codecs* (`cache_codec.c`, `metadata_parser.c`, JSON reading and writing) convert
  bytes. The listing, export and redo of the rename history read the records
  `Renamer` keeps. `components` in `PROJECT.json` says so for each.

## 6. Plan

Done, in this order, the operations that can lose files first: `FileSystem`,
`Organizer`, `Renamer` with `FileStore`, `ScanPipeline` with `WorkPool`,
`GalleryCache`, `GuiWorker`, and their first theorems.

Then `Duplicates` and `Models` with their theorems, `RenamerPattern` and
`RenamerTags` over `RenameText`, and `GuiState`.

Then the theorems about whole executions: `Organizer` forward and back, what
`Renamer` records, promises and tags, what a scan completes, and `GuiState`.

Then the lists of `RenamerTags` and the texts of `RenamerPattern`, with loops written as
recursive functions.

To model, if the code grows there: the directory walk with links and failures,
feeding `ScanPipeline`; history redo; a composition of organizer, renamer and cache
over one disk, about the paths each remembers when another moves files.

## 7. Running

    tlc -config Renamer.cfg MCRenamer
    tlc -config GuiWorker.cfg GuiWorker
    tlapm RenamerProofs.tla

The passing runs take between ten seconds and three minutes with two workers. A
`mutants` entry of `PROJECT.json` names, for every property of a passing run, a
small change of a mapped definition that the property notices; each changed
form stands in the module before the definition it changes, commented `Mutant`.
