---------------------------- MODULE ScanPipeline ----------------------------
(***************************************************************************)
(* The scan: AppRunScanPipeline lists the files under a directory in path  *)
(* order, gives each of its worker threads a stretch of the list, and      *)
(* joins them.  A worker looks its next file up in the cache, extracts the *)
(* metadata of a file whose entry is missing or out of date, has the       *)
(* models look at it, and stores the entry.  The cache and the counters    *)
(* are shared, each under its mutex; the "failed" flag stops the workers.  *)
(*                                                                         *)
(* Sources: src/app/app_scan_pipeline.c, app_scan.c, and the cache in      *)
(* src/core/gallery_cache_entry.c.                                         *)
(*                                                                         *)
(* With one job, or one file, the program runs the same steps in the main  *)
(* thread: here that is a single worker whose creation cannot fail.        *)
(* Meanwhile the user may ask to cancel, and may edit the files.           *)
(***************************************************************************)
EXTENDS Integers, FiniteSets, SequencesExt

CONSTANTS Count,      \* the number of files listed
          Jobs,       \* --jobs
          Paths,      \* the paths of the directory
          Listed,     \* Listed[i]: the path of the i-th file of the list
          Media,      \* the paths FsIsSupportedMedia accepts
          Key,        \* Key[p]: p as cJSON compares keys, in lower case
          Ml,         \* the models: "off", run where "missing", or "always"
          MaxScans,   \* bound: scans of a behaviour
          MaxEdits    \* bound: edits of one file

ASSUME ListAssumption ==
    /\ Count \in Nat /\ Jobs \in Nat \ {0}
    /\ Listed \in [1 .. Count -> Paths]
    /\ Media \subseteq Paths
    /\ DOMAIN Key = Paths
    /\ Ml \in {"off", "missing", "always"}
    /\ MaxScans \in Nat /\ MaxEdits \in Nat

VARIABLES version,    \* version[p]: how often the file at p has been edited
          cache,      \* the entries of the cache in insertion order
          scans, result,
          cancel,     \* the answer of the cancel hook
          \* The main thread of the scan:
          pc, cursor, launched,
          \* The worker threads: their stretch of the list, where they are
          \* in it, and the metadata in their hands.
          first, last, at, wpc, md,
          \* Shared by them:
          failed, cancelled, scanned, cached, evaluated, mlFailures

vars == <<version, cache, scans, result, cancel, pc, cursor, launched,
          first, last, at, wpc, md, failed, cancelled, scanned, cached,
          evaluated, mlFailures>>
main    == <<pc, cursor, launched, first, last, scans, result>>
tallies == <<scanned, cached, evaluated, mlFailures>>
flags   == <<failed, cancelled, cancel>>

Parallel    == Jobs > 1 /\ Count > 1
WorkerCount == IF ~Parallel THEN 1 ELSE IF Jobs > Count THEN Count ELSE Jobs
Workers     == 1 .. WorkerCount

(* The metadata of a file: the date and size it was found with, and the    *)
(* file and edit its content (its hash, its EXIF fields) was read from.    *)
(* An edit changes the date or the size: both together stand for "stamp".  *)
Entry(p, stamp, content, ml) ==
    [path |-> p, stamp |-> stamp, content |-> content, ml |-> ml]
Content(p) == [path |-> p, edit |-> version[p]]
NoEntry    == [path |-> "none"]

Init ==
    /\ version = [p \in Paths |-> 0]
    /\ cache = <<>> /\ scans = 0 /\ result = "none" /\ cancel = FALSE
    /\ pc = "idle" /\ cursor = 0 /\ launched = 0
    /\ first = [w \in Workers |-> 0] /\ last = [w \in Workers |-> 0]
    /\ at = [w \in Workers |-> 0] /\ wpc = [w \in Workers |-> "off"]
    /\ md = [w \in Workers |-> NoEntry]
    /\ failed = FALSE /\ cancelled = FALSE
    /\ scanned = 0 /\ cached = 0 /\ evaluated = 0 /\ mlFailures = 0
-----------------------------------------------------------------------------
(* The user.                                                               *)

UserEdits ==
    /\ \E p \in Media :
          /\ version[p] < MaxEdits
          /\ version' = [version EXCEPT ![p] = @ + 1]
    /\ UNCHANGED <<cache, at, wpc, md>> /\ UNCHANGED <<main, tallies, flags>>

UserCancels ==
    /\ pc # "idle" /\ ~cancel
    /\ cancel' = TRUE
    /\ UNCHANGED <<version, cache, at, wpc, md, failed, cancelled>>
    /\ UNCHANGED <<main, tallies>>
-----------------------------------------------------------------------------
(* The main thread.                                                        *)

Begin ==
    /\ pc = "idle" /\ scans < MaxScans
    /\ scans' = scans + 1 /\ cancel' = FALSE
    /\ \/ /\ pc' = "launch" /\ result' = "none" /\ launched' = 0 /\ cursor' = 0
          /\ wpc' = [w \in Workers |-> "off"]
          /\ failed' = FALSE /\ cancelled' = FALSE
          /\ scanned' = 0 /\ cached' = 0 /\ evaluated' = 0 /\ mlFailures' = 0
       \/ \* CollectSortedPaths fails
          /\ result' = "failed"
          /\ UNCHANGED <<pc, cursor, launched, wpc, failed, cancelled>>
          /\ UNCHANGED tallies
    /\ UNCHANGED <<version, cache, first, last, at, md>>

(* Mutant: the remainder of the division is handed to no worker. *)
NoRemainder(w) == Count \div WorkerCount

Span(w) == Count \div WorkerCount + (IF w <= Count % WorkerCount THEN 1 ELSE 0)

Launch ==
    /\ pc = "launch" /\ launched < WorkerCount
    /\ LET w == launched + 1 IN
         /\ first' = [first EXCEPT ![w] = cursor]
         /\ last'  = [last EXCEPT ![w] = cursor + Span(w)]
         /\ at'    = [at EXCEPT ![w] = cursor + 1]
         /\ cursor' = cursor + Span(w)
         /\ \/ /\ launched' = w
               /\ wpc' = [wpc EXCEPT ![w] = "check"]
               /\ UNCHANGED <<pc, failed>>
            \/ \* pthread_create fails
               /\ Parallel
               /\ failed' = TRUE /\ pc' = "join"
               /\ UNCHANGED <<launched, wpc>>
    /\ UNCHANGED <<version, cache, md, scans, result, cancelled, cancel>>
    /\ UNCHANGED tallies

Ended(w) == wpc[w] = "ended"

(* Mutant: all worker slots are joined, the ones never launched too. *)
JoinAll ==
    /\ \/ pc = "launch" /\ launched = WorkerCount
       \/ pc = "join"
    /\ \A w \in Workers : Ended(w)
    /\ pc' = "idle"
    /\ result' = IF ~failed THEN "ok" ELSE IF cancelled THEN "cancelled" ELSE "failed"
    /\ UNCHANGED <<version, cache, cursor, launched, first, last, at, wpc, md, scans>>
    /\ UNCHANGED <<tallies, flags>>

Join ==
    /\ \/ pc = "launch" /\ launched = WorkerCount
       \/ pc = "join"
    /\ \A w \in 1 .. launched : Ended(w)
    /\ pc' = "idle"
    /\ result' = IF ~failed THEN "ok" ELSE IF cancelled THEN "cancelled" ELSE "failed"
    /\ UNCHANGED <<version, cache, cursor, launched, first, last, at, wpc, md, scans>>
    /\ UNCHANGED <<tallies, flags>>
-----------------------------------------------------------------------------
(* A worker.                                                               *)

File(w) == Listed[at[w]]

Goto(w, label) == wpc' = [wpc EXCEPT ![w] = label]

(* WorkerShouldStop, under the failed mutex. *)
Check(w) ==
    /\ wpc[w] = "check"
    /\ IF at[w] > last[w]
         THEN Goto(w, "ended") /\ UNCHANGED flags
       ELSE IF failed \/ cancel
         THEN /\ Goto(w, "ended")
              /\ failed' = TRUE
              /\ cancelled' = (cancelled \/ ~failed)
              /\ UNCHANGED cancel
       ELSE Goto(w, "scan") /\ UNCHANGED flags
    /\ UNCHANGED <<version, cache, at, md>> /\ UNCHANGED <<main, tallies>>

(* files_scanned++, under the statistics mutex; another file than a media  *)
(* file is then done with.                                                 *)
CountFile(w) ==
    /\ wpc[w] = "scan"
    /\ scanned' = scanned + 1
    /\ IF File(w) \in Media
         THEN Goto(w, "lookup") /\ UNCHANGED at
         ELSE Goto(w, "check") /\ at' = [at EXCEPT ![w] = @ + 1]
    /\ UNCHANGED <<version, cache, md, cached, evaluated, mlFailures>>
    /\ UNCHANGED <<main, flags>>

(* The positions at which cJSON finds a path: it ignores the case. *)
Slots(c, p) == {i \in DOMAIN c : Key[c[i].path] = Key[p]}
Slot(c, p)  == CHOOSE i \in Slots(c, p) : \A j \in Slots(c, p) : i <= j

(* CacheGetValidEntry, under the cache mutex: the entry of the key, if its *)
(* date and size are those of the file.                                    *)
HasValid(p) == Slots(cache, p) # {} /\ cache[Slot(cache, p)].stamp = version[p]

(* Mutant: a cache hit drops the models' results. *)
ForgetsInference(w) ==
    /\ wpc[w] = "lookup"
    /\ LET p == File(w) IN
       IF HasValid(p)
         THEN LET e == cache[Slot(cache, p)] IN
              /\ md' = [md EXCEPT ![w] = Entry(p, version[p], e.content, FALSE)]
              /\ Goto(w, "infer")
         ELSE /\ md' = [md EXCEPT ![w] = Entry(p, version[p], Content(p), FALSE)]
              /\ Goto(w, "extract")
    /\ UNCHANGED <<version, cache, at>> /\ UNCHANGED <<main, tallies, flags>>

Lookup(w) ==
    /\ wpc[w] = "lookup"
    /\ LET p == File(w) IN
       IF HasValid(p)
         THEN LET e == cache[Slot(cache, p)] IN
              /\ md' = [md EXCEPT ![w] = Entry(p, version[p], e.content, e.ml)]
              /\ Goto(w, "infer")
         ELSE /\ md' = [md EXCEPT ![w] = Entry(p, version[p], Content(p), FALSE)]
              /\ Goto(w, "extract")
    /\ UNCHANGED <<version, cache, at>> /\ UNCHANGED <<main, tallies, flags>>

(* ExtractMetadata and ComputeFileMd5 read the file some time after its    *)
(* date and size were read.                                                *)
Extract(w) ==
    /\ wpc[w] = "extract"
    /\ md' = [md EXCEPT ![w] = Entry(File(w), md[w].stamp, Content(File(w)), FALSE)]
    /\ Goto(w, "infer")
    /\ UNCHANGED <<version, cache, at>> /\ UNCHANGED <<main, tallies, flags>>

(* RunMlInferenceIfRequested: a cancellation skips the inference and marks *)
(* the scan cancelled, but does not set the failed flag.                   *)
Wanted(w) == Ml = "always" \/ (Ml = "missing" /\ ~md[w].ml)

StartInference(w) ==
    /\ wpc[w] = "infer"
    /\ IF Wanted(w) /\ ~cancel
         THEN Goto(w, "inferring") /\ evaluated' = evaluated + 1
         ELSE Goto(w, "store") /\ UNCHANGED evaluated
    /\ cancelled' = (cancelled \/ (Wanted(w) /\ cancel))
    /\ UNCHANGED <<version, cache, at, md, scanned, cached, mlFailures, failed, cancel>>
    /\ UNCHANGED main

Infer(w) ==
    /\ wpc[w] = "inferring"
    /\ \/ /\ md' = [md EXCEPT ![w] = Entry(File(w), md[w].stamp, md[w].content, TRUE)]
          /\ UNCHANGED mlFailures
       \/ \* MlInferImage fails
          /\ mlFailures' = mlFailures + 1 /\ UNCHANGED md
    /\ Goto(w, "store")
    /\ UNCHANGED <<version, cache, at, scanned, cached, evaluated>>
    /\ UNCHANGED <<main, flags>>

(* Mutant: an existing entry is left as it was. *)
KeptOld(c, e) == IF Slots(c, e.path) = {} THEN Append(c, e) ELSE c

(* CacheUpdateEntry, under the cache mutex: the entry replaces that of its *)
(* key where it stands, or becomes the last.                               *)
Updated(c, e) ==
    IF Slots(c, e.path) = {} THEN Append(c, e)
    ELSE [i \in DOMAIN c |-> IF i = Slot(c, e.path) THEN e ELSE c[i]]

(* Mutant: the date is read when the entry is stored, not when the file was read. *)
StoreDateLate(w) ==
    /\ wpc[w] = "store"
    /\ cache' = Updated(cache, [md[w] EXCEPT !.stamp = version[File(w)]])
    /\ Goto(w, "tally")
    /\ UNCHANGED <<version, at, md>> /\ UNCHANGED <<main, tallies, flags>>

Store(w) ==
    /\ wpc[w] = "store"
    /\ cache' = Updated(cache, md[w])
    /\ Goto(w, "tally")
    /\ UNCHANGED <<version, at, md>> /\ UNCHANGED <<main, tallies, flags>>

(* files_cached++, under the statistics mutex, and on to the next file. *)
Tally(w) ==
    /\ wpc[w] = "tally"
    /\ cached' = cached + 1
    /\ at' = [at EXCEPT ![w] = @ + 1]
    /\ Goto(w, "check")
    /\ UNCHANGED <<version, cache, md, scanned, evaluated, mlFailures>>
    /\ UNCHANGED <<main, flags>>

Work(w) == Check(w) \/ CountFile(w) \/ Lookup(w) \/ Extract(w)
             \/ StartInference(w) \/ Infer(w) \/ Store(w) \/ Tally(w)
-----------------------------------------------------------------------------
Main == Launch \/ Join
User == UserEdits \/ UserCancels \/ Begin

Next == User \/ Main \/ (\E w \in Workers : Work(w))

(* The operating system schedules every thread that can run, and the       *)
(* models answer.                                                          *)
Fairness == WF_vars(Main) /\ (\A w \in Workers : WF_vars(Work(w)))

Safety == Init /\ [][Next]_vars
Spec   == Safety /\ Fairness
-----------------------------------------------------------------------------
(* Properties.                                                             *)

Busy == {"scan", "lookup", "extract", "infer", "inferring", "store", "tally"}
Items == 1 .. Count

(* Where the items of the list are. *)
InHand   == {at[w] : w \in {v \in 1 .. launched : wpc[v] \in Busy}}
Finished == {i \in Items : \E w \in 1 .. launched : first[w] < i /\ i < at[w]}

Contents == [path : Paths, edit : Nat]
Entries  == [path : Paths, stamp : Nat, content : Contents, ml : BOOLEAN]

(* The kinds of the variables; no stretch reaches past the end of the list. *)
DataOK    == version \in [Paths -> Nat] /\ cache \in Seq(Entries)
MainOK    == /\ pc \in {"idle", "launch", "join"} /\ cursor \in 0 .. Count
             /\ launched \in 0 .. WorkerCount
             /\ scans \in Nat /\ result \in {"none", "ok", "cancelled", "failed"}
ThreadsOK == /\ first \in [Workers -> 0 .. Count] /\ last \in [Workers -> 0 .. Count]
             /\ at \in [Workers -> 0 .. Count + 1]
             /\ wpc \in [Workers -> Busy \cup {"off", "check", "ended"}]
HandsOK   == md \in [Workers -> Entries \cup {NoEntry}]
FlagsOK   == failed \in BOOLEAN /\ cancelled \in BOOLEAN /\ cancel \in BOOLEAN
TalliesOK == scanned \in Nat /\ cached \in Nat /\ evaluated \in Nat /\ mlFailures \in Nat

TypeOK == DataOK /\ MainOK /\ ThreadsOK /\ HandsOK /\ FlagsOK /\ TalliesOK

(* The threads share the list out as the pool promises: every file is      *)
(* taken once, and a scan that returns OK has done them all.               *)
Pool == INSTANCE WorkPool WITH
            todo    <- Items \ (InHand \cup Finished),
            doing   <- InHand,
            done    <- Finished,
            outcome <- IF pc = "idle" THEN result ELSE "busy"
ImplementsWorkPool == Pool!PoolSpec

(* No thread is left when the scan returns and frees what they share, also *)
(* when a later thread could not be created.                               *)
NoWorkerOutlivesScan ==
    pc = "idle" => \A w \in Workers : wpc[w] \in {"off", "ended"}

(* The cache has at most one entry of a file, also when two threads store  *)
(* the same path (the list has a path twice where a link leads to a file   *)
(* that is listed too).                                                    *)
OneEntryPerFile ==
    \A i, j \in DOMAIN cache : cache[i].path = cache[j].path => i = j

(* An entry whose date and size are those of its file has the metadata of  *)
(* the file as it is: an edit during the scan makes the entry out of date, *)
(* never wrong.                                                            *)
FreshEntriesAreTrue ==
    \A i \in DOMAIN cache :
        LET e == cache[i] IN
        e.stamp = version[e.path] => e.content = Content(e.path)

(* After a scan that returns OK each media file has its entry; and if no   *)
(* inference failed or was cancelled, each entry has its inference.        *)
CompleteOnSuccess ==
    pc = "idle" /\ result = "ok" =>
        \A k \in Items : Listed[k] \in Media =>
            \E i \in DOMAIN cache :
                /\ cache[i].path = Listed[k]
                /\ Ml # "off" /\ ~cancelled /\ mlFailures = 0 => cache[i].ml

(* A file whose up-to-date entry has its inference is not given to the     *)
(* models again, also by the scan after one that was cancelled.  (Two      *)
(* threads that look one file up at a time may each do so.)                *)
InferredOnce ==
    [][\A w \in Workers :
          /\ wpc[w] = "infer" /\ wpc'[w] = "inferring"
          /\ \A i \in Items : Listed[i] = File(w) => i = at[w]
          =>
              \A i \in DOMAIN cache :
                  ~(cache[i].path = File(w) /\ cache[i].stamp = md[w].stamp /\ cache[i].ml)]_vars

(* A scan comes to its end, however many threads could be created. *)
ScanEnds == pc # "idle" ~> pc = "idle"
=============================================================================
