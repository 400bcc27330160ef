------------------------------ MODULE Models ------------------------------
(***************************************************************************)
(* The model files: app/app_models.c and app/app_models_manifest.c, which  *)
(* install them, and the session that uses them, AppEnsureMlReady and      *)
(* AppReleaseMl of app/app_errors.c with ml/ml_api.c and its provider.     *)
(*                                                                         *)
(* A manifest lists models with the digest each must have and a URL with   *)
(* its payload.  The installer takes them one by one: a file that has the  *)
(* digest is skipped, another is overwritten in place, read back, and      *)
(* removed when its digest is wrong.  When all are done it writes a        *)
(* lockfile and closes the session; any failure ends it before that.       *)
(* A digest is modelled by the payload it is of.  Both front ends use one  *)
(* models directory, so there is one.                                      *)
(***************************************************************************)
EXTENDS Naturals, Sequences, FiniteSets

CONSTANTS ModelFiles,    \* the files of the models directory
          Payloads,      \* what a URL may deliver
          Absent, Torn,  \* no file, and a file that was cut short
          Unsupported,   \* what a URL this build cannot read delivers
          Manifests,     \* the manifests the program is given
          NeededBy,      \* the kinds of inference and the models each needs
          MaxOps,        \* bound on installations, scans and user edits
          MaxFaults      \* bound on failures, cancellations and crashes

Entries(manifest) == {manifest.entries[k] : k \in DOMAIN manifest.entries}

ASSUME ModelsAssumption ==
    /\ Absent \notin Payloads /\ Torn \notin Payloads /\ Unsupported \notin Payloads
    /\ Absent # Torn /\ Torn \notin Manifests
    /\ \A mf \in Manifests :
          /\ mf.entries \in Seq([model : ModelFiles, sha : Payloads,
                                 url : Payloads \cup {Unsupported}])
          /\ mf.defect \in BOOLEAN
          /\ \A j, k \in DOMAIN mf.entries :
                mf.entries[j].model = mf.entries[k].model => j = k
    /\ NeededBy \subseteq SUBSET ModelFiles
    /\ MaxOps \in Nat /\ MaxFaults \in Nat

VARIABLES files,         \* what every model file holds
          lock,          \* the lockfile: a set with its manifest, {}, or Torn
          session,       \* ml_initialized, with the provider ready
          pc,            \* where the installation is, or "idle"
          run,           \* its manifest and whether it is forced
          i,             \* the entry it is at
          status,        \* what the last call returned
          inferred,      \* the models the last scan with inference asked for
          ops, faults,   \* how many of the bounded events there were
          foreign,       \* history: models last written by a crash or a user
          touched,       \* history: models written since the lockfile was
          intact         \* history: entries that held when the call began

vars == <<files, lock, session, pc, run, i, status, inferred, ops, faults, foreign, touched, intact>>

NoRun == [manifest |-> [entries |-> <<>>, defect |-> FALSE], force |-> FALSE]

Init ==
    /\ files = [m \in ModelFiles |-> Absent]
    /\ lock = {} /\ session = FALSE
    /\ pc = "idle" /\ run = NoRun /\ i = 0 /\ status = "none" /\ inferred = {}
    /\ ops = 0 /\ faults = 0
    /\ foreign = {} /\ touched = {} /\ intact = {}

Idle == pc = "idle" /\ ops < MaxOps /\ ops' = ops + 1

Fault == faults < MaxFaults /\ faults' = faults + 1

Entry == run.manifest.entries[i]

(* The call returns, and its working data with it. *)
Return(s) == pc' = "idle" /\ run' = NoRun /\ i' = 0 /\ status' = s

---------------------------------------------------------------------------
(* AppInstallModels *)

(* AppLoadModelManifest: every entry has its fields, a supported task and  *)
(* a well-formed digest, or nothing is loaded.                             *)
Loads(manifest) == ~manifest.defect

(* The directory is made and the manifest loaded. *)
BeginInstall ==
    /\ Idle
    /\ \E mf \in Manifests, force \in BOOLEAN :
          \/ /\ Loads(mf)
             /\ pc' = "next" /\ run' = [manifest |-> mf, force |-> force] /\ i' = 1
             /\ intact' = {e \in Entries(mf) : ~force /\ files[e.model] = e.sha}
             /\ UNCHANGED <<status, faults>>
          \/ ~Loads(mf) /\ Return("invalid_argument") /\ intact' = {} /\ UNCHANGED faults
          \/ Fault /\ Return("io_error") /\ intact' = {}
    /\ UNCHANGED <<inferred, files, lock, session, foreign, touched>>

(* The head of the loop: AppShouldCancel. *)
Cancel ==
    /\ pc = "next" /\ i <= Len(run.manifest.entries)
    /\ Fault
    /\ Return("cancelled")
    /\ UNCHANGED <<intact, inferred, files, lock, session, ops, foreign, touched>>

(* Mutant: a file that exists is taken for the right one. *)
ExistsAlready ==
    ~run.force /\ files[Entry.model] # Absent

(* The file is there and has the digest, and the download is not forced. *)
UpToDate == ~run.force /\ files[Entry.model] = Entry.sha

Skip ==
    /\ pc = "next" /\ i <= Len(run.manifest.entries)
    /\ UpToDate
    /\ i' = i + 1
    /\ UNCHANGED <<intact, inferred, files, lock, session, pc, run, status, ops, faults, foreign, touched>>

(* Only data URLs with a base64 payload are supported. *)
Decodes(url) == url # Unsupported

(* Mutant: a model that is there but wrong is not replaced. *)
NoReplacement ==
    /\ pc = "next" /\ i <= Len(run.manifest.entries)
    /\ ~UpToDate
    /\ IF files[Entry.model] = Absent
       THEN /\ files' = [files EXCEPT ![Entry.model] = Torn]
            /\ pc' = "write"
            /\ touched' = touched \cup {Entry.model}
            /\ UNCHANGED <<run, i, status>>
       ELSE /\ Return("io_error")
            /\ UNCHANGED <<files, touched>>
    /\ UNCHANGED <<intact, inferred, lock, session, ops, faults, foreign>>

(* DownloadModelFromDataUrl decodes, and WriteBytesToFile opens the model  *)
(* file itself for writing, which empties it.                              *)
Download ==
    /\ pc = "next" /\ i <= Len(run.manifest.entries)
    /\ ~UpToDate
    /\ \/ /\ Decodes(Entry.url)
          /\ files' = [files EXCEPT ![Entry.model] = Torn]
          /\ pc' = "write"
          /\ touched' = touched \cup {Entry.model}
          /\ foreign' = foreign \ {Entry.model}
          /\ UNCHANGED <<run, i, status, faults>>
       \/ /\ ~Decodes(Entry.url)
          /\ Return("io_error")
          /\ UNCHANGED <<files, faults, foreign, touched>>
       \/ /\ Fault                                       \* fopen fails
          /\ Return("io_error")
          /\ UNCHANGED <<files, foreign, touched>>
    /\ UNCHANGED <<intact, inferred, lock, session, ops>>

(* The payload is written, or what was written so far stays. *)
Write ==
    /\ pc = "write"
    /\ \/ /\ files' = [files EXCEPT ![Entry.model] = Entry.url]
          /\ pc' = "verify"
          /\ UNCHANGED <<run, i, status, faults>>
       \/ /\ Fault
          /\ Return("io_error")
          /\ UNCHANGED files
    /\ UNCHANGED <<intact, inferred, lock, session, ops, foreign, touched>>

(* Mutant: a model with a wrong digest is reported and kept. *)
KeepsWrong == files' = files

(* The model is removed. *)
RemoveModel == files' = [files EXCEPT ![Entry.model] = Absent]

(* The file is read back: the next model, or it is removed. *)
Verify ==
    /\ pc = "verify"
    /\ \/ /\ files[Entry.model] = Entry.sha
          /\ pc' = "next" /\ i' = i + 1
          /\ UNCHANGED <<files, run, status, faults>>
       \/ /\ files[Entry.model] # Entry.sha
          /\ RemoveModel
          /\ Return("io_error")
          /\ UNCHANGED faults
       \/ /\ Fault                                       \* it cannot be read
          /\ RemoveModel
          /\ Return("io_error")
    /\ UNCHANGED <<intact, inferred, lock, session, ops, foreign, touched>>

(* WriteInstalledLockfile opens the old lockfile for writing. *)
OpenLock ==
    /\ pc = "next" /\ i > Len(run.manifest.entries)
    /\ \/ /\ lock' = {Torn} /\ pc' = "lock"
          /\ UNCHANGED <<run, i, status, faults>>
       \/ /\ Fault
          /\ Return("io_error")
          /\ UNCHANGED lock
    /\ UNCHANGED <<intact, inferred, files, session, ops, foreign, touched>>

(* The lockfile is written, and AppReleaseMl closes the session; or the    *)
(* write fails.                                                            *)
LockWritten ==
    /\ lock' = {run.manifest} /\ session' = FALSE
    /\ touched' = {} /\ foreign' = foreign
    /\ Return("ok") /\ UNCHANGED faults

WriteLock ==
    /\ pc = "lock"
    /\ \/ LockWritten
       \/ Fault /\ Return("io_error") /\ UNCHANGED <<lock, session, foreign, touched>>
    /\ UNCHANGED <<intact, inferred, files, ops>>

---------------------------------------------------------------------------
(* The session *)

Present == {m \in ModelFiles : files[m] # Absent}

(* Mutant: the profile is made without looking at the models. *)
AlwaysFingerprints(needed) == TRUE

(* AppBuildRequestedCacheProfile hashes the models the request needs. *)
Fingerprints(needed) == needed \subseteq Present

(* AppEnsureMlReady: an open session is taken as it is; otherwise all the  *)
(* model files have to exist before MlInit opens one.  MlInit may fail.    *)
EnsureReady ==
    \/ session /\ UNCHANGED <<session, faults>>
    \/ ~session /\ Present = ModelFiles /\ session' = TRUE /\ UNCHANGED faults

(* AppRunScan with inference: the profile of the request, then the         *)
(* session, then inference with the models needed.                         *)
InferringScan ==
    /\ Idle
    /\ \E needed \in NeededBy :
          /\ inferred' = needed
          /\ \/ Fingerprints(needed) /\ EnsureReady /\ status' = "inferred"
             \/ /\ ~Fingerprints(needed)
                /\ status' = "io_error" /\ UNCHANGED <<session, faults>>
             \/ /\ Fingerprints(needed) /\ ~session /\ Present # ModelFiles
                /\ status' = "ml_error" /\ UNCHANGED <<session, faults>>
             \/ Fault /\ status' = "ml_error" /\ UNCHANGED session
    /\ UNCHANGED <<intact, files, lock, pc, run, i, foreign, touched>>

---------------------------------------------------------------------------
(* The world *)

(* The user puts a file into the directory or removes one. *)
UserEdit ==
    /\ Idle
    /\ \E m \in ModelFiles, p \in Payloads \cup {Absent} :
          /\ files' = [files EXCEPT ![m] = p]
          /\ foreign' = foreign \cup {m} /\ touched' = touched \cup {m}
    /\ status' = "none" /\ intact' = {}
    /\ UNCHANGED <<inferred, lock, session, pc, run, i, faults>>

(* The process ends, by itself when idle or cut short: the session is      *)
(* gone, and the file being written stays as it is.                        *)
Exit ==
    /\ IF pc = "idle" THEN session /\ faults' = faults ELSE Fault
    /\ session' = FALSE
    /\ Return("none")
    /\ foreign' = IF pc \in {"write", "verify"} THEN foreign \cup {Entry.model} ELSE foreign
    /\ UNCHANGED <<intact, inferred, files, lock, ops, touched>>

Install == Skip \/ Download \/ Write \/ Verify \/ OpenLock \/ WriteLock

Next == BeginInstall \/ Cancel \/ Install \/ InferringScan \/ UserEdit \/ Exit

(* The installer takes its next step. *)
Fairness == WF_vars(Install)

Safety == Init /\ [][Next]_vars

Spec == Safety /\ Fairness

---------------------------------------------------------------------------
(* Properties *)

Held == Payloads \cup {Absent, Torn}

(* The type invariant: the values are of their kinds, and the entry at     *)
(* hand is one of the manifest's.                                          *)
TypeOK ==
    /\ files \in [ModelFiles -> Held]
    /\ lock \in {{}, {Torn}} \cup {{mf} : mf \in Manifests}
    /\ session \in BOOLEAN
    /\ pc \in {"idle", "next", "write", "verify", "lock"}
    /\ (pc # "idle" => /\ run.manifest \in Manifests /\ run.force \in BOOLEAN
                       /\ i \in 1 .. Len(run.manifest.entries) + 1)
    /\ (pc \in {"write", "verify"} => i <= Len(run.manifest.entries))
    /\ ops \in 0 .. MaxOps /\ faults \in 0 .. MaxFaults
    /\ inferred \in {{}} \cup NeededBy
    /\ foreign \subseteq ModelFiles /\ touched \subseteq ModelFiles

(* No model stays that failed its check: whatever an installation came to, *)
(* a file that no crash and no user left holds a payload some manifest     *)
(* asks for, or nothing whole (InstallOneModel removes what it downloaded  *)
(* when the digest is wrong, after having written it in place).            *)
NoWrongModelStays ==
    pc = "idle" => \A m \in ModelFiles \ foreign :
        files[m] \in Payloads =>
            \E mf \in Manifests : \E e \in Entries(mf) : e.model = m /\ e.sha = files[m]

(* What the lockfile says is installed is what is there, except for models *)
(* written since: a lockfile is only written once every file was read back *)
(* or found to have the digest, and a failed installation leaves the old.  *)
LockfileIsTrue ==
    \A mf \in lock \ {Torn} : \A e \in Entries(mf) :
        e.model \notin touched => files[e.model] = e.sha

(* An installation that returned OK installed all of its manifest, wrote   *)
(* its lockfile and left no session that was opened before.                *)
OkMeansInstalled ==
    pc = "idle" /\ status = "ok" =>
        /\ ~session
        /\ \E mf \in lock \ {Torn} : \A e \in Entries(mf) : files[e.model] = e.sha

(* An installation that is not forced, whatever it comes to, leaves every  *)
(* model alone that had its digest when it began: a failed or cancelled    *)
(* one can only have changed models that were missing or wrong.            *)
VerifiedIsKept == \A e \in intact : files[e.model] = e.sha

(* No inference without its models: a session stays open when a later      *)
(* installation removes a model, and the scan is still refused, because    *)
(* its profile needs the digest of every model it asks for.                *)
InferenceHasItsModels ==
    pc = "idle" /\ status = "inferred" => inferred \subseteq Present

(* The manifest delivers what it promises. *)
Sound(manifest) == \A e \in Entries(manifest) : e.url = e.sha

(* Whatever crashes, cancellations and users left behind, an installation  *)
(* of a manifest that delivers what it promises succeeds when nothing more *)
(* fails.                                                                  *)
InstallRepairs ==
    (pc # "idle" /\ Sound(run.manifest) /\ faults = MaxFaults) ~> (pc = "idle" /\ status = "ok")
---------------------------------------------------------------------------
(* What makes the invariants inductive *)

InPlace == pc \in {"write", "verify"}

(* A model is written in place only from a URL that decodes, and is then   *)
(* neither a user's nor what the lockfile says; the lockfile comes last.   *)
StepOK ==
    /\ InPlace => Decodes(Entry.url) /\ Entry.model \in touched /\ Entry.model \notin foreign
    /\ pc = "lock" => i > Len(run.manifest.entries)

(* The entries before the one at hand hold. *)
DoneSoFar ==
    pc # "idle" => \A k \in DOMAIN run.manifest.entries :
        k < i => files[run.manifest.entries[k].model] = run.manifest.entries[k].sha

(* NoWrongModelStays at every step: only the model that is yet to be read  *)
(* back may be one no manifest asks for.                                   *)
OthersAreClaimed ==
    \A m \in ModelFiles \ foreign :
        files[m] \in Payloads =>
            \/ pc = "verify" /\ m = Entry.model
            \/ \E mf \in Manifests : \E e \in Entries(mf) : e.model = m /\ e.sha = files[m]

(* The model at hand is none of those that held when the call began. *)
IntactOK ==
    /\ pc # "idle" => intact \subseteq Entries(run.manifest) /\ (run.force => intact = {})
    /\ InPlace => \A e \in intact : e.model # Entry.model

ModelsInv ==
    /\ StepOK /\ DoneSoFar /\ OthersAreClaimed /\ IntactOK
    /\ VerifiedIsKept /\ LockfileIsTrue /\ OkMeansInstalled /\ InferenceHasItsModels
=============================================================================
