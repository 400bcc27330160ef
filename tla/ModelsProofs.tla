---------------------------- MODULE ModelsProofs ----------------------------
(***************************************************************************)
(* Proofs about the installation of models, for all manifests and models   *)
(* and without a bound on operations, failures or crashes.                 *)
(***************************************************************************)
EXTENDS Models, SequenceTheorems, TLAPS

(* The actions one by one. *)
LEMMA NextCases ==
    ASSUME [Next]_vars
    PROVE  \/ BeginInstall \/ Cancel \/ Skip \/ Download \/ Write \/ Verify
           \/ OpenLock \/ WriteLock \/ InferringScan \/ UserEdit \/ Exit
           \/ UNCHANGED vars
  BY DEF Next, Install

EntryType == [model : ModelFiles, sha : Payloads, url : Payloads \cup {Unsupported}]

LEMMA ManifestType ==
    ASSUME NEW mf \in Manifests
    PROVE  /\ mf.entries \in Seq(EntryType)
           /\ Len(mf.entries) \in Nat
           /\ DOMAIN mf.entries = 1 .. Len(mf.entries)
           /\ \A k \in DOMAIN mf.entries : mf.entries[k] \in EntryType
           /\ \A j, k \in DOMAIN mf.entries :
                mf.entries[j].model = mf.entries[k].model => j = k
  <1>1. mf.entries \in Seq(EntryType)
    BY ModelsAssumption DEF EntryType
  <1>2. /\ Len(mf.entries) \in Nat
        /\ DOMAIN mf.entries = 1 .. Len(mf.entries)
        /\ \A k \in DOMAIN mf.entries : mf.entries[k] \in EntryType
    BY <1>1
  <1>. QED BY <1>1, <1>2, ModelsAssumption

(* The entry at hand, and that no other names its model. *)
LEMMA EntryAtHand ==
    ASSUME TypeOK, pc # "idle", i <= Len(run.manifest.entries)
    PROVE  /\ Entry.model \in ModelFiles /\ Entry.sha \in Payloads
           /\ Entry.url \in Payloads \cup {Unsupported}
           /\ Entry \in Entries(run.manifest)
           /\ i \in DOMAIN run.manifest.entries
           /\ \A e \in Entries(run.manifest) : e.model = Entry.model => e = Entry
  <1>1. run.manifest \in Manifests /\ i \in 1 .. Len(run.manifest.entries) + 1
    BY DEF TypeOK
  <1>2. i \in DOMAIN run.manifest.entries
    BY <1>1, ManifestType
  <1>3. run.manifest.entries[i] \in EntryType
    BY <1>1, <1>2, ManifestType
  <1>4. \A e \in Entries(run.manifest) : e.model = Entry.model => e = Entry
    BY <1>1, <1>2, ManifestType DEF Entries, Entry
  <1>. QED BY <1>2, <1>3, <1>4 DEF Entry, EntryType, Entries
-----------------------------------------------------------------------------
(* Kinds.                                                                  *)

LEMMA KindsInit == Init => TypeOK
  <1>. SUFFICES ASSUME Init PROVE TypeOK
    OBVIOUS
  <1>1. files \in [ModelFiles -> Held]
    BY DEF Init, Held
  <1>2. lock \in {{}, {Torn}} \cup {{mf} : mf \in Manifests} /\ session \in BOOLEAN
    BY Zenon DEF Init
  <1>3. ops \in 0 .. MaxOps /\ faults \in 0 .. MaxFaults
    BY ModelsAssumption DEF Init
  <1>4. /\ pc = "idle" /\ inferred \in {{}} \cup NeededBy
        /\ foreign \subseteq ModelFiles /\ touched \subseteq ModelFiles
    BY DEF Init
  <1>. QED BY <1>1, <1>2, <1>3, <1>4 DEF TypeOK

LEMMA KindsStep == TypeOK /\ StepOK /\ [Next]_vars => TypeOK'
  <1>. SUFFICES ASSUME TypeOK, StepOK, [Next]_vars PROVE TypeOK'
    OBVIOUS
  <1>. USE ModelsAssumption DEF TypeOK, Held, Return, Idle, Fault
  <1>1. CASE BeginInstall
    BY <1>1, ManifestType DEF BeginInstall
  <1>2. CASE Cancel
    BY <1>2 DEF Cancel
  <1>3. CASE Skip
    BY <1>3, ManifestType DEF Skip
  <1>4. CASE Download
    BY <1>4, EntryAtHand DEF Download
  <1>5. CASE Write
    <2>1. pc = "write" /\ UNCHANGED <<inferred, lock, session, ops, foreign, touched>>
      BY <1>5 DEF Write
    <2>2. Entry.url \in Held
      BY <2>1, EntryAtHand DEF StepOK, InPlace, Decodes, EntryType
    <2>3. CASE /\ files' = [files EXCEPT ![Entry.model] = Entry.url] /\ pc' = "verify"
               /\ UNCHANGED <<run, i, faults>>
      BY <2>1, <2>2, <2>3, EntryAtHand
    <2>4. CASE Fault /\ Return("io_error") /\ UNCHANGED files
      BY <2>1, <2>4
    <2> QED BY <1>5, <2>3, <2>4 DEF Write
  <1>6. CASE Verify
    <2>1. pc = "verify" /\ UNCHANGED <<inferred, lock, session, ops, foreign, touched>>
      BY <1>6 DEF Verify
    <2>2. CASE UNCHANGED <<files, run, status, faults>> /\ pc' = "next" /\ i' = i + 1
      BY <2>1, <2>2, EntryAtHand, ManifestType
    <2>3. CASE RemoveModel /\ Return("io_error") /\ (Fault \/ UNCHANGED faults)
      BY <2>1, <2>3, EntryAtHand, ManifestType DEF RemoveModel
    <2> QED BY <1>6, <2>2, <2>3 DEF Verify
  <1>7. CASE OpenLock
    BY <1>7 DEF OpenLock
  <1>8. CASE WriteLock
    <2>1. pc = "lock" /\ UNCHANGED <<inferred, files, ops>>
      BY <1>8 DEF WriteLock
    <2>2. CASE LockWritten
      <3>1. lock' \in {{mf} : mf \in Manifests}
        BY <2>1, <2>2 DEF LockWritten
      <3>2. /\ pc' = "idle" /\ session' = FALSE /\ touched' = {}
            /\ UNCHANGED <<foreign, faults>>
        BY <2>2 DEF LockWritten
      <3>. QED BY <2>1, <3>1, <3>2
    <2>3. CASE Fault /\ Return("io_error") /\ UNCHANGED <<lock, session, foreign, touched>>
      BY <2>1, <2>3
    <2>. QED BY <1>8, <2>2, <2>3 DEF WriteLock
  <1>9. CASE InferringScan
    <2>1. session' \in BOOLEAN
      BY <1>9, Zenon DEF InferringScan, EnsureReady
    <2>2. ops' \in 0 .. MaxOps
      BY <1>9 DEF InferringScan
    <2>3. faults' \in 0 .. MaxFaults /\ inferred' \in {{}} \cup NeededBy
      BY <1>9 DEF InferringScan, EnsureReady
    <2>4. UNCHANGED <<files, lock, pc, run, i, foreign, touched>>
      BY <1>9 DEF InferringScan
    <2>. QED BY <2>1, <2>2, <2>3, <2>4
  <1>10. CASE UserEdit
    BY <1>10 DEF UserEdit
  <1>11. CASE Exit
    <2>1. foreign' \subseteq ModelFiles
      BY <1>11, EntryAtHand DEF Exit
    <2>2. faults' \in 0 .. MaxFaults
      BY <1>11 DEF Exit
    <2>3. pc' = "idle" /\ session' = FALSE /\ UNCHANGED <<inferred, files, lock, ops, touched>>
      BY <1>11 DEF Exit
    <2>. QED BY <2>1, <2>2, <2>3
  <1>12. CASE UNCHANGED vars
    BY <1>12 DEF vars
  <1>. QED BY <1>1, <1>2, <1>3, <1>4, <1>5, <1>6, <1>7, <1>8, <1>9, <1>10, <1>11,
              <1>12, NextCases
-----------------------------------------------------------------------------
(* Each part of the inductive invariant, action by action.                 *)

LEMMA StepIsOK == TypeOK /\ StepOK /\ [Next]_vars => StepOK'
  <1>. SUFFICES ASSUME TypeOK, StepOK, [Next]_vars PROVE StepOK'
    OBVIOUS
  <1>. USE DEF StepOK, InPlace, Return
  <1>1. CASE Download
    <2>1. CASE pc' = "write"
      <3>1. Entry' = Entry /\ Decodes(Entry.url)
        BY <1>1, <2>1 DEF Download, Entry
      <3>2. Entry.model \in touched' /\ Entry.model \notin foreign'
        BY <1>1, <2>1 DEF Download
      <3>. QED BY <2>1, <3>1, <3>2
    <2>2. CASE pc' # "write"
      BY <1>1, <2>2 DEF Download
    <2>. QED BY <2>1, <2>2
  <1>2. CASE Write
    <2>1. pc = "write" /\ UNCHANGED <<foreign, touched>> /\ pc' \in {"verify", "idle"}
      BY <1>2 DEF Write
    <2>2. pc' = "verify" => Entry' = Entry
      BY <1>2 DEF Write, Entry
    <2>. QED BY <2>1, <2>2
  <1>3. CASE Verify
    BY <1>3 DEF Verify
  <1>4. CASE OpenLock
    BY <1>4 DEF OpenLock, TypeOK
  <1>5. CASE BeginInstall
    BY <1>5 DEF BeginInstall
  <1>6. CASE Cancel \/ Skip \/ WriteLock \/ Exit
    BY <1>6 DEF Cancel, Skip, WriteLock, LockWritten, Exit
  <1>7. CASE InferringScan \/ UserEdit
    BY <1>7 DEF InferringScan, UserEdit, Idle
  <1>8. CASE UNCHANGED vars
    BY <1>8 DEF vars, Entry
  <1>. QED BY <1>1, <1>2, <1>3, <1>4, <1>5, <1>6, <1>7, <1>8, NextCases

LEMMA DoneIsDone == TypeOK /\ DoneSoFar /\ [Next]_vars => DoneSoFar'
  <1>. SUFFICES ASSUME TypeOK, DoneSoFar, [Next]_vars PROVE DoneSoFar'
    OBVIOUS
  <1>. USE DEF DoneSoFar, Return
  <1>1. CASE BeginInstall
    BY <1>1, ManifestType DEF BeginInstall
  <1>2. CASE Skip
    <2>1. /\ pc # "idle" /\ files[Entry.model] = Entry.sha /\ i' = i + 1
          /\ UNCHANGED <<run, files, pc>>
      BY <1>2 DEF Skip, UpToDate
    <2>2. run.manifest \in Manifests /\ i \in Nat
      BY <2>1 DEF TypeOK
    <2>. QED BY <2>1, <2>2, ManifestType DEF Entry
  <1>3. ASSUME pc # "idle", i <= Len(run.manifest.entries), UNCHANGED <<run, i>>,
               \A m \in ModelFiles \ {Entry.model} : files'[m] = files[m]
        PROVE  DoneSoFar'
    <2>1. run.manifest \in Manifests /\ i \in Nat
      BY <1>3 DEF TypeOK
    <2>2. \A k \in DOMAIN run.manifest.entries :
             k < i => run.manifest.entries[k].model \in ModelFiles \ {Entry.model}
      <3>1. i \in DOMAIN run.manifest.entries
        BY <1>3, EntryAtHand
      <3>2. TAKE k \in DOMAIN run.manifest.entries
      <3>3. HAVE k < i
      <3>4. run.manifest.entries[k].model \in ModelFiles
        BY <2>1, ManifestType DEF EntryType
      <3>5. k # i
        BY <2>1, <3>3, ManifestType
      <3>6. run.manifest.entries[k].model # run.manifest.entries[i].model
        BY <2>1, <3>1, <3>5, ManifestType
      <3>. QED BY <3>4, <3>6 DEF Entry
    <2>. QED BY <1>3, <2>1, <2>2
  <1>4. CASE Download
    <2>1. CASE pc' = "idle"
      BY <2>1
    <2>2. CASE pc' # "idle"
      <3>1. /\ pc # "idle" /\ i <= Len(run.manifest.entries) /\ UNCHANGED <<run, i>>
            /\ files' = [files EXCEPT ![Entry.model] = Torn]
        BY <1>4, <2>2 DEF Download
      <3>. QED BY <1>3, <3>1 DEF TypeOK
    <2>. QED BY <2>1, <2>2
  <1>5. CASE Write
    <2>1. CASE pc' = "idle"
      BY <2>1
    <2>2. CASE pc' # "idle"
      <3>1. /\ pc = "write" /\ UNCHANGED <<run, i>>
            /\ files' = [files EXCEPT ![Entry.model] = Entry.url]
        BY <1>5, <2>2 DEF Write
      <3>. QED BY <1>3, <3>1 DEF TypeOK
    <2>. QED BY <2>1, <2>2
  <1>6. CASE Verify
    <2>1. CASE pc' = "idle"
      BY <2>1
    <2>2. CASE pc' # "idle"
      <3>1. /\ pc = "verify" /\ files[Entry.model] = Entry.sha /\ i' = i + 1
            /\ UNCHANGED <<run, files>>
        BY <1>6, <2>2 DEF Verify
      <3>2. run.manifest \in Manifests /\ i \in Nat
        BY <3>1 DEF TypeOK
      <3>. QED BY <3>1, <3>2, ManifestType DEF Entry
    <2>. QED BY <2>1, <2>2
  <1>7. CASE OpenLock
    BY <1>7 DEF OpenLock
  <1>8. CASE Cancel \/ WriteLock \/ Exit
    BY <1>8 DEF Cancel, WriteLock, LockWritten, Exit
  <1>9. CASE InferringScan \/ UserEdit
    BY <1>9 DEF InferringScan, UserEdit, Idle
  <1>10. CASE UNCHANGED vars
    BY <1>10 DEF vars
  <1>. QED BY <1>1, <1>2, <1>4, <1>5, <1>6, <1>7, <1>8, <1>9, <1>10, NextCases

(* What a step does to the files and to the models that were touched. *)
LEMMA OneFileChanges ==
    ASSUME TypeOK, StepOK, [Next]_vars
    PROVE  \/ UNCHANGED files /\ touched \subseteq touched' /\ ~WriteLock
           \/ UNCHANGED files /\ WriteLock
           \/ UserEdit
           \/ /\ Download \/ Write \/ Verify
              /\ pc # "idle" /\ i <= Len(run.manifest.entries)
              /\ Entry.model \in touched' /\ touched \subseteq touched'
              /\ \A m \in ModelFiles \ {Entry.model} : files'[m] = files[m]
  <1>1. CASE Download
    <2>1. pc # "idle" /\ i <= Len(run.manifest.entries)
      BY <1>1 DEF Download
    <2>2. CASE UNCHANGED files
      BY <1>1, <2>2 DEF Download, WriteLock
    <2>3. CASE ~UNCHANGED files
      <3>1. files' = [files EXCEPT ![Entry.model] = Torn] /\ touched' = touched \cup {Entry.model}
        BY <1>1, <2>3 DEF Download
      <3>. QED BY <1>1, <2>1, <3>1 DEF TypeOK
    <2>. QED BY <2>2, <2>3
  <1>2. CASE Write
    <2>1. /\ pc # "idle" /\ i <= Len(run.manifest.entries)
          /\ Entry.model \in touched /\ touched' = touched
      BY <1>2 DEF Write, TypeOK, StepOK, InPlace
    <2>2. files' = files \/ files' = [files EXCEPT ![Entry.model] = Entry.url]
      BY <1>2 DEF Write
    <2>. QED BY <1>2, <2>1, <2>2 DEF TypeOK
  <1>3. CASE Verify
    <2>1. /\ pc # "idle" /\ i <= Len(run.manifest.entries)
          /\ Entry.model \in touched /\ touched' = touched
      BY <1>3 DEF Verify, TypeOK, StepOK, InPlace
    <2>2. files' = files \/ files' = [files EXCEPT ![Entry.model] = Absent]
      BY <1>3 DEF Verify, RemoveModel
    <2>. QED BY <1>3, <2>1, <2>2 DEF TypeOK
  <1>4. CASE WriteLock
    BY <1>4 DEF WriteLock
  <1>5. CASE BeginInstall \/ Cancel \/ Skip
    <2>1. pc # "lock" /\ UNCHANGED <<files, touched>>
      BY <1>5 DEF BeginInstall, Cancel, Skip, Idle
    <2>. QED BY <2>1 DEF WriteLock
  <1>6. CASE OpenLock \/ InferringScan
    <2>1. pc # "lock" /\ UNCHANGED <<files, touched>>
      BY <1>6 DEF OpenLock, InferringScan, Idle
    <2>. QED BY <2>1 DEF WriteLock
  <1>7. CASE Exit \/ UNCHANGED vars
    BY <1>7 DEF Exit, vars
  <1>. QED BY <1>1, <1>2, <1>3, <1>4, <1>5, <1>6, <1>7, NextCases

LEMMA LockStaysTrue ==
    TypeOK /\ StepOK /\ DoneSoFar /\ LockfileIsTrue /\ [Next]_vars => LockfileIsTrue'
  <1>. SUFFICES ASSUME TypeOK, StepOK, DoneSoFar, LockfileIsTrue, [Next]_vars,
                       NEW mf \in lock' \ {Torn}, NEW e \in Entries(mf), e.model \notin touched'
                PROVE  files'[e.model] = e.sha
    BY DEF LockfileIsTrue
  <1>1. CASE WriteLock /\ LockWritten
    <2>1. /\ mf = run.manifest /\ UNCHANGED files
          /\ pc = "lock" /\ i > Len(run.manifest.entries)
      BY <1>1 DEF WriteLock, LockWritten, StepOK
    <2>2. run.manifest \in Manifests /\ i \in Nat
      BY <2>1 DEF TypeOK
    <2>3. PICK k \in DOMAIN mf.entries : e = mf.entries[k]
      BY DEF Entries
    <2>4. k < i
      BY <2>1, <2>2, <2>3, ManifestType
    <2>. QED BY <2>1, <2>3, <2>4 DEF DoneSoFar
  <1>2. CASE ~(WriteLock /\ LockWritten)
    <2>1. WriteLock => UNCHANGED <<lock, touched, files>>
      BY <1>2 DEF WriteLock
    <2>2. lock' = lock \/ lock' = {Torn}
      <3>1. CASE OpenLock
        BY <3>1 DEF OpenLock
      <3>2. CASE BeginInstall \/ Cancel \/ Skip \/ Download
        BY <3>2 DEF BeginInstall, Cancel, Skip, Download
      <3>3. CASE Write \/ Verify
        BY <3>3 DEF Write, Verify
      <3>4. CASE InferringScan \/ UserEdit \/ Exit \/ UNCHANGED vars
        BY <3>4 DEF InferringScan, UserEdit, Exit, vars
      <3>. QED BY <2>1, <3>1, <3>2, <3>3, <3>4, NextCases
    <2>3. mf \in Manifests /\ e.model \in ModelFiles
      BY <2>2, ManifestType DEF TypeOK, Entries, EntryType
    <2>4. e.model \notin touched => files[e.model] = e.sha
      BY <2>2 DEF LockfileIsTrue
    <2>5. CASE UserEdit
      <3>1. PICK m \in ModelFiles, p \in Payloads \cup {Absent} :
               files' = [files EXCEPT ![m] = p] /\ touched' = touched \cup {m}
        BY <2>5 DEF UserEdit
      <3>. QED BY <2>3, <2>4, <3>1 DEF TypeOK
    <2>6. CASE UNCHANGED files /\ touched \subseteq touched'
      BY <2>4, <2>6
    <2>7. CASE /\ Entry.model \in touched' /\ touched \subseteq touched'
               /\ \A m \in ModelFiles \ {Entry.model} : files'[m] = files[m]
      BY <2>3, <2>4, <2>7
    <2>. QED BY <2>1, <2>4, <2>5, <2>6, <2>7, OneFileChanges
  <1>. QED BY <1>1, <1>2

LEMMA OthersStayClaimed ==
    TypeOK /\ StepOK /\ OthersAreClaimed /\ [Next]_vars => OthersAreClaimed'
  <1>. DEFINE Claimed(m, p) == \E mf \in Manifests : \E e \in Entries(mf) : e.model = m /\ e.sha = p
  <1>. SUFFICES ASSUME TypeOK, StepOK, OthersAreClaimed, [Next]_vars,
                       NEW m \in ModelFiles \ foreign', files'[m] \in Payloads,
                       ~(pc' = "verify" /\ m = Entry.model')
                PROVE  Claimed(m, files'[m])
    BY DEF OthersAreClaimed
  <1>0. m \notin foreign /\ files[m] \in Payloads /\ ~(pc = "verify" /\ m = Entry.model)
          => Claimed(m, files[m])
    BY DEF OthersAreClaimed
  <1>1. CASE Download
    <2>1. CASE UNCHANGED <<files, foreign>>
      BY <1>0, <1>1, <2>1 DEF Download
    <2>2. CASE ~UNCHANGED <<files, foreign>>
      <3>1. /\ pc = "next" /\ files' = [files EXCEPT ![Entry.model] = Torn]
            /\ foreign' = foreign \ {Entry.model}
        BY <1>1, <2>2 DEF Download
      <3>2. m # Entry.model
        BY <3>1, ModelsAssumption DEF TypeOK
      <3>. QED BY <1>0, <3>1, <3>2
    <2>. QED BY <2>1, <2>2
  <1>2. CASE Write
    <2>1. pc = "write" /\ UNCHANGED foreign
      BY <1>2 DEF Write
    <2>2. CASE UNCHANGED files
      BY <1>0, <2>1, <2>2
    <2>3. CASE ~UNCHANGED files
      <3>1. /\ files' = [files EXCEPT ![Entry.model] = Entry.url] /\ pc' = "verify"
            /\ UNCHANGED <<run, i>>
        BY <1>2, <2>3 DEF Write
      <3>2. m # Entry.model
        BY <3>1 DEF Entry
      <3>. QED BY <1>0, <2>1, <3>1, <3>2
    <2>. QED BY <2>2, <2>3
  <1>3. CASE Verify
    <2>1. pc = "verify" /\ UNCHANGED foreign /\ i <= Len(run.manifest.entries)
      BY <1>3 DEF Verify, TypeOK
    <2>2. /\ Entry \in Entries(run.manifest) /\ run.manifest \in Manifests
          /\ Entry.model \in ModelFiles
      BY <2>1, EntryAtHand DEF TypeOK
    <2>3. CASE m # Entry.model
      <3>1. UNCHANGED files \/ files' = [files EXCEPT ![Entry.model] = Absent]
        BY <1>3 DEF Verify, RemoveModel
      <3>2. files'[m] = files[m]
        BY <2>2, <2>3, <3>1 DEF TypeOK
      <3>. QED BY <1>0, <2>1, <2>3, <3>2
    <2>4. CASE m = Entry.model
      <3>1. files' # [files EXCEPT ![Entry.model] = Absent]
        BY <2>4, ModelsAssumption DEF TypeOK
      <3>2. files[Entry.model] = Entry.sha /\ UNCHANGED files
        BY <1>3, <3>1 DEF Verify, RemoveModel
      <3>. QED BY <2>2, <2>4, <3>2
    <2>. QED BY <2>3, <2>4
  <1>4. CASE UserEdit
    <2>1. PICK n \in ModelFiles, p \in Payloads \cup {Absent} :
             files' = [files EXCEPT ![n] = p] /\ foreign' = foreign \cup {n}
      BY <1>4 DEF UserEdit
    <2>2. pc = "idle"
      BY <1>4 DEF UserEdit, Idle
    <2>. QED BY <1>0, <2>1, <2>2
  <1>5. CASE Exit
    <2>1. UNCHANGED files /\ foreign \subseteq foreign'
          /\ (pc = "verify" => Entry.model \in foreign')
      BY <1>5 DEF Exit
    <2>. QED BY <1>0, <2>1
  <1>6. CASE \/ BeginInstall \/ Cancel \/ Skip \/ OpenLock \/ WriteLock
             \/ InferringScan
    <2>1. pc # "verify" /\ UNCHANGED <<files, foreign>>
      BY <1>6 DEF BeginInstall, Cancel, Skip, OpenLock, WriteLock, LockWritten,
                  InferringScan, Idle
    <2>. QED BY <1>0, <2>1
  <1>7. CASE UNCHANGED vars
    BY <1>0, <1>7 DEF vars, Entry
  <1>. QED BY <1>1, <1>2, <1>3, <1>4, <1>5, <1>6, <1>7, NextCases

LEMMA IntactStays ==
    TypeOK /\ StepOK /\ IntactOK /\ VerifiedIsKept /\ [Next]_vars
      => IntactOK' /\ VerifiedIsKept'
  <1>. SUFFICES ASSUME TypeOK, StepOK, IntactOK, VerifiedIsKept, [Next]_vars
                PROVE  IntactOK' /\ VerifiedIsKept'
    OBVIOUS
  <1>. USE DEF IntactOK, VerifiedIsKept, InPlace
  <1>1. CASE BeginInstall
    BY <1>1 DEF BeginInstall, Return
  <1>2. CASE Download
    <2>1. pc = "next" /\ UNCHANGED intact /\ i <= Len(run.manifest.entries) /\ ~UpToDate
      BY <1>2 DEF Download
    <2>2. \A e \in intact : e.model # Entry.model
      <3>1. TAKE e \in intact
      <3>2. e \in Entries(run.manifest) /\ ~run.force /\ files[e.model] = e.sha
        BY <2>1
      <3>. QED BY <2>1, <3>2, EntryAtHand DEF UpToDate
    <2>3. CASE UNCHANGED files
      BY <1>2, <2>1, <2>2, <2>3 DEF Download, Entry, Return
    <2>4. CASE ~UNCHANGED files
      <3>1. /\ files' = [files EXCEPT ![Entry.model] = Torn] /\ pc' = "write"
            /\ UNCHANGED <<run, i>>
        BY <1>2, <2>4 DEF Download
      <3>2. \A e \in intact : e.model \in ModelFiles
        BY <2>1, ManifestType DEF TypeOK, Entries, EntryType
      <3>3. \A e \in intact : files'[e.model] = files[e.model]
        BY <2>2, <3>1, <3>2 DEF TypeOK
      <3>4. Entry' = Entry
        BY <3>1 DEF Entry
      <3>. QED BY <2>1, <2>2, <3>1, <3>3, <3>4
    <2>. QED BY <2>3, <2>4
  <1>3. CASE Write \/ Verify
    <2>1. InPlace /\ UNCHANGED intact
      BY <1>3 DEF Write, Verify
    <2>2. \A e \in intact : e.model \in ModelFiles \ {Entry.model}
      BY <2>1, ManifestType DEF TypeOK, Entries, EntryType
    <2>3. \A e \in intact : files'[e.model] = files[e.model]
      <3>1. \A n \in ModelFiles \ {Entry.model} : files'[n] = files[n]
        BY <1>3 DEF Write, Verify, RemoveModel, TypeOK
      <3>. QED BY <2>2, <3>1
    <2>4. /\ pc' # "idle" => run' = run
          /\ InPlace' => Entry' = Entry
      BY <1>3 DEF Write, Verify, Return, Entry
    <2>. QED BY <2>1, <2>2, <2>3, <2>4
  <1>4. CASE Skip \/ OpenLock
    BY <1>4 DEF Skip, OpenLock, Return
  <1>5. CASE Cancel \/ WriteLock \/ Exit
    BY <1>5 DEF Cancel, WriteLock, LockWritten, Exit, Return
  <1>6. CASE InferringScan \/ UserEdit
    BY <1>6 DEF InferringScan, UserEdit, Idle
  <1>7. CASE UNCHANGED vars
    BY <1>7 DEF vars, Entry
  <1>. QED BY <1>1, <1>2, <1>3, <1>4, <1>5, <1>6, <1>7, NextCases

LEMMA OkStaysInstalled ==
    TypeOK /\ StepOK /\ DoneSoFar /\ OkMeansInstalled /\ [Next]_vars => OkMeansInstalled'
  <1>. SUFFICES ASSUME TypeOK, StepOK, DoneSoFar, OkMeansInstalled, [Next]_vars,
                       pc' = "idle", status' = "ok"
                PROVE  /\ ~session'
                       /\ \E mf \in lock' \ {Torn} : \A e \in Entries(mf) : files'[e.model] = e.sha
    BY DEF OkMeansInstalled
  <1>1. CASE WriteLock
    <2>1. /\ pc = "lock" /\ i > Len(run.manifest.entries)
          /\ session' = FALSE /\ lock' = {run.manifest} /\ UNCHANGED files
      BY <1>1 DEF WriteLock, LockWritten, StepOK, Return
    <2>2. run.manifest \in Manifests /\ i \in Nat
      BY <2>1 DEF TypeOK
    <2>3. \A e \in Entries(run.manifest) : files[e.model] = e.sha
      <3>1. TAKE e \in Entries(run.manifest)
      <3>2. PICK k \in DOMAIN run.manifest.entries : e = run.manifest.entries[k]
        BY DEF Entries
      <3>3. k < i
        BY <2>1, <2>2, <3>2, ManifestType
      <3>. QED BY <2>1, <3>2, <3>3 DEF DoneSoFar
    <2>4. run.manifest \in lock' \ {Torn}
      BY <2>1, <2>2, ModelsAssumption
    <2>. QED BY <2>1, <2>3, <2>4
  <1>2. CASE UNCHANGED vars
    BY <1>2 DEF vars, OkMeansInstalled
  <1>3. CASE BeginInstall \/ Cancel \/ Skip \/ Download
    BY <1>3 DEF BeginInstall, Cancel, Skip, Download, Return
  <1>4. CASE Write \/ Verify \/ OpenLock
    BY <1>4 DEF Write, Verify, OpenLock, Return
  <1>5. CASE InferringScan \/ UserEdit \/ Exit
    BY <1>5 DEF InferringScan, UserEdit, Exit, Return
  <1>. QED BY <1>1, <1>2, <1>3, <1>4, <1>5, NextCases

LEMMA InferenceKeepsItsModels ==
    TypeOK /\ InferenceHasItsModels /\ [Next]_vars => InferenceHasItsModels'
  <1>. SUFFICES ASSUME TypeOK, InferenceHasItsModels, [Next]_vars,
                       pc' = "idle", status' = "inferred"
                PROVE  inferred' \subseteq Present'
    BY DEF InferenceHasItsModels
  <1>1. CASE InferringScan
    <2>1. Fingerprints(inferred') /\ UNCHANGED files
      BY <1>1 DEF InferringScan
    <2>. QED BY <2>1 DEF Fingerprints, Present
  <1>2. CASE UNCHANGED vars
    BY <1>2 DEF vars, InferenceHasItsModels, Present
  <1>3. CASE BeginInstall \/ Cancel \/ Skip \/ Download
    BY <1>3 DEF BeginInstall, Cancel, Skip, Download, Return
  <1>4. CASE Write \/ Verify \/ OpenLock \/ WriteLock
    BY <1>4 DEF Write, Verify, OpenLock, WriteLock, LockWritten, Return
  <1>5. CASE UserEdit \/ Exit
    BY <1>5 DEF UserEdit, Exit, Return
  <1>. QED BY <1>1, <1>2, <1>3, <1>4, <1>5, NextCases
-----------------------------------------------------------------------------
LEMMA InvInit == Init => ModelsInv
  BY ModelsAssumption
  DEF Init, ModelsInv, StepOK, InPlace, DoneSoFar, OthersAreClaimed, IntactOK,
      VerifiedIsKept, LockfileIsTrue, OkMeansInstalled, InferenceHasItsModels

LEMMA InvStep == TypeOK /\ ModelsInv /\ [Next]_vars => ModelsInv'
  BY StepIsOK, DoneIsDone, OthersStayClaimed, IntactStays, LockStaysTrue,
     OkStaysInstalled, InferenceKeepsItsModels
  DEF ModelsInv

LEMMA Inductive == Safety => [](TypeOK /\ ModelsInv)
  <1>1. Init => TypeOK /\ ModelsInv
    BY KindsInit, InvInit
  <1>2. TypeOK /\ ModelsInv /\ [Next]_vars => (TypeOK /\ ModelsInv)'
    BY KindsStep, InvStep DEF ModelsInv
  <1>. QED BY <1>1, <1>2, PTL DEF Safety

(* The files, the lockfile and the installer's place in its manifest are   *)
(* of their kinds, for every set of manifests (AppInstallModels).          *)
THEOREM TypeCorrect == Spec => []TypeOK
  BY Inductive, PTL DEF Spec

(* Whatever an installation came to, no model stays that failed its check, *)
(* except where a crash or a user left one (InstallOneModel).              *)
THEOREM WrongModelsAreRemoved == Spec => []NoWrongModelStays
  <1>1. ModelsInv => NoWrongModelStays
    BY DEF ModelsInv, OthersAreClaimed, NoWrongModelStays
  <1>. QED BY <1>1, Inductive, PTL DEF Spec

(* The lockfile names what is installed, except for models written since   *)
(* (WriteInstalledLockfile).                                               *)
THEOREM LockfileStaysTrue == Spec => []LockfileIsTrue
  <1>1. ModelsInv => LockfileIsTrue
    BY DEF ModelsInv
  <1>. QED BY <1>1, Inductive, PTL DEF Spec

(* After OK, all of the manifest is installed, the lockfile says so and    *)
(* the old session is closed (AppInstallModels).                           *)
THEOREM SuccessIsComplete == Spec => []OkMeansInstalled
  <1>1. ModelsInv => OkMeansInstalled
    BY DEF ModelsInv
  <1>. QED BY <1>1, Inductive, PTL DEF Spec

(* A model that had its digest when an installation that is not forced     *)
(* began still has it, at every step and however that installation ends    *)
(* (InstallOneModel).                                                      *)
THEOREM VerifiedModelsStay == Spec => []VerifiedIsKept
  <1>1. ModelsInv => VerifiedIsKept
    BY DEF ModelsInv
  <1>. QED BY <1>1, Inductive, PTL DEF Spec

(* A scan that inferred had the files of the models it asked for, although *)
(* an open session does not look at them (AppBuildRequestedCacheProfile,   *)
(* AppEnsureMlReady).                                                      *)
THEOREM InferenceHadItsModels == Spec => []InferenceHasItsModels
  <1>1. ModelsInv => InferenceHasItsModels
    BY DEF ModelsInv
  <1>. QED BY <1>1, Inductive, PTL DEF Spec
=============================================================================
