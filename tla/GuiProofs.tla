------------------------------ MODULE GuiProofs ------------------------------
(***************************************************************************)
(* Proofs about the two halves of the GUI.                                 *)
(*                                                                         *)
(* Part 1: the main thread and its worker (GuiWorker), for any number of   *)
(* tasks.                                                                  *)
(*                                                                         *)
(* Part 2: what the window shows, what it believes to be saved and what is *)
(* in its file (GuiState), for all texts, all files and every bound: a     *)
(* window that closed without a loss reopens as it was left, a save leaves *)
(* nothing to save, and a task runs on what is shown.                      *)
(***************************************************************************)
EXTENDS GuiWorker, GuiState, TLAPS

(* The actions one by one. *)
LEMMA NextCases ==
    ASSUME [Next]_vars
    PROVE  \/ BeginFrame \/ RefreshWhenIdle \/ Inspect \/ Inspected
           \/ ShowResult \/ ClearResult \/ Reap
           \/ Panels \/ ResetPaths \/ CanStart
           \/ Preflight \/ Preflighted \/ StartTask \/ CreateThread
           \/ CancelButton \/ ExitDialog \/ RebuildDialog
           \/ Shutdown \/ JoinAtExit \/ Destroy
           \/ ThreadBegins \/ FreeReport \/ Work
           \/ StoreReport \/ SetResult \/ ThreadEnds
           \/ UNCHANGED vars
  BY DEF Next, Main, Thread, Frame, Start, Close
-----------------------------------------------------------------------------
(* The flags, each by itself.                                              *)

BusyOK      == busy \in BOOLEAN
CancelOK    == cancel \in BOOLEAN
StartedOK   == started \in BOOLEAN
ValidOK     == valid \in BOOLEAN
ConfirmedOK == confirmed \in BOOLEAN
PendingOK   == pending \in BOOLEAN
ExitOK      == exitDialog \in BOOLEAN

FlagsOK == BusyOK /\ CancelOK /\ StartedOK /\ ValidOK /\ ConfirmedOK /\ PendingOK /\ ExitOK

LEMMA FlagsStep == FlagsOK /\ [Next]_vars => FlagsOK'
  <1>. USE NextCases
       DEF vars, worker, task, gui, past, BeginFrame, RefreshWhenIdle, Inspect, Inspected,
           ShowResult, ClearResult, Reap, Join, Keep, Panels, ResetPaths, CanStart, Preflight,
           Preflighted, StartTask, CreateThread, CancelButton, ExitDialog, RebuildDialog,
           Shutdown, JoinAtExit, Destroy, ThreadBegins, FreeReport, Work, StoreReport,
           SetResult, ThreadEnds
  <1>1. BusyOK /\ [Next]_vars => BusyOK'
    BY Zenon DEF BusyOK
  <1>2. CancelOK /\ [Next]_vars => CancelOK'
    BY Zenon DEF CancelOK
  <1>3. StartedOK /\ [Next]_vars => StartedOK'
    BY Zenon DEF StartedOK
  <1>4. ValidOK /\ [Next]_vars => ValidOK'
    BY Zenon DEF ValidOK
  <1>5. ConfirmedOK /\ [Next]_vars => ConfirmedOK'
    BY Zenon DEF ConfirmedOK
  <1>6. PendingOK /\ [Next]_vars => PendingOK'
    BY Zenon DEF PendingOK
  <1>7. ExitOK /\ [Next]_vars => ExitOK'
    BY Zenon DEF ExitOK
  <1>. QED BY <1>1, <1>2, <1>3, <1>4, <1>5, <1>6, <1>7 DEF FlagsOK
-----------------------------------------------------------------------------
(* The other variables.                                                    *)

Snapshots == [busy : BOOLEAN, result : TaskResults, report : Nat, task : Nat]

ValuesOK ==
    /\ result \in TaskResults /\ report \in Nat
    /\ thread \in {"none", "created", "freeing", "running", "storing",
                   "posting", "returning", "finished"}
    /\ kind \in Kinds /\ outcome \in {"none", "ok", "failed", "cancelled"}
    /\ started <=> thread # "none"
    /\ pc \in Places /\ next \in Inspections /\ wish \in Kinds
    /\ tasks \in Nat /\ shown \in Nat /\ asked \in Nat

SnapOK == snap \in Snapshots

(* A snapshot is of the kind of the variables it is taken of. *)
LEMMA SnapshotKind == BusyOK /\ ValuesOK => Snapshot \in Snapshots
  <1>1. BusyOK /\ result \in TaskResults /\ report \in Nat /\ tasks \in Nat
            => Snapshot \in Snapshots
    BY Zenon DEF BusyOK, Snapshot, Snapshots
  <1>. QED BY <1>1 DEF ValuesOK

LEMMA NoSnapshotKind == NoSnapshot \in Snapshots
  BY DEF NoSnapshot, Snapshots, NoResult, TaskResults

LEMMA SnapStep == SnapOK /\ BusyOK /\ ValuesOK /\ [Next]_vars => SnapOK'
  <1>1. [Next]_vars => snap' \in {Snapshot, NoSnapshot, snap}
    BY Zenon, NextCases
       DEF vars, worker, task, gui, past, BeginFrame, RefreshWhenIdle, Inspect, Inspected,
           ShowResult, ClearResult, Reap, Panels, ResetPaths, CanStart, Preflight,
           Preflighted, StartTask, CreateThread, CancelButton, ExitDialog, RebuildDialog,
           Shutdown, JoinAtExit, Destroy, ThreadBegins, FreeReport, Work, StoreReport,
           SetResult, ThreadEnds
  <1>. QED BY Zenon, <1>1, SnapshotKind, NoSnapshotKind DEF SnapOK

(* The answer of the exit dialog, without the flag that shows it. *)
LEMMA ExitDialogAnswer ==
    ASSUME ExitDialog
    PROVE  /\ pc = "dialogs" /\ pc' \in {"frame", "shutdown"}
           /\ UNCHANGED <<worker, task, snap, next, valid, wish, confirmed, pending, past>>
  BY Zenon DEF ExitDialog, Goto

LEMMA ValuesStep == ValuesOK /\ SnapOK /\ [Next]_vars => ValuesOK'
  <1>. SUFFICES ASSUME ValuesOK, SnapOK, [Next]_vars PROVE ValuesOK'
    OBVIOUS
  <1>. USE DEF ValuesOK, SnapOK, Snapshots, Places, Inspections, Kinds, TaskResults,
               NoResult, worker, task, gui, past, Goto, InspectThen, Back
  <1>1. CASE BeginFrame
    BY <1>1 DEF BeginFrame
  <1>2. CASE RefreshWhenIdle
    BY <1>2 DEF RefreshWhenIdle
  <1>3. CASE Inspect
    BY <1>3 DEF Inspect
  <1>4. CASE Inspected
    BY <1>4 DEF Inspected
  <1>5. CASE ShowResult
    BY <1>5 DEF ShowResult
  <1>6. CASE ClearResult
    BY <1>6 DEF ClearResult
  <1>7. CASE Reap
    BY <1>7 DEF Reap, Join, Keep
  <1>8. CASE Panels
    BY <1>8 DEF Panels
  <1>9. CASE ResetPaths
    BY <1>9 DEF ResetPaths, NoSnapshot
  <1>10. CASE CanStart
    BY <1>10 DEF CanStart
  <1>11. CASE Preflight
    BY <1>11 DEF Preflight
  <1>12. CASE Preflighted
    BY SMTT(60), <1>12 DEF Preflighted
  <1>13. CASE StartTask
    BY <1>13 DEF StartTask
  <1>14. CASE CreateThread
    BY <1>14 DEF CreateThread
  <1>15. CASE CancelButton
    BY <1>15 DEF CancelButton
  <1>16. CASE ExitDialog
    BY <1>16, ExitDialogAnswer
  <1>17. CASE RebuildDialog
    BY <1>17 DEF RebuildDialog
  <1>18. CASE Shutdown
    BY <1>18 DEF Shutdown
  <1>19. CASE JoinAtExit
    BY <1>19 DEF JoinAtExit, Join
  <1>20. CASE Destroy
    BY <1>20 DEF Destroy
  <1>21. CASE ThreadBegins
    BY <1>21 DEF ThreadBegins
  <1>22. CASE FreeReport
    BY <1>22 DEF FreeReport
  <1>23. CASE Work
    BY <1>23 DEF Work, Ended
  <1>24. CASE StoreReport
    BY <1>24 DEF StoreReport
  <1>25. CASE SetResult
    BY <1>25 DEF SetResult
  <1>26. CASE ThreadEnds
    BY <1>26 DEF ThreadEnds
  <1>27. CASE UNCHANGED vars
    BY <1>27 DEF vars
  <1>. QED
    BY <1>1, <1>2, <1>3, <1>4, <1>5, <1>6, <1>7, <1>8, <1>9, <1>10, <1>11, <1>12,
       <1>13, <1>14, <1>15, <1>16, <1>17, <1>18, <1>19, <1>20, <1>21, <1>22,
       <1>23, <1>24, <1>25, <1>26, <1>27, NextCases

LEMMA KindsInit == Init => FlagsOK /\ ValuesOK /\ SnapOK
  <1>. SUFFICES ASSUME Init PROVE FlagsOK /\ ValuesOK /\ SnapOK
    OBVIOUS
  <1>1. FlagsOK
    BY Zenon DEF Init, FlagsOK, BusyOK, CancelOK, StartedOK, ValidOK, ConfirmedOK,
                 PendingOK, ExitOK
  <1>2. ValuesOK
    BY DEF Init, ValuesOK, NoResult, TaskResults, Kinds, Places, Inspections
  <1>. QED BY <1>1, <1>2, NoSnapshotKind DEF Init, SnapOK, FlagsOK

KindsOK == FlagsOK /\ ValuesOK /\ SnapOK

LEMMA KindsStep == KindsOK /\ [Next]_vars => KindsOK'
  BY FlagsStep, ValuesStep, SnapStep DEF KindsOK, FlagsOK

LEMMA KindsAreTypes == KindsOK <=> TypeOK
  BY Zenon DEF KindsOK, TypeOK, WorkerOK, TaskOK, GuiOK, FlagsOK, ValuesOK, SnapOK, Snapshots,
               BusyOK, CancelOK, StartedOK, ValidOK, ConfirmedOK, PendingOK, ExitOK

(* The variables of the GUI and its worker are of their kinds, for any     *)
(* number of tasks, and thread_started says whether there is a thread.     *)
THEOREM TypeCorrect == Spec => []TypeOK
  BY KindsInit, KindsStep, KindsAreTypes, PTL DEF Spec, Safety, KindsOK
-----------------------------------------------------------------------------
(* The invariant.  One step per action.                                    *)

(* The answer of the preflight, without the cause of a rebuild dialog. *)
LEMMA PreflightedAnswer ==
    ASSUME Preflighted
    PROVE  /\ pc = "preflighting"
           /\ pc' \in {"frame", "buttons"} \/ (pc' = "start" /\ pending' = pending)
           /\ UNCHANGED <<worker, task, snap, next, wish>>
  BY Zenon DEF Preflighted, Goto, Back

LEMMA GuiInvInit == Init => GuiInv
  BY DEF Init, GuiInv, BusyInv, ResultInv, SnapInv, StartInv, CancelInv, Working, Leaving,
         Inspecting, Early, Late, Starting, NoSnapshot, NoResult, CancelReachesItsTask

LEMMA GuiInvStep == KindsOK /\ GuiInv /\ [Next]_vars => GuiInv'
  <1>. SUFFICES ASSUME KindsOK, GuiInv, [Next]_vars PROVE GuiInv'
    OBVIOUS
  <1>. USE DEF KindsOK, ValuesOK, SnapOK, Snapshots, Kinds, TaskResults, NoResult,
               Heeds, GuiInv, BusyInv, ResultInv, SnapInv, StartInv, CancelInv,
               Working, Leaving, Inspecting, Early, Late, Starting, CancelReachesItsTask,
               worker, task, gui, past, Goto, InspectThen, Back, Places, Inspections
  <1>1. CASE BeginFrame
    BY <1>1 DEF BeginFrame, Snapshot
  <1>2. CASE RefreshWhenIdle
    BY <1>2 DEF RefreshWhenIdle
  <1>3. CASE Inspect
    BY <1>3 DEF Inspect
  <1>4. CASE Inspected
    BY <1>4 DEF Inspected
  <1>5. CASE ShowResult
    BY <1>5 DEF ShowResult
  <1>6. CASE ClearResult
    BY <1>6 DEF ClearResult
  <1>7. CASE Reap
    BY <1>7 DEF Reap, Join, Keep
  <1>8. CASE Panels
    BY <1>8 DEF Panels
  <1>9. CASE ResetPaths
    BY <1>9 DEF ResetPaths, NoSnapshot
  <1>10. CASE CanStart
    BY <1>10 DEF CanStart
  <1>11. CASE Preflight
    BY <1>11 DEF Preflight
  <1>12. CASE Preflighted
    <2>1. BusyInv'
      BY <1>12 DEF Preflighted
    <2>2. ResultInv'
      BY <1>12 DEF Preflighted
    <2>3. SnapInv'
      BY <1>12, PreflightedAnswer
    <2>4. StartInv'
      BY <1>12, PreflightedAnswer
    <2>5. CancelInv'
      BY <1>12 DEF Preflighted
    <2>. QED BY <2>1, <2>2, <2>3, <2>4, <2>5
  <1>13. CASE StartTask
    BY <1>13 DEF StartTask
  <1>14. CASE CreateThread
    <2>1. BusyInv'
      BY <1>14 DEF CreateThread
    <2>2. ResultInv'
      BY <1>14 DEF CreateThread
    <2>3. SnapInv'
      <3>1. ~pending
        BY <1>14 DEF CreateThread
      <3>2. ~pending'
        BY Zenon, <1>14, <3>1 DEF CreateThread
      <3>3. /\ pc = "create" /\ pc' \in {"frame", "buttons"}
            /\ UNCHANGED <<result, snap, next>>
        BY Zenon, <1>14 DEF CreateThread, Goto, Back
      <3>. QED BY <3>2, <3>3
    <2>4. StartInv'
      BY <1>14 DEF CreateThread
    <2>5. CancelInv'
      BY <1>14 DEF CreateThread
    <2>. QED BY <2>1, <2>2, <2>3, <2>4, <2>5
  <1>15. CASE CancelButton
    BY <1>15 DEF CancelButton
  <1>16. CASE ExitDialog
    BY <1>16, ExitDialogAnswer
  <1>17. CASE RebuildDialog
    BY <1>17 DEF RebuildDialog
  <1>18. CASE Shutdown
    BY <1>18 DEF Shutdown
  <1>19. CASE JoinAtExit
    BY <1>19 DEF JoinAtExit, Join
  <1>20. CASE Destroy
    BY <1>20 DEF Destroy
  <1>21. CASE ThreadBegins
    BY <1>21 DEF ThreadBegins
  <1>22. CASE FreeReport
    BY <1>22 DEF FreeReport
  <1>23. CASE Work
    BY <1>23 DEF Work, Ended
  <1>24. CASE StoreReport
    BY <1>24 DEF StoreReport
  <1>25. CASE SetResult
    BY <1>25 DEF SetResult
  <1>26. CASE ThreadEnds
    BY <1>26 DEF ThreadEnds
  <1>27. CASE UNCHANGED vars
    BY <1>27 DEF vars
  <1>. QED
    BY <1>1, <1>2, <1>3, <1>4, <1>5, <1>6, <1>7, <1>8, <1>9, <1>10, <1>11, <1>12,
       <1>13, <1>14, <1>15, <1>16, <1>17, <1>18, <1>19, <1>20, <1>21, <1>22,
       <1>23, <1>24, <1>25, <1>26, <1>27, NextCases

LEMMA GuiInvariant == Spec => [](KindsOK /\ GuiInv)
  BY KindsInit, KindsStep, GuiInvInit, GuiInvStep, PTL DEF Spec, Safety, KindsOK
-----------------------------------------------------------------------------
(* What it implies.                                                        *)

LEMMA PropertiesHold ==
    ASSUME KindsOK, GuiInv
    PROVE  AppHasOneUser /\ ThreadIsJoined /\ StartsAreNeverRefused /\ ResultsAreShown
  <1>. USE DEF KindsOK, ValuesOK, Inspections, GuiInv, BusyInv, SnapInv, StartInv, Working, Leaving,
               Inspecting, Early, Late
  <1>1. AppHasOneUser
    BY DEF AppHasOneUser
  <1>2. ThreadIsJoined
    BY DEF ThreadIsJoined
  <1>3. StartsAreNeverRefused
    BY DEF StartsAreNeverRefused
  <1>4. ResultsAreShown
    BY DEF ResultsAreShown
  <1>. QED BY <1>1, <1>2, <1>3, <1>4

(* The main thread never uses, or frees, the AppContext while a task is    *)
(* under way: between the unlock of an inspection's check of busy and its  *)
(* end, no task is started, for any number of tasks and frames.            *)
THEOREM AppIsNeverShared == Spec => []AppHasOneUser
  BY GuiInvariant, PropertiesHold, PTL

(* When a thread is created none is left to be joined, and when the        *)
(* program ends every thread was joined.                                   *)
THEOREM NoThreadIsLost == Spec => []ThreadIsJoined
  BY GuiInvariant, PropertiesHold, PTL

(* GuiWorkerStartTask is never called while a task runs, although what the *)
(* panels offer rests on a snapshot; and a move runs only with a report.   *)
THEOREM StartsAlwaysSucceed == Spec => []StartsAreNeverRefused
  BY GuiInvariant, PropertiesHold, PTL

(* The result GuiWorkerStartTask resets was shown before. *)
THEOREM NoResultIsLost == Spec => []ResultsAreShown
  BY GuiInvariant, PropertiesHold, PTL

(* Only the task the user saw running when he pressed cancel, or one that  *)
(* runs when he leaves, ends as cancelled.                                 *)
THEOREM CancelIsAimed == Spec => []CancelReachesItsTask
  <1>1. GuiInv => CancelReachesItsTask
    BY DEF GuiInv, CancelInv
  <1>. QED BY <1>1, GuiInvariant, PTL

-----------------------------------------------------------------------------
(***************************************************************************)
(* Part 2.  Three conversions lie between a field and the next launch:     *)
(* texts become values (Taken), values settings (Build), settings a file   *)
(* (Written), and back (Load, Apply, Synced).  The lemmas say what each    *)
(* keeps; the invariant is that Stored, what a launch would read, is what  *)
(* the window believes (Believed) and what the last one left               *)
(* (LeftIsStored).                                                         *)
(***************************************************************************)

(* Two defaults with a name: the provers read a literal text or truth      *)
(* value only where it is compared.                                        *)
NoText == ""
Unset  == FALSE

(* Every text a field or a setting can have.                               *)
AllTexts == {NoText, DefaultPattern} \cup Texts \cup Dirs \cup Patterns
              \cup DOMAIN Number \cup DOMAIN Fraction
              \cup Values("dir", NoText) \cup Values("pattern", DefaultPattern)

(* The settings, and the fields of the window.                             *)
Settings == [dir : AllTexts, zstd : BOOLEAN, jobs : Jobs, level : Levels,
             threshold : Thresholds, pattern : AllTexts, keep : Keeps]

Windows == [dir : AllTexts, zstd : BOOLEAN, jobs : Jobs, jobsText : AllTexts,
            level : Levels, levelText : AllTexts, threshold : Thresholds,
            thresholdText : AllTexts, pattern : AllTexts, keepText : AllTexts]

-----------------------------------------------------------------------------
LEMMA TextsAre ==
    /\ NoText \in AllTexts /\ DefaultPattern \in AllTexts
    /\ Texts \subseteq AllTexts /\ Dirs \subseteq AllTexts /\ Patterns \subseteq AllTexts
    /\ DOMAIN Number \subseteq AllTexts /\ DOMAIN Fraction \subseteq AllTexts
    /\ Values("dir", NoText) \subseteq AllTexts
    /\ Values("pattern", DefaultPattern) \subseteq AllTexts
  BY DEF AllTexts

LEMMA SettingsAre ==
    ASSUME NEW dir \in AllTexts, NEW zstd \in BOOLEAN, NEW jobs \in Jobs, NEW level \in Levels,
           NEW threshold \in Thresholds, NEW pattern \in AllTexts, NEW keep \in Keeps
    PROVE  [dir |-> dir, zstd |-> zstd, jobs |-> jobs, level |-> level,
            threshold |-> threshold, pattern |-> pattern, keep |-> keep] \in Settings
  BY DEF Settings

LEMMA ValuesAre ==
    ASSUME NEW f \in Files, NEW field, NEW default
    PROVE  Given(f, field, default) \in Values(field, default)
  BY DEF Values

LEMMA SwitchesAre == Values("zstd", Unset) \subseteq BOOLEAN
  BY SwitchAssumption, Zenon DEF Unset

(* The numbers and their texts.                                            *)

LEMMA RoundedIsClose ==
    ASSUME NEW v \in Int
    PROVE  Rounded(v) \in Int /\ Rounded(v) - v \in -4 .. 5
  BY DEF Rounded

LEMMA ShowsIt ==
    ASSUME NEW n \in Numbers
    PROVE  Shows(n) \in AllTexts /\ Parses(Shows(n)) /\ IntOf(Shows(n)) = n
  <1>1. \E t \in DOMAIN Number : Number[t] = n
    BY DEF Numbers
  <1>2. Shows(n) \in DOMAIN Number /\ Number[Shows(n)] = n
    BY <1>1 DEF Shows
  <1> QED BY <1>2, EmptyAssumption, TextsAre DEF Parses, IntOf

LEMMA ShowsFloatIt ==
    ASSUME NEW v, Rounded(v) \in Fractions
    PROVE  /\ ShowsFloat(v) \in AllTexts /\ ParsesFloat(ShowsFloat(v))
           /\ FloatOf(ShowsFloat(v)) = Rounded(v)
  <1>1. \E t \in DOMAIN Fraction : Fraction[t] = Rounded(v)
    BY DEF Fractions
  <1>2. ShowsFloat(v) \in DOMAIN Fraction /\ Fraction[ShowsFloat(v)] = Rounded(v)
    BY <1>1 DEF ShowsFloat
  <1> QED BY <1>2, EmptyAssumption, TextsAre DEF ParsesFloat, FloatOf

LEMMA ReadsIt ==
    ASSUME NEW text, Parses(text)
    PROVE  /\ IntOf(text) \in Int
           /\ ClampJobs(IntOf(text)) \in Jobs
           /\ ClampLevel(IntOf(text)) \in Levels
           /\ ClampKeep(IntOf(text)) \in Keeps
  <1>1. IntOf(text) = 0 \/ IntOf(text) \in Numbers
    <2>1. text = "" => IntOf(text) = 0
      BY DEF IntOf
    <2>2. text # "" => text \in DOMAIN Number /\ IntOf(text) = Number[text]
      BY DEF Parses, IntOf
    <2> QED BY <2>1, <2>2 DEF Numbers
  <1> QED BY <1>1, NumberAssumption, SMT

LEMMA ReadsFloatIt ==
    ASSUME NEW text, ParsesFloat(text)
    PROVE  /\ FloatOf(text) \in Int
           /\ ClampThreshold(FloatOf(text)) \in Thresholds
  <1>1. FloatOf(text) = 0 \/ FloatOf(text) \in Fractions
    <2>1. text = "" => FloatOf(text) = 0
      BY DEF FloatOf
    <2>2. text # "" => text \in DOMAIN Fraction /\ FloatOf(text) = Fraction[text]
      BY DEF ParsesFloat, FloatOf
    <2> QED BY <2>1, <2>2 DEF Fractions
  <1> QED BY <1>1, FractionAssumption, SMT

LEMMA Ranges ==
    /\ \A n \in Jobs : n \in Int /\ n \in Numbers /\ ClampJobs(n) = n
    /\ \A n \in Levels : n \in Int /\ n \in Numbers /\ ClampLevel(n) = n
    /\ \A n \in Keeps : n \in Int /\ n \in Numbers /\ ClampKeep(n) = n
    /\ \A v \in Thresholds : v \in Int /\ Rounded(v) \in Fractions /\ ClampThreshold(v) = v
    /\ 1 \in Jobs /\ 3 \in Levels /\ 9200 \in Thresholds /\ 200 \in Keeps
  <1>1. ASSUME NEW n \in Jobs \cup Levels \cup Keeps PROVE n \in Int /\ n \in Numbers
    BY NumberAssumption DEF Jobs, Levels, Keeps
  <1>2. /\ \A n \in Jobs : ClampJobs(n) = n
        /\ \A n \in Levels : ClampLevel(n) = n
        /\ \A n \in Keeps : ClampKeep(n) = n
    BY DEF Jobs, Levels, Keeps
  <1>3. \A v \in Thresholds : Rounded(v) \in Fractions /\ v \in Int /\ 0 <= v /\ v <= 10000
    BY DEF Thresholds
  <1>4. \A v \in Thresholds : ClampThreshold(v) = v
    BY <1>3 DEF Clamp, ClampThreshold
  <1>5. /\ ClampJobs(1) = 1 /\ ClampLevel(3) = 3 /\ ClampThreshold(9200) = 9200
        /\ ClampKeep(200) = 200
    BY SMT DEF Clamp, ClampJobs, ClampLevel, ClampThreshold, ClampKeep
  <1>6. 1 \in Jobs /\ 3 \in Levels
    BY <1>5, NumberAssumption, SMT
  <1>7. 200 \in Keeps
    BY <1>5, NumberAssumption, SMT
  <1>8. 9200 \in Thresholds
    BY <1>5, FractionAssumption, SMT
  <1> QED BY <1>1, <1>2, <1>3, <1>4, <1>6, <1>7, <1>8

-----------------------------------------------------------------------------
(* The conversions between the window, the settings and the file: what the *)
(* three tests of the texts accept is in range.                            *)

LEMMA OkIn ==
    ASSUME NEW u \in Windows
    PROVE  /\ JobsOk(u) => IntOf(u.jobsText) \in Jobs
           /\ LevelOk(u) => IntOf(u.levelText) \in Levels
           /\ ThresholdOk(u) => FloatOf(u.thresholdText) \in Thresholds
  <1>1. ASSUME JobsOk(u) PROVE IntOf(u.jobsText) \in Jobs
    <2>1. Parses(u.jobsText) /\ IntOf(u.jobsText) \in 1 .. 256
      BY <1>1 DEF JobsOk
    <2>2. ClampJobs(IntOf(u.jobsText)) = IntOf(u.jobsText)
      BY <2>1, SMT DEF Clamp, ClampJobs, ClampLevel, ClampThreshold
    <2>3. ClampJobs(IntOf(u.jobsText)) \in Jobs
      BY <2>1, ReadsIt, SMT
    <2> QED BY <2>2, <2>3
  <1>2. ASSUME LevelOk(u) PROVE IntOf(u.levelText) \in Levels
    <2>1. Parses(u.levelText) /\ IntOf(u.levelText) \in 1 .. 19
      BY <1>2 DEF LevelOk
    <2>2. ClampLevel(IntOf(u.levelText)) = IntOf(u.levelText)
      BY <2>1, SMT DEF Clamp, ClampJobs, ClampLevel, ClampThreshold
    <2>3. ClampLevel(IntOf(u.levelText)) \in Levels
      BY <2>1, ReadsIt, SMT
    <2> QED BY <2>2, <2>3
  <1>3. ASSUME ThresholdOk(u) PROVE FloatOf(u.thresholdText) \in Thresholds
    <2>1. ParsesFloat(u.thresholdText) /\ FloatOf(u.thresholdText) \in 0 .. 10000
      BY <1>3 DEF ThresholdOk
    <2>2. ClampThreshold(FloatOf(u.thresholdText)) = FloatOf(u.thresholdText)
      <3> DEFINE v == FloatOf(u.thresholdText)
      <3>1. v \in Int
        BY <2>1, ReadsFloatIt
      <3>2. v \in 0 .. 10000
        BY <2>1
      <3> HIDE DEF v
      <3>3. ClampThreshold(v) = v
        BY <3>1, <3>2 DEF Clamp, ClampThreshold
      <3> QED BY <3>3 DEF v
    <2>3. ClampThreshold(FloatOf(u.thresholdText)) \in Thresholds
      BY <2>1, ReadsFloatIt, SMT
    <2> QED BY <2>2, <2>3
  <1> QED BY <1>1, <1>2, <1>3

(* What taking the numbers over leaves. *)
LEMMA TakenIs ==
    ASSUME NEW u \in Windows, NEW jobs \in BOOLEAN, NEW level \in BOOLEAN, NEW threshold \in BOOLEAN
    PROVE  LET t == Taken(u, jobs, level, threshold) IN
           /\ t \in Windows
           /\ jobs /\ JobsOk(u) => t.jobs = IntOf(u.jobsText)
           /\ (jobs => JobsOk(u)) /\ level /\ LevelOk(u) => t.level = IntOf(u.levelText)
           /\ (jobs => JobsOk(u)) /\ (level => LevelOk(u)) /\ threshold /\ ThresholdOk(u)
                => t.threshold = FloatOf(u.thresholdText)
           /\ t.dir = u.dir /\ t.zstd = u.zstd /\ t.pattern = u.pattern /\ t.keepText = u.keepText
           /\ t.jobsText = u.jobsText /\ t.levelText = u.levelText /\ t.thresholdText = u.thresholdText
           /\ t.jobs = IF jobs /\ JobsOk(u) THEN IntOf(u.jobsText) ELSE u.jobs
           /\ t.level = IF (jobs => JobsOk(u)) /\ level /\ LevelOk(u) THEN IntOf(u.levelText) ELSE u.level
           /\ t.threshold = IF /\ jobs => JobsOk(u)
                               /\ level => LevelOk(u)
                               /\ threshold /\ ThresholdOk(u)
                            THEN FloatOf(u.thresholdText) ELSE u.threshold
  <1> DEFINE a == IF jobs /\ JobsOk(u) THEN TakeJobs(u) ELSE u
             b == IF (jobs => JobsOk(u)) /\ level /\ LevelOk(u) THEN TakeLevel(a) ELSE a
             c == IF (jobs => JobsOk(u)) /\ (level => LevelOk(u)) /\ threshold /\ ThresholdOk(u)
                  THEN TakeThreshold(b) ELSE b
  <1>1. /\ a \in Windows
        /\ a.dir = u.dir /\ a.zstd = u.zstd /\ a.pattern = u.pattern /\ a.keepText = u.keepText
        /\ a.jobsText = u.jobsText /\ a.levelText = u.levelText /\ a.thresholdText = u.thresholdText
        /\ a.jobs = IF jobs /\ JobsOk(u) THEN IntOf(u.jobsText) ELSE u.jobs
        /\ a.level = u.level /\ a.threshold = u.threshold
    BY OkIn DEF TakeJobs, Windows
  <1> HIDE DEF a
  <1>2. /\ b \in Windows
        /\ b.dir = a.dir /\ b.zstd = a.zstd /\ b.pattern = a.pattern /\ b.keepText = a.keepText
        /\ b.jobsText = a.jobsText /\ b.levelText = a.levelText /\ b.thresholdText = a.thresholdText
        /\ b.jobs = a.jobs /\ b.threshold = a.threshold
        /\ b.level = IF (jobs => JobsOk(u)) /\ level /\ LevelOk(u) THEN IntOf(u.levelText) ELSE a.level
    BY <1>1, OkIn DEF TakeLevel, Windows
  <1> HIDE DEF b
  <1>3. /\ c \in Windows
        /\ c.dir = b.dir /\ c.zstd = b.zstd /\ c.pattern = b.pattern /\ c.keepText = b.keepText
        /\ c.jobsText = b.jobsText /\ c.levelText = b.levelText /\ c.thresholdText = b.thresholdText
        /\ c.jobs = b.jobs /\ c.level = b.level
        /\ c.threshold = IF /\ jobs => JobsOk(u)
                            /\ level => LevelOk(u)
                            /\ threshold /\ ThresholdOk(u)
                         THEN FloatOf(u.thresholdText) ELSE b.threshold
    BY <1>1, <1>2, OkIn DEF TakeThreshold, Windows
  <1>4. c = Taken(u, jobs, level, threshold)
    BY DEF Taken, a, b
  <1> HIDE DEF c
  <1> QED BY <1>1, <1>2, <1>3, <1>4

(* Texts made from the values are equal to them, but for the rounding, and *)
(* change no setting.                                                      *)
LEMMA SyncedIs ==
    ASSUME NEW u \in Windows
    PROVE  LET s == Synced(u) IN
           /\ s \in Windows /\ BuffersEqual(s)
           /\ s.jobs = u.jobs /\ s.level = u.level /\ s.threshold = u.threshold
           /\ s.jobsText = Shows(u.jobs) /\ s.levelText = Shows(u.level)
           /\ s.thresholdText = ShowsFloat(u.threshold)
           /\ s.dir = u.dir /\ s.zstd = u.zstd /\ s.pattern = u.pattern /\ s.keepText = u.keepText
           /\ Build(s) = Build(u)
  <1> DEFINE s == Synced(u)
  <1>1. /\ u.jobs \in Numbers /\ u.level \in Numbers /\ Rounded(u.threshold) \in Fractions
        /\ u.threshold \in Int
    BY Ranges, SMT DEF Windows
  <1>2. /\ s.jobs = u.jobs /\ s.level = u.level /\ s.threshold = u.threshold
        /\ s.jobsText = Shows(u.jobs) /\ s.levelText = Shows(u.level)
        /\ s.thresholdText = ShowsFloat(u.threshold)
        /\ s.dir = u.dir /\ s.zstd = u.zstd /\ s.pattern = u.pattern /\ s.keepText = u.keepText
    BY DEF Synced, Windows
  <1>3. s \in Windows
    BY <1>1, ShowsIt, ShowsFloatIt DEF Synced, Windows
  <1> HIDE DEF s
  <1>4. Build(s) = Build(u)
    BY <1>2 DEF Build
  <1>5. Parses(s.jobsText) /\ IntOf(s.jobsText) = s.jobs
        /\ Parses(s.levelText) /\ IntOf(s.levelText) = s.level
    BY <1>1, <1>2, ShowsIt
  <1>6. ParsesFloat(s.thresholdText) /\ FloatOf(s.thresholdText) = Rounded(s.threshold)
    BY <1>1, <1>2, ShowsFloatIt
  <1>7. SameNumber(Rounded(s.threshold), s.threshold)
    BY <1>1, <1>2, RoundedIsClose DEF SameNumber
  <1>8. BuffersEqual(s)
    BY <1>5, <1>6, <1>7 DEF BuffersEqual
  <1> QED BY <1>2, <1>3, <1>4, <1>8 DEF s

(* What is built from a window are settings.                               *)
LEMMA BuildIs ==
    ASSUME NEW u \in Windows
    PROVE  /\ Build(u) \in Settings
           /\ Build(u).pattern = "" => DefaultPattern = ""
  <1> DEFINE s == Build(u)
  <1>1. s.keep \in Keeps
    BY ReadsIt, Ranges, SMT DEF Build
  <1>2. s.pattern \in AllTexts /\ (s.pattern = "" => DefaultPattern = "")
    BY TextsAre DEF Build, Windows
  <1>3. s = [dir |-> u.dir, zstd |-> u.zstd, jobs |-> u.jobs, level |-> u.level,
             threshold |-> u.threshold, pattern |-> s.pattern, keep |-> s.keep]
    BY DEF Build
  <1> HIDE DEF s
  <1>4. /\ s.dir \in AllTexts /\ s.zstd \in BOOLEAN /\ s.jobs \in Jobs /\ s.level \in Levels
        /\ s.threshold \in Thresholds
    BY <1>3 DEF Windows
  <1>5. s = [dir |-> s.dir, zstd |-> s.zstd, jobs |-> s.jobs, level |-> s.level,
             threshold |-> s.threshold, pattern |-> s.pattern, keep |-> s.keep]
    BY <1>3
  <1>6. s \in Settings
    BY ONLY <1>1, <1>2, <1>4, <1>5 DEF Settings
  <1> QED BY <1>2, <1>6 DEF s

-----------------------------------------------------------------------------
(* Settings, but for the threshold, and what a pattern becomes.            *)

Same(a, b) == [a EXCEPT !.threshold = 0] = [b EXCEPT !.threshold = 0]

LEMMA SameIs ==
    ASSUME NEW a \in Settings, NEW b \in Settings
    PROVE  Same(a, b) <=> /\ a.dir = b.dir /\ a.zstd = b.zstd /\ a.jobs = b.jobs
                          /\ a.level = b.level /\ a.pattern = b.pattern /\ a.keep = b.keep
  <1>1. /\ a = [dir |-> a.dir, zstd |-> a.zstd, jobs |-> a.jobs, level |-> a.level,
                threshold |-> a.threshold, pattern |-> a.pattern, keep |-> a.keep]
        /\ b = [dir |-> b.dir, zstd |-> b.zstd, jobs |-> b.jobs, level |-> b.level,
                threshold |-> b.threshold, pattern |-> b.pattern, keep |-> b.keep]
    BY DEF Settings
  <1>2. /\ [a EXCEPT !.threshold = 0] =
             [dir |-> a.dir, zstd |-> a.zstd, jobs |-> a.jobs, level |-> a.level,
              threshold |-> 0, pattern |-> a.pattern, keep |-> a.keep]
        /\ [b EXCEPT !.threshold = 0] =
             [dir |-> b.dir, zstd |-> b.zstd, jobs |-> b.jobs, level |-> b.level,
              threshold |-> 0, pattern |-> b.pattern, keep |-> b.keep]
    BY <1>1
  <1> QED BY <1>2 DEF Same

(* An empty pattern is what the defaults have, or there is none; a blank   *)
(* one in settings that were read is the default.                          *)
Named(s) == s.pattern = "" => DefaultPattern = ""
Settled(s) == Blank(s.pattern) => s.pattern = DefaultPattern

LEMMA RestoredIs ==
    ASSUME NEW s \in Settings
    PROVE  /\ Restored(s) \in Settings /\ Restored(s).threshold = s.threshold
           /\ Settled(s) => Restored(s) = s
           /\ Named(s) => Settled(Restored(s))
           /\ Restored(s).dir = s.dir /\ Restored(s).zstd = s.zstd /\ Restored(s).jobs = s.jobs
           /\ Restored(s).level = s.level /\ Restored(s).keep = s.keep
           /\ Restored(s).pattern = IF s.pattern = " " THEN DefaultPattern ELSE s.pattern
  <1>1. DefaultPattern \in AllTexts
    BY TextsAre
  <1>2. CASE s.pattern = " "
    <2>1. Restored(s) = [s EXCEPT !.pattern = DefaultPattern]
      BY <1>2 DEF Restored
    <2>2. [s EXCEPT !.pattern = DefaultPattern] \in Settings
      BY <1>1 DEF Settings
    <2>3. Settled(s) => [s EXCEPT !.pattern = DefaultPattern] = s
      BY <1>2 DEF Settled, Blank, Settings
    <2> QED BY <1>2, <2>1, <2>2, <2>3 DEF Settled, Settings
  <1>3. CASE s.pattern # " "
    BY <1>3 DEF Restored, Named, Settled, Blank
  <1> QED BY <1>2, <1>3

LEMMA DefaultsAre == Defaults \in Settings /\ Named(Defaults) /\ Settled(Defaults)
  <1>1. 1 \in Jobs /\ 3 \in Levels /\ 9200 \in Thresholds /\ 200 \in Keeps
    BY Ranges
  <1>2. NoText \in AllTexts /\ DefaultPattern \in AllTexts
    BY TextsAre
  <1>3. Defaults \in Settings
    <2>1. [dir |-> NoText, zstd |-> FALSE, jobs |-> 1, level |-> 3, threshold |-> 9200,
           pattern |-> DefaultPattern, keep |-> 200] \in Settings
      BY <1>1, <1>2, SMT DEF Settings
    <2>2. Defaults = [dir |-> NoText, zstd |-> FALSE, jobs |-> 1, level |-> 3,
                      threshold |-> 9200, pattern |-> DefaultPattern, keep |-> 200]
      BY ONLY SMT DEF Defaults, NoText
    <2> QED BY <2>1, <2>2, SMT
  <1>4. Defaults.pattern = DefaultPattern
    BY ONLY SMT DEF Defaults
  <1> QED BY <1>3, <1>4 DEF Named, Settled

(* What a file gives, whatever it holds.                                   *)
LEMMA LoadOf ==
    ASSUME NEW f
    PROVE  Load(f) =
             [dir |-> Given(f, "dir", NoText), zstd |-> Given(f, "zstd", Unset),
              jobs |-> ClampJobs(Given(f, "jobs", 1)), level |-> ClampLevel(Given(f, "level", 3)),
              threshold |-> ClampThreshold(Given(f, "threshold", 9200)),
              pattern |-> IF Blank(Given(f, "pattern", DefaultPattern)) THEN DefaultPattern
                          ELSE Given(f, "pattern", DefaultPattern),
              keep |-> ClampKeep(Given(f, "keep", 200))]
  BY SMT DEF Load, Defaults, NoText, Unset

LEMMA LoadIs ==
    ASSUME NEW f \in Files \cup Settings
    PROVE  Load(f) \in Settings /\ Named(Load(f)) /\ Settled(Load(f))
  <1> DEFINE s == Load(f)
             dir == Given(f, "dir", NoText)
             zstd == Given(f, "zstd", Unset)
             jobs == Given(f, "jobs", 1)
             level == Given(f, "level", 3)
             threshold == Given(f, "threshold", 9200)
             pattern == Given(f, "pattern", DefaultPattern)
             keep == Given(f, "keep", 200)
             kept == IF Blank(pattern) THEN DefaultPattern ELSE pattern
  <1>1. s = [dir |-> dir, zstd |-> zstd, jobs |-> ClampJobs(jobs), level |-> ClampLevel(level),
             threshold |-> ClampThreshold(threshold), pattern |-> kept, keep |-> ClampKeep(keep)]
    BY LoadOf, Zenon
  <1>2. /\ dir \in AllTexts /\ zstd \in BOOLEAN /\ pattern \in AllTexts
        /\ ClampJobs(jobs) \in Jobs /\ ClampLevel(level) \in Levels
        /\ ClampThreshold(threshold) \in Thresholds /\ ClampKeep(keep) \in Keeps
    <2>1. CASE f \in Files
      <3>1. /\ dir \in Values("dir", NoText) /\ zstd \in Values("zstd", Unset)
            /\ jobs \in Values("jobs", 1) /\ level \in Values("level", 3)
            /\ threshold \in Values("threshold", 9200)
            /\ pattern \in Values("pattern", DefaultPattern) /\ keep \in Values("keep", 200)
        BY <2>1, ValuesAre
      <3> HIDE DEF dir, zstd, jobs, level, threshold, pattern, keep
      <3>2. dir \in AllTexts /\ pattern \in AllTexts
        BY <3>1, TextsAre
      <3>3. zstd \in BOOLEAN
        BY <3>1, SwitchesAre
      <3>4. ClampJobs(jobs) \in Jobs /\ ClampLevel(level) \in Levels /\ ClampKeep(keep) \in Keeps
        BY <3>1, NumberAssumption
      <3>5. ClampThreshold(threshold) \in Thresholds
        BY <3>1, FractionAssumption
      <3> QED BY <3>2, <3>3, <3>4, <3>5
    <2>2. CASE f \in Settings
      <3>1. /\ dir = f.dir /\ zstd = f.zstd /\ jobs = f.jobs /\ level = f.level
            /\ threshold = f.threshold /\ pattern = f.pattern /\ keep = f.keep
        BY <2>2 DEF Given, Settings
      <3>2. /\ f.dir \in AllTexts /\ f.zstd \in BOOLEAN /\ f.pattern \in AllTexts
            /\ f.jobs \in Jobs /\ f.level \in Levels /\ f.threshold \in Thresholds
            /\ f.keep \in Keeps
        BY <2>2 DEF Settings
      <3> HIDE DEF dir, zstd, jobs, level, threshold, pattern, keep
      <3> QED BY <3>1, <3>2, Ranges
    <2> QED BY <2>1, <2>2
  <1> HIDE DEF s, dir, zstd, jobs, level, threshold, pattern, keep
  <1>3. kept \in AllTexts
    BY <1>2, TextsAre
  <1>4. (kept = "" => DefaultPattern = "") /\ (Blank(kept) => kept = DefaultPattern)
    BY Zenon DEF Blank
  <1> HIDE DEF kept
  <1>5. s \in Settings
    BY <1>1, <1>2, <1>3, SettingsAre
  <1>6. s.pattern = kept
    BY <1>1
  <1> QED BY <1>4, <1>5, <1>6 DEF s, Named, Settled

(* Saving and reading loses nothing but a blank pattern.                   *)
LEMMA LoadWritten ==
    ASSUME NEW s \in Settings, Named(s)
    PROVE  Written(s) = s /\ Load(s) = Restored(s)
  <1> DEFINE read == IF Blank(s.pattern) THEN DefaultPattern ELSE s.pattern
             plain == IF s.pattern = " " THEN DefaultPattern ELSE s.pattern
  <1>1. /\ ClampJobs(s.jobs) = s.jobs /\ ClampLevel(s.level) = s.level
        /\ ClampThreshold(s.threshold) = s.threshold /\ ClampKeep(s.keep) = s.keep
    BY Ranges, SMT DEF Settings
  <1>2. Written(s) = s
    <2>1. /\ [s EXCEPT !.jobs = s.jobs] = s /\ [s EXCEPT !.level = s.level] = s
          /\ [s EXCEPT !.threshold = s.threshold] = s /\ [s EXCEPT !.keep = s.keep] = s
      BY DEF Settings
    <2> QED BY <2>1, <1>1 DEF Written
  <1>3. /\ Given(s, "dir", NoText) = s.dir /\ Given(s, "zstd", Unset) = s.zstd
        /\ Given(s, "jobs", 1) = s.jobs /\ Given(s, "level", 3) = s.level
        /\ Given(s, "threshold", 9200) = s.threshold
        /\ Given(s, "pattern", DefaultPattern) = s.pattern /\ Given(s, "keep", 200) = s.keep
    BY DEF Given, Settings
  <1>4. Load(s) = [dir |-> s.dir, zstd |-> s.zstd, jobs |-> s.jobs, level |-> s.level,
                   threshold |-> s.threshold,
                   pattern |-> read,
                   keep |-> s.keep]
    BY <1>1, <1>3, LoadOf
  <1>5. read = plain
    BY DEF Named, Blank
  <1>6. Restored(s) = [dir |-> s.dir, zstd |-> s.zstd, jobs |-> s.jobs, level |-> s.level,
                       threshold |-> s.threshold,
                       pattern |-> plain,
                       keep |-> s.keep]
    <2> DEFINE r == Restored(s)
    <2>1. r \in Settings
      BY RestoredIs
    <2>2. r = [dir |-> r.dir, zstd |-> r.zstd, jobs |-> r.jobs, level |-> r.level,
               threshold |-> r.threshold, pattern |-> r.pattern, keep |-> r.keep]
      BY <2>1 DEF Settings
    <2> QED BY <2>2, RestoredIs
  <1> HIDE DEF read, plain
  <1>7. Load(s) = Restored(s)
    BY <1>4, <1>5, <1>6
  <1> QED BY <1>2, <1>7

(* A window that opens on settings shows them.                             *)
LEMMA ApplyIs ==
    ASSUME NEW s \in Settings, Named(s)
    PROVE  /\ Apply(s) \in Windows /\ BuffersEqual(Apply(s))
           /\ Build(Apply(s)) = s /\ Apply(s).threshold = s.threshold
  <1> DEFINE pattern == IF s.pattern = "" THEN DefaultPattern ELSE s.pattern
             u == [dir |-> s.dir, zstd |-> s.zstd, jobs |-> s.jobs, jobsText |-> "",
                   level |-> s.level, levelText |-> "", threshold |-> s.threshold,
                   thresholdText |-> "", pattern |-> pattern, keepText |-> Shows(s.keep)]
  <1>1. /\ s.dir \in AllTexts /\ s.zstd \in BOOLEAN /\ s.pattern \in AllTexts /\ s.jobs \in Jobs
        /\ s.level \in Levels /\ s.threshold \in Thresholds /\ s.keep \in Keeps
    BY DEF Settings
  <1>2. /\ ClampJobs(s.jobs) = s.jobs /\ ClampLevel(s.level) = s.level
        /\ ClampThreshold(s.threshold) = s.threshold /\ ClampKeep(s.keep) = s.keep
        /\ s.keep \in Numbers
    BY <1>1, Ranges, SMT
  <1>3. pattern = s.pattern
    BY DEF Named
  <1>4. Apply(s) = Synced(u)
    BY <1>2, SMT DEF Apply
  <1>5. Shows(s.keep) \in AllTexts /\ Parses(Shows(s.keep)) /\ IntOf(Shows(s.keep)) = s.keep
    BY <1>2, ShowsIt
  <1> HIDE DEF pattern
  <1>6. u \in Windows
    <2>1. NoText \in AllTexts
      BY TextsAre
    <2>2. u = [dir |-> s.dir, zstd |-> s.zstd, jobs |-> s.jobs, jobsText |-> NoText,
               level |-> s.level, levelText |-> NoText, threshold |-> s.threshold,
               thresholdText |-> NoText, pattern |-> s.pattern, keepText |-> Shows(s.keep)]
      BY <1>3, Zenon DEF NoText
    <2> QED BY ONLY <1>1, <1>5, <2>1, <2>2 DEF Windows
  <1>7. Build(u) = s
    <2>1. s.keep = IF Parses(u.keepText) THEN ClampKeep(IntOf(u.keepText)) ELSE 200
      BY <1>2, <1>5
    <2>2. s.pattern = IF u.pattern = "" THEN DefaultPattern ELSE u.pattern
      BY <1>3 DEF Named
    <2>3. Build(u) = [dir |-> s.dir, zstd |-> s.zstd, jobs |-> s.jobs, level |-> s.level,
                      threshold |-> s.threshold, pattern |-> s.pattern, keep |-> s.keep]
      BY <2>1, <2>2, Zenon DEF Build
    <2> QED BY <2>3 DEF Settings
  <1>8. u.threshold = s.threshold
    OBVIOUS
  <1> HIDE DEF u
  <1> QED BY <1>4, <1>6, <1>7, <1>8, SyncedIs

(* What a window shows whose texts are those of its values: its settings,  *)
(* but for what the text of the threshold rounds off.                      *)
LEMMA ShownIs ==
    ASSUME NEW u \in Windows
    PROVE  /\ Shown(u) \in Settings /\ Named(Shown(u))
           /\ BuffersEqual(u) => /\ Same(Shown(u), Build(u))
                                 /\ Shown(u).threshold - u.threshold \in -5 .. 5
  <1> DEFINE t == Taken(u, TRUE, TRUE, TRUE)
  <1>1. /\ t \in Windows
        /\ t.dir = u.dir /\ t.zstd = u.zstd /\ t.pattern = u.pattern /\ t.keepText = u.keepText
        /\ t.jobs = IF JobsOk(u) THEN IntOf(u.jobsText) ELSE u.jobs
        /\ t.level = IF JobsOk(u) /\ LevelOk(u) THEN IntOf(u.levelText) ELSE u.level
        /\ t.threshold = IF JobsOk(u) /\ LevelOk(u) /\ ThresholdOk(u)
                         THEN FloatOf(u.thresholdText) ELSE u.threshold
    BY TakenIs
  <1>2. Shown(u) = Build(t)
    BY DEF Shown
  <1> HIDE DEF t
  <1>3. Build(t) \in Settings /\ Named(Build(t)) /\ Build(u) \in Settings
    BY <1>1, BuildIs DEF Named
  <1>4. ASSUME BuffersEqual(u)
        PROVE  Same(Build(t), Build(u)) /\ Build(t).threshold - u.threshold \in -5 .. 5
    <2>1. t.jobs = u.jobs /\ t.level = u.level
      BY <1>1, <1>4 DEF BuffersEqual
    <2>2. t.threshold - u.threshold \in -5 .. 5
      <3>1. u.threshold \in Int /\ SameNumber(FloatOf(u.thresholdText), u.threshold)
        BY <1>4, Ranges DEF BuffersEqual, Windows
      <3> QED BY <3>1, <1>1, SMT DEF SameNumber
    <2>3. /\ Build(t).dir = Build(u).dir /\ Build(t).zstd = Build(u).zstd
          /\ Build(t).jobs = Build(u).jobs /\ Build(t).level = Build(u).level
          /\ Build(t).pattern = Build(u).pattern /\ Build(t).keep = Build(u).keep
          /\ Build(t).threshold = t.threshold
      BY <1>1, <2>1, SMT DEF Build
    <2> QED BY <2>2, <2>3, <1>3, SameIs
  <1> QED BY <1>2, <1>3, <1>4

-----------------------------------------------------------------------------
(* What the next launch would read, and the inductive invariant: the window *)
(* knows what is on disk as long as nothing failed, what was left is there,  *)
(* and until the first edit it shows it.                                    *)

Stored == IF disk.is = "file" THEN Load(disk.holds) ELSE Defaults

SettingsTypeOK ==
    /\ ui \in Windows /\ persisted \in Settings
    /\ disk.is = "file" => disk.holds \in Files \cup Settings
    /\ left # Nothing => left \in Settings
    /\ phase \in {"off", "on", "dialog"} /\ fresh \in BOOLEAN /\ faults \in Nat

Believed == phase # "off" /\ faults = 0 => Stored = Restored(persisted)

Near(a, b) == Same(a, Restored(b)) /\ a.threshold - b.threshold \in -10 .. 10

LeftIsStored ==
    left # Nothing /\ faults = 0 /\ (phase = "off" \/ fresh) => Near(Stored, left)

FreshIsStored == phase # "off" /\ fresh => ui = Apply(Stored)

IInv == SettingsTypeOK /\ Named(persisted) /\ Believed /\ LeftIsStored /\ FreshIsStored

LEMMA StoredIs ==
    ASSUME disk.is = "file" => disk.holds \in Files \cup Settings
    PROVE  Stored \in Settings /\ Named(Stored) /\ Settled(Stored)
  BY LoadIs, DefaultsAre DEF Stored

LEMMA InitIInv == SettingsInit => IInv
  <1> SUFFICES ASSUME SettingsInit PROVE IInv
    OBVIOUS
  <1>1. Apply(Defaults) \in Windows /\ Defaults \in Settings /\ Named(Defaults)
    BY DefaultsAre, ApplyIs
  <1>2. disk.is = "file" => disk.holds \in Files \cup Settings
    BY DEF SettingsInit
  <1>3. phase = "off" /\ fresh = FALSE /\ left = Nothing /\ faults = 0
        /\ ui = Apply(Defaults) /\ persisted = Defaults
    BY DEF SettingsInit
  <1> QED BY <1>1, <1>2, <1>3 DEF IInv, SettingsTypeOK, Believed, LeftIsStored, FreshIsStored

-----------------------------------------------------------------------------
(* Edits and tasks change the window, and nothing else of this.            *)

LEMMA WindowsKept ==
    ASSUME NEW u \in Windows
    PROVE  /\ \A t \in AllTexts : /\ [u EXCEPT !.jobsText = t] \in Windows
                                  /\ [u EXCEPT !.levelText = t] \in Windows
                                  /\ [u EXCEPT !.thresholdText = t] \in Windows
                                  /\ [u EXCEPT !.keepText = t] \in Windows
                                  /\ [u EXCEPT !.dir = t] \in Windows
                                  /\ [u EXCEPT !.pattern = t] \in Windows
           /\ \A z \in BOOLEAN : [u EXCEPT !.zstd = z] \in Windows
           /\ \A n \in Jobs, t \in AllTexts : [u EXCEPT !.jobs = n, !.jobsText = t] \in Windows
           /\ \A n \in Levels, t \in AllTexts : [u EXCEPT !.level = n, !.levelText = t] \in Windows
           /\ \A v \in Thresholds, t \in AllTexts :
                [u EXCEPT !.threshold = v, !.thresholdText = t] \in Windows
  <1>1. ASSUME NEW t \in AllTexts
        PROVE  /\ [u EXCEPT !.jobsText = t] \in Windows
               /\ [u EXCEPT !.levelText = t] \in Windows
               /\ [u EXCEPT !.thresholdText = t] \in Windows
               /\ [u EXCEPT !.keepText = t] \in Windows
               /\ [u EXCEPT !.dir = t] \in Windows
               /\ [u EXCEPT !.pattern = t] \in Windows
    BY DEF Windows
  <1>2. ASSUME NEW z \in BOOLEAN PROVE [u EXCEPT !.zstd = z] \in Windows
    BY DEF Windows
  <1>3. ASSUME NEW n \in Jobs, NEW t \in AllTexts
        PROVE  [u EXCEPT !.jobs = n, !.jobsText = t] \in Windows
    BY DEF Windows
  <1>4. ASSUME NEW n \in Levels, NEW t \in AllTexts
        PROVE  [u EXCEPT !.level = n, !.levelText = t] \in Windows
    BY DEF Windows
  <1>5. ASSUME NEW v \in Thresholds, NEW t \in AllTexts
        PROVE  [u EXCEPT !.threshold = v, !.thresholdText = t] \in Windows
    BY DEF Windows
  <1> QED BY <1>1, <1>2, <1>3, <1>4, <1>5

LEMMA TypeKeeps ==
    ASSUME ui \in Windows, Type
    PROVE  \E u \in Windows : Edit(u)
  <1>1. CASE \E t \in Texts : \/ Edit([ui EXCEPT !.jobsText = t])
                              \/ Edit([ui EXCEPT !.thresholdText = t])
                              \/ Edit([ui EXCEPT !.keepText = t])
                              \/ ui.zstd /\ Edit([ui EXCEPT !.levelText = t])
    <2> PICK t \in Texts : \/ Edit([ui EXCEPT !.jobsText = t])
                           \/ Edit([ui EXCEPT !.thresholdText = t])
                           \/ Edit([ui EXCEPT !.keepText = t])
                           \/ Edit([ui EXCEPT !.levelText = t])
      BY <1>1
    <2>1. t \in AllTexts
      BY TextsAre
    <2> QED BY <2>1, WindowsKept
  <1>2. CASE \E d \in Dirs : Edit([ui EXCEPT !.dir = d])
    BY <1>2, TextsAre, WindowsKept
  <1>3. CASE \E p \in Patterns : Edit([ui EXCEPT !.pattern = p])
    BY <1>3, TextsAre, WindowsKept
  <1>4. CASE \E z \in BOOLEAN : Edit([ui EXCEPT !.zstd = z])
    BY <1>4, WindowsKept
  <1> QED BY <1>1, <1>2, <1>3, <1>4 DEF Type

LEMMA EnterKeeps ==
    ASSUME ui \in Windows, Enter
    PROVE  \E u \in Windows : Edit(u)
  <1>1. /\ ui.jobs \in Numbers /\ ui.level \in Numbers /\ Rounded(ui.threshold) \in Fractions
    BY Ranges DEF Windows
  <1>2. ASSUME Parses(ui.jobsText)
        PROVE  /\ ClampJobs(IntOf(ui.jobsText)) \in Jobs
               /\ Shows(ClampJobs(IntOf(ui.jobsText))) \in AllTexts
    <2>1. ClampJobs(IntOf(ui.jobsText)) \in Jobs
      BY <1>2, ReadsIt
    <2> QED BY <2>1, Ranges, ShowsIt
  <1>3. ASSUME Parses(ui.levelText)
        PROVE  /\ ClampLevel(IntOf(ui.levelText)) \in Levels
               /\ Shows(ClampLevel(IntOf(ui.levelText))) \in AllTexts
    <2>1. ClampLevel(IntOf(ui.levelText)) \in Levels
      BY <1>3, ReadsIt
    <2> QED BY <2>1, Ranges, ShowsIt
  <1>4. ASSUME ParsesFloat(ui.thresholdText)
        PROVE  /\ ClampThreshold(FloatOf(ui.thresholdText)) \in Thresholds
               /\ ShowsFloat(ClampThreshold(FloatOf(ui.thresholdText))) \in AllTexts
    <2>1. ClampThreshold(FloatOf(ui.thresholdText)) \in Thresholds
      BY <1>4, ReadsFloatIt
    <2>2. Rounded(ClampThreshold(FloatOf(ui.thresholdText))) \in Fractions
      BY <2>1, Ranges
    <2> QED BY <2>1, <2>2, ShowsFloatIt
  <1>5. /\ Shows(ui.jobs) \in AllTexts /\ Shows(ui.level) \in AllTexts
        /\ ShowsFloat(ui.threshold) \in AllTexts
    BY <1>1, ShowsIt, ShowsFloatIt
  <1>6. (IF Parses(ui.jobsText)
         THEN [ui EXCEPT !.jobs = ClampJobs(IntOf(ui.jobsText)),
                         !.jobsText = Shows(ClampJobs(IntOf(ui.jobsText)))]
         ELSE [ui EXCEPT !.jobsText = Shows(ui.jobs)]) \in Windows
    BY <1>2, <1>5, WindowsKept
  <1>7. (IF Parses(ui.levelText)
         THEN [ui EXCEPT !.level = ClampLevel(IntOf(ui.levelText)),
                         !.levelText = Shows(ClampLevel(IntOf(ui.levelText)))]
         ELSE [ui EXCEPT !.levelText = Shows(ui.level)]) \in Windows
    BY <1>3, <1>5, WindowsKept
  <1>8. (IF ParsesFloat(ui.thresholdText)
         THEN [ui EXCEPT !.threshold = ClampThreshold(FloatOf(ui.thresholdText)),
                         !.thresholdText = ShowsFloat(ClampThreshold(FloatOf(ui.thresholdText)))]
         ELSE [ui EXCEPT !.thresholdText = ShowsFloat(ui.threshold)]) \in Windows
    BY <1>4, <1>5, WindowsKept
  <1> QED BY <1>6, <1>7, <1>8 DEF Enter

LEMMA EditingKeeps ==
    ASSUME ui \in Windows,
           \/ Type \/ Enter \/ ResultFills
           \/ \E sort \in {"scan", "similarity", "organize", "prune"} : StartTaskInternal(sort)
    PROVE  /\ ui' \in Windows /\ fresh' = FALSE /\ phase # "off"
           /\ UNCHANGED <<persisted, disk, phase, left, faults>>
  <1>1. CASE Type \/ Enter
    <2>1. PICK u \in Windows : Edit(u)
      BY <1>1, TypeKeeps, EnterKeeps
    <2> QED BY <2>1 DEF Edit, Editing
  <1>2. CASE ResultFills
    <2>1. PICK d \in Dirs : ui' = [ui EXCEPT !.dir = d]
      BY <1>2 DEF ResultFills
    <2>2. ui' \in Windows
      BY <2>1, TextsAre, WindowsKept
    <2> QED BY <1>2, <2>2 DEF ResultFills
  <1>3. CASE \E sort \in {"scan", "similarity", "organize", "prune"} : StartTaskInternal(sort)
    <2>1. PICK sort \in {"scan", "similarity", "organize", "prune"} : StartTaskInternal(sort)
      BY <1>3
    <2> DEFINE jobs == sort \in {"scan", "similarity"}
               level == sort # "prune" /\ ui.zstd
               similar == sort = "similarity"
    <2>2. ui' = Taken(ui, jobs, level, similar)
      BY <2>1 DEF StartTaskInternal
    <2>3. jobs \in BOOLEAN /\ level \in BOOLEAN /\ similar \in BOOLEAN
      BY DEF Windows
    <2> HIDE DEF jobs, level, similar
    <2>4. ui' \in Windows
      BY <2>2, <2>3, TakenIs
    <2> QED BY <2>1, <2>4 DEF StartTaskInternal, Editing
  <1> QED BY <1>1, <1>2, <1>3

-----------------------------------------------------------------------------
(* Saving.                                                                 *)

LEMMA PersistableIs ==
    ASSUME ui \in Windows
    PROVE  /\ Persistable \in Windows /\ BuffersEqual(Persistable)
           /\ Build(Persistable) = Shown(ui)
           /\ Shown(ui) \in Settings /\ Named(Shown(ui))
           /\ Persistable.threshold = Shown(ui).threshold
           /\ Taken(ui, TRUE, TRUE, TRUE) \in Windows
  <1> DEFINE t == Taken(ui, TRUE, TRUE, TRUE)
  <1>1. t \in Windows
    BY TakenIs
  <1>2. Shown(ui) = Build(t) /\ Persistable = Synced(t)
    BY DEF Shown, Persistable
  <1> HIDE DEF t
  <1>3. /\ Synced(t) \in Windows /\ BuffersEqual(Synced(t)) /\ Build(Synced(t)) = Build(t)
        /\ Synced(t).threshold = t.threshold
    BY <1>1, SyncedIs
  <1>4. Build(t).threshold = t.threshold
    BY SMT DEF Build
  <1>5. Shown(ui) \in Settings /\ Named(Shown(ui))
    BY ShownIs
  <1> QED BY <1>1, <1>2, <1>3, <1>4, <1>5 DEF t

LEMMA PersistIs ==
    ASSUME ui \in Windows, Persist
    PROVE  /\ ui' = Persistable /\ persisted' = Shown(ui) /\ faults' = faults
           /\ disk'.is = "file" /\ disk'.holds = Shown(ui)
           /\ Load(disk'.holds) = Restored(Shown(ui))
  <1>1. /\ ui' = Persistable /\ persisted' = Shown(ui) /\ faults' = faults
        /\ disk' = [is |-> "file", holds |-> Written(Shown(ui))]
    BY PersistableIs DEF Persist
  <1>2. Written(Shown(ui)) = Shown(ui) /\ Load(Shown(ui)) = Restored(Shown(ui))
    BY PersistableIs, LoadWritten
  <1> QED BY <1>1, <1>2

LEMMA TornIs ==
    ASSUME ui \in Windows, PersistTorn
    PROVE  /\ ui' \in Windows /\ persisted' = Shown(ui) /\ faults' = faults + 1
           /\ disk'.is = "torn"
  BY PersistableIs DEF PersistTorn

LEMMA RefusedIs ==
    ASSUME ui \in Windows, PersistRefused
    PROVE  /\ ui' \in Windows /\ UNCHANGED <<persisted, disk>>
           /\ faults' \in {faults, faults + 1}
  BY PersistableIs DEF PersistRefused

-----------------------------------------------------------------------------
(* The closing window left what the file gives: its texts are those of its *)
(* values, and its values those it believes saved.                         *)
LEMMA ClosingIsSaved ==
    ASSUME ui \in Windows, persisted \in Settings, Named(persisted),
           ~HasUnsavedChanges(ui, persisted)
    PROVE  Near(Restored(persisted), Shown(ui))
  <1>1. /\ BuffersEqual(ui) /\ Same(Build(ui), persisted)
        /\ SameNumber(ui.threshold, persisted.threshold)
    BY DEF HasUnsavedChanges, Same
  <1>2. /\ Build(ui) \in Settings /\ Shown(ui) \in Settings
        /\ Same(Shown(ui), Build(ui)) /\ Shown(ui).threshold - ui.threshold \in -5 .. 5
    BY <1>1, BuildIs, ShownIs
  <1>3. Same(Restored(persisted), Restored(Shown(ui)))
    <2>1. Same(Shown(ui), persisted)
      BY <1>1, <1>2 DEF Same
    <2>2. Restored(persisted) \in Settings /\ Restored(Shown(ui)) \in Settings
      BY <1>2, RestoredIs
    <2>3. /\ Shown(ui).dir = persisted.dir /\ Shown(ui).zstd = persisted.zstd
          /\ Shown(ui).jobs = persisted.jobs /\ Shown(ui).level = persisted.level
          /\ Shown(ui).pattern = persisted.pattern /\ Shown(ui).keep = persisted.keep
      BY <1>2, <2>1, SameIs
    <2>4. /\ Restored(persisted).dir = persisted.dir /\ Restored(persisted).zstd = persisted.zstd
          /\ Restored(persisted).jobs = persisted.jobs /\ Restored(persisted).level = persisted.level
          /\ Restored(persisted).keep = persisted.keep
          /\ Restored(persisted).pattern =
               IF persisted.pattern = " " THEN DefaultPattern ELSE persisted.pattern
      BY RestoredIs
    <2>5. /\ Restored(Shown(ui)).dir = Shown(ui).dir /\ Restored(Shown(ui)).zstd = Shown(ui).zstd
          /\ Restored(Shown(ui)).jobs = Shown(ui).jobs /\ Restored(Shown(ui)).level = Shown(ui).level
          /\ Restored(Shown(ui)).keep = Shown(ui).keep
          /\ Restored(Shown(ui)).pattern =
               IF Shown(ui).pattern = " " THEN DefaultPattern ELSE Shown(ui).pattern
      BY <1>2, RestoredIs
    <2>6. Restored(persisted).pattern = Restored(Shown(ui)).pattern
      BY <2>3, <2>4, <2>5
    <2> QED BY <2>2, <2>3, <2>4, <2>5, <2>6, SameIs
  <1>4. Restored(persisted).threshold - Shown(ui).threshold \in -10 .. 10
    <2>1. Restored(persisted).threshold = persisted.threshold
      BY RestoredIs
    <2>2. persisted.threshold \in Int /\ Shown(ui).threshold \in Int /\ ui.threshold \in Int
      BY <1>2, Ranges DEF Settings, Windows
    <2> QED BY <1>1, <1>2, <2>1, <2>2, SMT DEF SameNumber
  <1> QED BY <1>3, <1>4 DEF Near

(* What was saved at the closing is what was left.                         *)
LEMMA SavedIsNear ==
    ASSUME NEW s \in Settings
    PROVE  Near(Restored(s), s)
  <1>1. s.threshold \in Thresholds
    BY DEF Settings
  <1>2. s.threshold \in Int
    BY <1>1, Ranges
  <1>3. Restored(s).threshold = s.threshold
    BY RestoredIs
  <1>4. Restored(s).threshold - s.threshold \in -10 .. 10
    BY <1>2, <1>3
  <1> QED BY <1>4 DEF Near, Same

(* Whatever becomes of a save, the window is sound, and knows what is on   *)
(* disk unless something failed.                                           *)
LEMMA Writes ==
    ASSUME IInv, phase # "off", Persist \/ PersistTorn \/ PersistRefused
    PROVE  /\ ui' \in Windows /\ persisted' \in Settings /\ Named(persisted') /\ faults' \in Nat
           /\ disk'.is = "file" => disk'.holds \in Files \cup Settings
           /\ faults' = 0 => Stored' = Restored(persisted')
           /\ Persist \/ PersistTorn => persisted' = Shown(ui)
  <1>1. /\ ui \in Windows /\ persisted \in Settings /\ Named(persisted) /\ faults \in Nat
        /\ disk.is = "file" => disk.holds \in Files \cup Settings
    BY DEF IInv, SettingsTypeOK
  <1>2. faults + 1 \in Nat /\ faults + 1 # 0
    BY <1>1
  <1>3. CASE Persist
    <2>1. /\ ui' = Persistable /\ persisted' = Shown(ui) /\ faults' = faults
          /\ disk'.is = "file" /\ disk'.holds = Shown(ui)
          /\ Load(disk'.holds) = Restored(Shown(ui))
      BY <1>1, <1>3, PersistIs
    <2>2. Stored' = Restored(persisted')
      BY <2>1 DEF Stored
    <2> QED BY <1>1, <2>1, <2>2, PersistableIs
  <1>4. CASE PersistTorn
    <2>1. /\ ui' \in Windows /\ persisted' = Shown(ui) /\ faults' = faults + 1
          /\ disk'.is = "torn"
      BY <1>1, <1>4, TornIs
    <2> QED BY <1>1, <1>2, <2>1, PersistableIs
  <1>5. CASE PersistRefused /\ ~(Persist \/ PersistTorn)
    <2>1. /\ ui' \in Windows /\ UNCHANGED <<persisted, disk>>
          /\ faults' \in {faults, faults + 1}
      BY <1>1, <1>5, RefusedIs
    <2>2. faults' = 0 => Stored' = Restored(persisted')
      BY <1>2, <2>1 DEF IInv, Believed, Stored
    <2> QED BY <1>1, <1>2, <1>5, <2>1, <2>2
  <1> QED BY <1>3, <1>4, <1>5

LEMMA StepIInv == IInv /\ [SettingsNext]_settingsVars => IInv'
  <1> SUFFICES ASSUME IInv, [SettingsNext]_settingsVars PROVE IInv'
    OBVIOUS
  <1>1. /\ ui \in Windows /\ persisted \in Settings /\ Named(persisted) /\ faults \in Nat
        /\ disk.is = "file" => disk.holds \in Files \cup Settings
        /\ left # Nothing => left \in Settings
        /\ phase \in {"off", "on", "dialog"} /\ fresh \in BOOLEAN
    BY DEF IInv, SettingsTypeOK
  <1>2. Stored \in Settings /\ Named(Stored) /\ Settled(Stored)
    BY <1>1, StoredIs
  <1>3. faults' = faults + 1 => faults' \in Nat /\ faults' # 0
    BY <1>1
  <1>4. UNCHANGED disk => Stored' = Stored
    BY DEF Stored
  <1>5. CASE UNCHANGED settingsVars
    BY <1>5, <1>4 DEF settingsVars, IInv, SettingsTypeOK, Believed, LeftIsStored, FreshIsStored
  <1>6. CASE Launch
    <2>1. /\ phase = "off" /\ phase' = "on" /\ fresh' = TRUE /\ UNCHANGED <<disk, left, faults>>
          /\ ui' = Apply(Stored) /\ persisted' = Stored
      BY <1>6, DefaultsAre, ApplyIs DEF Launch, Stored
    <2>2. Apply(Stored) \in Windows /\ Restored(Stored) = Stored
      BY <1>2, ApplyIs, RestoredIs
    <2>3. SettingsTypeOK' /\ Named(persisted)'
      BY <1>1, <1>2, <2>1, <2>2 DEF SettingsTypeOK, Named
    <2>4. Believed' /\ FreshIsStored'
      BY <1>4, <2>1, <2>2 DEF Believed, FreshIsStored
    <2>5. LeftIsStored'
      BY <1>4, <2>1 DEF IInv, LeftIsStored
    <2> QED BY <2>3, <2>4, <2>5 DEF IInv
  <1>7. CASE \/ Type \/ Enter \/ ResultFills
             \/ \E sort \in {"scan", "similarity", "organize", "prune"} : StartTaskInternal(sort)
    <2>1. /\ ui' \in Windows /\ fresh' = FALSE /\ phase # "off"
          /\ UNCHANGED <<persisted, disk, phase, left, faults>>
      BY <1>1, <1>7, EditingKeeps
    <2>2. SettingsTypeOK' /\ Named(persisted)'
      BY <1>1, <2>1 DEF SettingsTypeOK, Named
    <2> QED BY <1>4, <2>1, <2>2 DEF IInv, Believed, LeftIsStored, FreshIsStored
  <1>8. CASE SaveState
    <2>1. /\ phase # "off" /\ phase' = "on" /\ fresh' = FALSE /\ left' = left
          /\ Persist \/ PersistTorn \/ PersistRefused
      BY <1>8 DEF SaveState, Editing
    <2>2. /\ ui' \in Windows /\ persisted' \in Settings /\ Named(persisted') /\ faults' \in Nat
          /\ disk'.is = "file" => disk'.holds \in Files \cup Settings
          /\ faults' = 0 => Stored' = Restored(persisted')
      BY <2>1, Writes
    <2>3. SettingsTypeOK' /\ Named(persisted)'
      BY <1>1, <2>1, <2>2 DEF SettingsTypeOK, Named
    <2> QED BY <2>1, <2>2, <2>3 DEF IInv, Believed, LeftIsStored, FreshIsStored
  <1>9. CASE ResetState
    <2>1. phase' = "on" /\ fresh' = FALSE /\ left' = left /\ phase = "on"
      BY <1>9 DEF ResetState, Editing
    <2>2. CASE /\ disk' = [is |-> "missing", holds |-> << >>]
               /\ ui' = Apply(Defaults) /\ persisted' = Defaults
               /\ UNCHANGED faults
      <3>1. Stored' = Defaults
        BY <2>2 DEF Stored
      <3>2. Apply(Defaults) \in Windows /\ Defaults \in Settings /\ Named(Defaults)
            /\ Restored(Defaults) = Defaults
        BY DefaultsAre, ApplyIs, RestoredIs
      <3>3. SettingsTypeOK' /\ Named(persisted)'
        BY <1>1, <2>1, <2>2, <3>2 DEF SettingsTypeOK, Named
      <3> QED BY <2>1, <2>2, <3>1, <3>2, <3>3 DEF IInv, Believed, LeftIsStored, FreshIsStored
    <2>3. CASE faults' = faults + 1 /\ UNCHANGED <<disk, ui, persisted>>
      <3>1. SettingsTypeOK' /\ Named(persisted)'
        BY <1>1, <1>3, <2>1, <2>3 DEF SettingsTypeOK, Named
      <3> QED BY <1>3, <2>1, <2>3, <3>1 DEF IInv, Believed, LeftIsStored, FreshIsStored
    <2> QED BY <1>9, <2>2, <2>3 DEF ResetState
  <1>10. CASE CloseWindow
    <2>1. phase = "on" /\ UNCHANGED <<ui, persisted, disk, fresh, faults>>
      BY <1>10 DEF CloseWindow
    <2>2. CASE phase' = "dialog" /\ UNCHANGED left
      BY <1>1, <1>4, <2>1, <2>2
         DEF IInv, SettingsTypeOK, Believed, LeftIsStored, FreshIsStored
    <2>3. CASE ~HasUnsavedChanges(ui, persisted) /\ phase' = "off" /\ left' = Shown(ui)
      <3>1. Near(Restored(persisted), Shown(ui)) /\ Shown(ui) \in Settings
        BY <1>1, <2>3, ClosingIsSaved, ShownIs
      <3>2. faults' = 0 => Stored' = Restored(persisted)
        BY <1>4, <2>1 DEF IInv, Believed
      <3>3. LeftIsStored'
        BY <2>3, <3>1, <3>2 DEF LeftIsStored
      <3>4. SettingsTypeOK' /\ Named(persisted)'
        BY <1>1, <2>1, <2>3, <3>1 DEF SettingsTypeOK, Named
      <3> QED BY <2>3, <3>3, <3>4 DEF IInv, Believed, FreshIsStored
    <2> QED BY <1>10, <2>2, <2>3 DEF CloseWindow, Off
  <1>11. CASE SaveAndExit
    <2>1. phase = "dialog" /\ fresh' = FALSE /\ (Persist \/ PersistTorn \/ PersistRefused)
      BY <1>11 DEF SaveAndExit
    <2>2. /\ ui' \in Windows /\ persisted' \in Settings /\ Named(persisted') /\ faults' \in Nat
          /\ disk'.is = "file" => disk'.holds \in Files \cup Settings
          /\ faults' = 0 => Stored' = Restored(persisted')
          /\ Persist \/ PersistTorn => persisted' = Shown(ui)
      BY <2>1, Writes
    <2>3. CASE (Persist \/ PersistTorn) /\ phase' = "off" /\ left' = Shown(ui)
      <3>1. Shown(ui) \in Settings /\ Near(Restored(Shown(ui)), Shown(ui))
        BY <1>1, ShownIs, SavedIsNear
      <3>2. faults' = 0 => Stored' = Restored(Shown(ui))
        BY <2>2, <2>3
      <3>3. LeftIsStored'
        BY <2>3, <3>1, <3>2 DEF LeftIsStored
      <3>4. SettingsTypeOK' /\ Named(persisted)'
        BY <2>1, <2>2, <2>3, <3>1 DEF SettingsTypeOK, Named
      <3> QED BY <2>3, <3>3, <3>4 DEF IInv, Believed, FreshIsStored
    <2>4. CASE phase' = "on" /\ UNCHANGED left
      <3>1. SettingsTypeOK' /\ Named(persisted)'
        BY <1>1, <2>1, <2>2, <2>4 DEF SettingsTypeOK, Named
      <3> QED BY <2>1, <2>2, <2>4, <3>1 DEF IInv, Believed, LeftIsStored, FreshIsStored
    <2> QED BY <1>11, <2>3, <2>4 DEF SaveAndExit, Off
  <1>12. CASE DiscardOrCancel
    <2>1. /\ phase = "dialog" /\ UNCHANGED <<ui, persisted, disk, fresh, faults>>
          /\ \/ phase' = "off" /\ left' = Nothing
             \/ phase' = "on" /\ left' = left
      BY <1>12 DEF DiscardOrCancel, Off
    <2>2. SettingsTypeOK' /\ Named(persisted)'
      BY <1>1, <2>1 DEF SettingsTypeOK, Named
    <2> QED BY <1>4, <2>1, <2>2 DEF IInv, Believed, LeftIsStored, FreshIsStored
  <1>13. CASE Crash
    <2>1. /\ phase' = "off" /\ left' = Nothing /\ faults' = faults + 1
          /\ UNCHANGED <<ui, persisted, disk, fresh>>
      BY <1>13 DEF Crash, Off
    <2>2. SettingsTypeOK' /\ Named(persisted)'
      BY <1>1, <1>3, <2>1 DEF SettingsTypeOK, Named
    <2> QED BY <2>1, <2>2 DEF IInv, Believed, LeftIsStored, FreshIsStored
  <1> QED
    BY <1>5, <1>6, <1>7, <1>8, <1>9, <1>10, <1>11, <1>12, <1>13 DEF SettingsNext

LEMMA SpecIInv == SettingsSpec => []IInv
  BY InitIInv, StepIInv, PTL DEF SettingsSpec

(* Every number the window or the settings hold is in its range and has a  *)
(* text, whatever was typed and whatever the file held.                    *)
THEOREM SettingsTypeCorrect == SettingsSpec => []SettingsTypeOK
  <1>1. IInv => SettingsTypeOK
    BY DEF IInv
  <1> QED BY <1>1, SpecIInv, PTL

-----------------------------------------------------------------------------
(* The window that opens first after one that closed without a loss shows  *)
(* what that one showed: what is saved is what is read, however the numbers *)
(* were typed, and no change slips past the warning at the closing.        *)
THEOREM WindowsReopenAsLeft == SettingsSpec => []LaunchShowsWhatWasLeft
  <1>1. IInv => LaunchShowsWhatWasLeft
    <2> SUFFICES ASSUME IInv, phase = "on", fresh, left # Nothing, faults = 0
                 PROVE  /\ Same(Shown(ui), Restored(left))
                        /\ ui.threshold - left.threshold \in -10 .. 10
      BY DEF LaunchShowsWhatWasLeft, Same
    <2>1. /\ ui \in Windows /\ ui = Apply(Stored) /\ Near(Stored, left) /\ left \in Settings
          /\ disk.is = "file" => disk.holds \in Files \cup Settings
      BY DEF IInv, SettingsTypeOK, FreshIsStored, LeftIsStored
    <2>2. /\ Stored \in Settings /\ BuffersEqual(ui) /\ Build(ui) = Stored
          /\ ui.threshold = Stored.threshold
      BY <2>1, StoredIs, ApplyIs
    <2>3. Same(Shown(ui), Stored)
      BY <2>1, <2>2, ShownIs
    <2>4. Same(Stored, Restored(left)) /\ Stored.threshold - left.threshold \in -10 .. 10
      BY <2>1 DEF Near
    <2>5. Same(Shown(ui), Restored(left))
      BY <2>3, <2>4 DEF Same
    <2> QED BY <2>2, <2>4, <2>5
  <1> QED BY <1>1, SpecIInv, PTL

(* A save that succeeds leaves no unsaved changes behind, although it takes *)
(* the texts over, rounds the one of the threshold and rewrites the others. *)
THEOREM SavesLeaveNothing == SettingsSpec => SavingIsEnough
  <1>1. IInv /\ [SettingsNext]_settingsVars =>
          [SaveState /\ disk'.is = "file" /\ CanPersist /\ faults' = faults
             => ~HasUnsavedChanges(ui', persisted')]_settingsVars
    <2> SUFFICES ASSUME IInv, SaveState, CanPersist, faults' = faults
                 PROVE  ~HasUnsavedChanges(ui', persisted')
      OBVIOUS
    <2>1. ui \in Windows /\ faults \in Nat
      BY DEF IInv, SettingsTypeOK
    <2>2. faults' # faults + 1
      BY <2>1
    <2>3. Persist
      BY <2>2 DEF SaveState, PersistTorn, PersistRefused
    <2>4. /\ ui' = Persistable /\ persisted' = Shown(ui)
          /\ BuffersEqual(Persistable) /\ Build(Persistable) = Shown(ui)
          /\ Persistable.threshold = Shown(ui).threshold /\ Shown(ui).threshold \in Int
      BY <2>1, <2>3, PersistIs, PersistableIs, Ranges DEF Settings
    <2>5. SameNumber(ui'.threshold, persisted'.threshold)
      BY <2>4, SMT DEF SameNumber
    <2> QED BY <2>4, <2>5 DEF HasUnsavedChanges
  <1> QED BY <1>1, SpecIInv, PTL DEF SettingsSpec, SavingIsEnough

(* A scan or a similarity task runs on the numbers the window shows, taken *)
(* over or not, and only on numbers in range.                              *)
THEOREM TasksRunOnTheTexts == SettingsSpec => TasksRunOnWhatIsShown
  <1> DEFINE Runs == ran' # ran /\ ran'.is \in {"scan", "similarity"} =>
                       /\ ran'.jobs = IntOf(ui.jobsText) /\ ran'.jobs \in 1 .. 256
                       /\ ui.zstd => ran'.level = IntOf(ui.levelText) /\ ran'.level \in 1 .. 19
                       /\ ran'.is = "similarity" => ran'.threshold = FloatOf(ui.thresholdText)
  <1>1. IInv /\ [SettingsNext]_settingsVars => [Runs]_settingsVars
    <2> SUFFICES ASSUME IInv, [SettingsNext]_settingsVars, ran' # ran, ran'.is \in {"scan", "similarity"}
                 PROVE  /\ ran'.jobs = IntOf(ui.jobsText) /\ ran'.jobs \in 1 .. 256
                        /\ ui.zstd => ran'.level = IntOf(ui.levelText) /\ ran'.level \in 1 .. 19
                        /\ ran'.is = "similarity" => ran'.threshold = FloatOf(ui.thresholdText)
      OBVIOUS
    <2>1. ran' # Nothing
      BY DEF Nothing
    <2>2. \E sort \in {"scan", "similarity", "organize", "prune"} : StartTaskInternal(sort)
      BY <2>1 DEF SettingsNext, settingsVars, Launch, Type, Enter, ResultFills, Edit, SaveState, ResetState,
                  CloseWindow, SaveAndExit, DiscardOrCancel, Crash
    <2>3. PICK sort \in {"scan", "similarity", "organize", "prune"} : StartTaskInternal(sort)
      BY <2>2
    <2> DEFINE jobs == sort \in {"scan", "similarity"}
               level == sort # "prune" /\ ui.zstd
               similar == sort = "similarity"
               u == Taken(ui, jobs, level, similar)
    <2>4. /\ AllOk(ui, jobs, level, similar)
          /\ ran'.is = sort /\ ran'.jobs = u.jobs /\ ran'.level = u.level
          /\ ran'.threshold = u.threshold
      BY <2>3 DEF StartTaskInternal
    <2>5. ui \in Windows
      BY DEF IInv, SettingsTypeOK
    <2>6. jobs \in BOOLEAN /\ level \in BOOLEAN /\ similar \in BOOLEAN
      BY <2>5 DEF Windows
    <2>7. jobs = TRUE /\ level = ui.zstd /\ (ran'.is = "similarity" => similar)
      BY <2>4, <2>5 DEF Windows
    <2> HIDE DEF jobs, level, similar
    <2>8. /\ jobs /\ JobsOk(ui) => u.jobs = IntOf(ui.jobsText)
          /\ (jobs => JobsOk(ui)) /\ level /\ LevelOk(ui) => u.level = IntOf(ui.levelText)
          /\ (jobs => JobsOk(ui)) /\ (level => LevelOk(ui)) /\ similar /\ ThresholdOk(ui)
               => u.threshold = FloatOf(ui.thresholdText)
      BY <2>5, <2>6, TakenIs
    <2> HIDE DEF u
    <2>9. JobsOk(ui) /\ (level => LevelOk(ui)) /\ (similar => ThresholdOk(ui))
      BY <2>4, <2>7 DEF AllOk
    <2>10. ran'.jobs = IntOf(ui.jobsText) /\ ran'.jobs \in 1 .. 256
      BY <2>4, <2>7, <2>8, <2>9 DEF JobsOk
    <2>11. ASSUME ui.zstd PROVE ran'.level = IntOf(ui.levelText) /\ ran'.level \in 1 .. 19
      BY <2>4, <2>7, <2>8, <2>9, <2>11 DEF LevelOk
    <2>12. ASSUME ran'.is = "similarity" PROVE ran'.threshold = FloatOf(ui.thresholdText)
      BY <2>4, <2>7, <2>8, <2>9, <2>12
    <2> QED BY <2>10, <2>11, <2>12
  <1> QED BY <1>1, SpecIInv, PTL DEF SettingsSpec, TasksRunOnWhatIsShown
=============================================================================
