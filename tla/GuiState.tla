------------------------------ MODULE GuiState ------------------------------
(* gui_state.c and gui_ui_state*.c: the settings of the GUI, in three places. *)
(* The fields of the window hold texts that may or may not be numbers yet;    *)
(* next to some of them stands the value that was last taken over; and        *)
(* persisted_state is what the window believes to be in gui_state.json. The   *)
(* window warns at its closing when the first two differ from the third.      *)
(*                                                                            *)
(* One field stands for each kind the code has: dir for plain texts, zstd for *)
(* switches, jobs and level for the integers with a value of their own (TopK  *)
(* is a third), threshold for the fraction, pattern for texts with a default  *)
(* (the group keys are another), keep for the integer that is only a text.    *)
(* The text "nan", which strtof reads and no comparison refuses, is left out. *)
EXTENDS Integers

CONSTANTS
  Number,          \* the texts that strtol reads to their end -> their value
  Fraction,        \* those strtof reads to their end -> in ten-thousandths
  Texts,           \* what may be typed into a numeric field
  Dirs, Patterns,  \* what may be typed into the others; "" and " " among them
  DefaultPattern,
  Files,           \* the files a first launch may find: partial settings
  MaxEdits,        \* bound: edits, tasks and saves
  MaxLaunches,     \* bound: launches
  MaxFaults        \* bound: failed writes and crashes

ASSUME EmptyAssumption == "" \notin DOMAIN Number \cup DOMAIN Fraction

(* ClampInt, ClampFloat, and the ranges they are called with. *)
Clamp(n, low, high) == IF n < low THEN low ELSE IF n > high THEN high ELSE n
ClampJobs(n)      == Clamp(n, 1, 256)
ClampLevel(n)     == Clamp(n, 1, 19)
ClampThreshold(v) == Clamp(v, 0, 10000)
ClampKeep(n)      == Clamp(n, 0, 1000000)

(* "%.3f" keeps three digits of four. *)
Rounded(v) == 10 * ((v + 5) \div 10)

Given(file, field, default) == IF field \in DOMAIN file THEN file[field] ELSE default

(* What the files can give a field, and the numbers that have a text.        *)
Values(field, default) == {Given(f, field, default) : f \in Files}
Numbers   == {Number[t] : t \in DOMAIN Number}
Fractions == {Fraction[t] : t \in DOMAIN Fraction}

(* The numbers in range, each with a text.                                   *)
Jobs       == {n \in Numbers : ClampJobs(n) = n}
Levels     == {n \in Numbers : ClampLevel(n) = n}
Keeps      == {n \in Numbers : ClampKeep(n) = n}
Thresholds == {v \in 0 .. 10000 : Rounded(v) \in Fractions}

(* The files hold values of the right type; GuiStateLoad skips the others.   *)
ASSUME SwitchAssumption == Values("zstd", FALSE) \subseteq BOOLEAN

(* "%d" and "%.3f" have a text for what they are given: the numbers of the   *)
(* texts, the files and the defaults, brought into their ranges.             *)
ASSUME NumberAssumption ==
  /\ Numbers \cup Values("jobs", 1) \cup Values("level", 3) \cup Values("keep", 200) \subseteq Int
  /\ \A n \in Numbers \cup {0, 1} \cup Values("jobs", 1) : ClampJobs(n) \in Jobs
  /\ \A n \in Numbers \cup {0, 3} \cup Values("level", 3) : ClampLevel(n) \in Levels
  /\ \A n \in Numbers \cup {0, 200} \cup Values("keep", 200) : ClampKeep(n) \in Keeps

ASSUME FractionAssumption ==
  /\ Fractions \cup Values("threshold", 9200) \subseteq Int
  /\ \A v \in Fractions \cup {0, 9200} \cup Values("threshold", 9200) :
       ClampThreshold(v) \in Thresholds

VARIABLES
  ui,         \* the fields of GuiUiState
  persisted,  \* persisted_state
  disk,       \* [is |-> "missing" | "torn" | "file", holds |-> partial settings]
  phase,      \* "off", "on", or "dialog": the exit dialog is shown
  fresh,      \* nothing was done since the launch
  left,       \* what the window showed when it was left without a loss
  ran,        \* the input of the task that was started last, until an edit
  edits, launches, faults

settingsVars == <<ui, persisted, disk, phase, fresh, left, ran, edits, launches, faults>>

Nothing == [is |-> "nothing"]

(* GuiUiTryParseIntStrict and GuiUiTryParseFloatStrict: the whole text has   *)
(* to be read, which holds of the empty text, and its value is 0. *)
Parses(text) == text = "" \/ text \in DOMAIN Number
IntOf(text) == IF text = "" THEN 0 ELSE Number[text]
ParsesFloat(text) == text = "" \/ text \in DOMAIN Fraction
FloatOf(text) == IF text = "" THEN 0 ELSE Fraction[text]

(* "%d" and "%.3f". *)
Shows(n) == CHOOSE t \in DOMAIN Number : Number[t] = n
ShowsFloat(v) == CHOOSE t \in DOMAIN Fraction : Fraction[t] = Rounded(v)

SameNumber(a, b) == a - b \in -5 .. 5
-----------------------------------------------------------------------------
(* GuiUiInitDefaults, GuiStateSetDefaults. *)
Defaults == [dir |-> "", zstd |-> FALSE, jobs |-> 1, level |-> 3, threshold |-> 9200,
             pattern |-> DefaultPattern, keep |-> 200]

(* GuiUiSyncNumericInputBuffers. *)
Synced(u) == [u EXCEPT !.jobsText = Shows(u.jobs), !.levelText = Shows(u.level),
                       !.thresholdText = ShowsFloat(u.threshold)]

(* GuiUiApplyPersistedStateToUi. *)
Apply(s) ==
  Synced([dir |-> s.dir, zstd |-> s.zstd, jobs |-> ClampJobs(s.jobs), jobsText |-> "",
          level |-> ClampLevel(s.level), levelText |-> "",
          threshold |-> ClampThreshold(s.threshold), thresholdText |-> "",
          pattern |-> IF s.pattern = "" THEN DefaultPattern ELSE s.pattern,
          keepText |-> Shows(ClampKeep(s.keep))])

(* GuiUiBuildPersistedStateFromUi: the texts of the clamped numbers do not   *)
(* count, that of keep does, and one that is no number counts as 200. *)
Build(u) ==
  [dir |-> u.dir, zstd |-> u.zstd, jobs |-> u.jobs, level |-> u.level,
   threshold |-> u.threshold,
   pattern |-> IF u.pattern = "" THEN DefaultPattern ELSE u.pattern,
   keep |-> IF Parses(u.keepText) THEN ClampKeep(IntOf(u.keepText)) ELSE 200]

Blank(text) == text \in {"", " "}

(* GuiStateLoad of a file that parses: defaults for what is missing, numbers *)
(* clamped, a blank pattern ignored. *)
Load(file) ==
  LET Field(f) == Given(file, f, Defaults[f])
  IN [dir |-> Field("dir"), zstd |-> Field("zstd"),
      jobs |-> ClampJobs(Field("jobs")), level |-> ClampLevel(Field("level")),
      threshold |-> ClampThreshold(Field("threshold")),
      pattern |-> IF Blank(Field("pattern")) THEN DefaultPattern ELSE Field("pattern"),
      keep |-> ClampKeep(Field("keep"))]

(* GuiStateSave writes every field, the numbers clamped once more. *)
Written(s) == [s EXCEPT !.jobs = ClampJobs(@), !.level = ClampLevel(@),
                        !.threshold = ClampThreshold(@), !.keep = ClampKeep(@)]
-----------------------------------------------------------------------------
JobsOk(u)      == Parses(u.jobsText) /\ IntOf(u.jobsText) \in 1 .. 256
LevelOk(u)     == Parses(u.levelText) /\ IntOf(u.levelText) \in 1 .. 19
ThresholdOk(u) == ParsesFloat(u.thresholdText) /\ FloatOf(u.thresholdText) \in 0 .. 10000

TakeJobs(u)      == [u EXCEPT !.jobs = IntOf(u.jobsText)]
TakeLevel(u)     == [u EXCEPT !.level = IntOf(u.levelText)]
TakeThreshold(u) == [u EXCEPT !.threshold = FloatOf(u.thresholdText)]

(* Take over the numbers a step needs, in this order; the first that is not  *)
(* in its range ends it, and the ones before it stay taken over. *)
Taken(u, jobs, level, threshold) ==
  LET a == IF jobs /\ JobsOk(u) THEN TakeJobs(u) ELSE u
      b == IF (jobs => JobsOk(u)) /\ level /\ LevelOk(u) THEN TakeLevel(a) ELSE a
  IN IF (jobs => JobsOk(u)) /\ (level => LevelOk(u)) /\ threshold /\ ThresholdOk(u)
     THEN TakeThreshold(b) ELSE b

AllOk(u, jobs, level, threshold) ==
  (jobs => JobsOk(u)) /\ (level => LevelOk(u)) /\ (threshold => ThresholdOk(u))

(* GuiUiNumericInputBuffersEqualCurrentValues. *)
BuffersEqual(u) ==
  /\ Parses(u.jobsText) /\ IntOf(u.jobsText) = u.jobs
  /\ Parses(u.levelText) /\ IntOf(u.levelText) = u.level
  /\ ParsesFloat(u.thresholdText) /\ SameNumber(FloatOf(u.thresholdText), u.threshold)

(* Mutant: the texts that were not taken over are not looked at. *)
UnsavedValues(u, p) ==
  \/ [Build(u) EXCEPT !.threshold = 0] # [p EXCEPT !.threshold = 0]
  \/ ~SameNumber(u.threshold, p.threshold)

HasUnsavedChanges(u, p) ==
  \/ ~BuffersEqual(u)
  \/ [Build(u) EXCEPT !.threshold = 0] # [p EXCEPT !.threshold = 0]
  \/ ~SameNumber(u.threshold, p.threshold)

SettingsInit ==
  /\ disk \in {[is |-> "missing", holds |-> << >>], [is |-> "torn", holds |-> << >>]}
              \cup {[is |-> "file", holds |-> f] : f \in Files}
  /\ phase = "off" /\ fresh = FALSE /\ left = Nothing /\ ran = Nothing
  /\ ui = Apply(Defaults) /\ persisted = Defaults
  /\ edits = 0 /\ launches = 0 /\ faults = 0

(* main: the defaults, and over them the file when there is one that parses. *)
Launch ==
  /\ phase = "off" /\ launches < MaxLaunches
  /\ LET settings == IF disk.is = "file" THEN Load(disk.holds) ELSE Build(Apply(Defaults))
     IN ui' = Apply(settings) /\ persisted' = settings
  /\ phase' = "on" /\ fresh' = TRUE /\ ran' = Nothing
  /\ launches' = launches + 1
  /\ UNCHANGED <<disk, left, edits, faults>>

Editing == phase = "on" /\ edits < MaxEdits /\ edits' = edits + 1 /\ fresh' = FALSE

Edit(u) ==
  /\ Editing /\ ui' = u /\ ran' = Nothing
  /\ UNCHANGED <<persisted, disk, phase, left, launches, faults>>

(* The panels: the level can only be typed while zstd is chosen. *)
Type ==
  \/ \E t \in Texts : \/ Edit([ui EXCEPT !.jobsText = t])
                      \/ Edit([ui EXCEPT !.thresholdText = t])
                      \/ Edit([ui EXCEPT !.keepText = t])
                      \/ ui.zstd /\ Edit([ui EXCEPT !.levelText = t])
  \/ \E d \in Dirs : Edit([ui EXCEPT !.dir = d])
  \/ \E p \in Patterns : Edit([ui EXCEPT !.pattern = p])
  \/ \E z \in BOOLEAN : Edit([ui EXCEPT !.zstd = z])

(* Return in a numeric field takes the text over, clamped, or restores it. *)
Enter ==
  \/ Edit(IF Parses(ui.jobsText)
          THEN [ui EXCEPT !.jobs = ClampJobs(IntOf(ui.jobsText)),
                          !.jobsText = Shows(ClampJobs(IntOf(ui.jobsText)))]
          ELSE [ui EXCEPT !.jobsText = Shows(ui.jobs)])
  \/ ui.zstd /\ Edit(IF Parses(ui.levelText)
          THEN [ui EXCEPT !.level = ClampLevel(IntOf(ui.levelText)),
                          !.levelText = Shows(ClampLevel(IntOf(ui.levelText)))]
          ELSE [ui EXCEPT !.levelText = Shows(ui.level)])
  \/ Edit(IF ParsesFloat(ui.thresholdText)
          THEN LET v == ClampThreshold(FloatOf(ui.thresholdText))
               IN [ui EXCEPT !.threshold = v, !.thresholdText = ShowsFloat(v)]
          ELSE [ui EXCEPT !.thresholdText = ShowsFloat(ui.threshold)])

(* The result of a task fills the text fields it is about, like the id of a  *)
(* preview: in any frame, also while the exit dialog is shown. *)
ResultFills ==
  /\ phase # "off" /\ edits < MaxEdits /\ edits' = edits + 1 /\ fresh' = FALSE
  /\ \E d \in Dirs \ {""} : ui' = [ui EXCEPT !.dir = d]
  /\ ran' = Nothing
  /\ UNCHANGED <<persisted, disk, phase, left, launches, faults>>

(* Mutant: a task runs on the values that were taken over before. *)
StartTaskStale(kind) ==
  /\ Editing /\ ui' = ui
  /\ ran' = [is |-> kind, jobs |-> ui.jobs, level |-> ui.level, threshold |-> ui.threshold,
             keep |-> IF Parses(ui.keepText) THEN IntOf(ui.keepText) ELSE -1]
  /\ UNCHANGED <<persisted, disk, phase, left, launches, faults>>

(* GuiUiStartTaskInternal takes over the numbers the task needs, also when   *)
(* it is not started after all, and gives it the values; the count to keep   *)
(* goes as it was typed, -1 if it is no number. *)
StartTaskInternal(kind) ==
  LET jobs  == kind \in {"scan", "similarity"}
      level == kind # "prune" /\ ui.zstd
      u     == Taken(ui, jobs, level, kind = "similarity")
  IN /\ Editing /\ ui' = u
     /\ \/ /\ AllOk(ui, jobs, level, kind = "similarity")
           /\ ran' = [is |-> kind, jobs |-> u.jobs, level |-> u.level, threshold |-> u.threshold,
                      keep |-> IF Parses(u.keepText) THEN IntOf(u.keepText) ELSE -1]
        \/ ran' = ran   \* not all are in range, the task needs more, or a rebuild is confirmed first
     /\ UNCHANGED <<persisted, disk, phase, left, launches, faults>>
-----------------------------------------------------------------------------
(* GuiUiPersistState takes every number over, whether it is in use or not.   *)
CanPersist == AllOk(ui, TRUE, TRUE, TRUE)
Persistable == Synced(Taken(ui, TRUE, TRUE, TRUE))

(* Mutant: the window goes on with what it believed to be on disk. *)
PersistForgotten ==
  /\ CanPersist
  /\ ui' = Persistable
  /\ disk' = [is |-> "file", holds |-> Written(Build(Persistable))]
  /\ UNCHANGED <<persisted, faults>>

Persist ==
  /\ CanPersist
  /\ ui' = Persistable
  /\ persisted' = Build(Persistable)
  /\ disk' = [is |-> "file", holds |-> Written(Build(Persistable))]
  /\ UNCHANGED faults

(* The file is rewritten in place and the result of the write not looked at: *)
(* a full disk tears it and counts as saved. *)
PersistTorn ==
  /\ CanPersist /\ faults < MaxFaults /\ faults' = faults + 1
  /\ ui' = Persistable
  /\ persisted' = Build(Persistable)
  /\ disk' = [is |-> "torn", holds |-> << >>]

(* A number out of its range, or a file that cannot be opened. *)
PersistRefused ==
  \/ /\ ~CanPersist /\ ui' = Taken(ui, TRUE, TRUE, TRUE)
     /\ UNCHANGED <<persisted, disk, faults>>
  \/ /\ CanPersist /\ faults < MaxFaults /\ faults' = faults + 1 /\ ui' = Persistable
     /\ UNCHANGED <<persisted, disk>>

SaveState ==
  /\ Editing
  /\ Persist \/ PersistTorn \/ PersistRefused
  /\ UNCHANGED <<phase, left, ran, launches>>

(* GuiStateReset removes the file, and then the window starts over. *)
ResetState ==
  /\ Editing
  /\ \/ /\ disk' = [is |-> "missing", holds |-> << >>]
        /\ ui' = Apply(Defaults) /\ persisted' = Defaults
        /\ UNCHANGED faults
     \/ /\ disk.is # "missing" /\ faults < MaxFaults /\ faults' = faults + 1
        /\ UNCHANGED <<disk, ui, persisted>>
  /\ UNCHANGED <<phase, left, ran, launches>>

(* What the window shows: the numbers as they are typed, where they are ones. *)
Shown(u) == Build(Taken(u, TRUE, TRUE, TRUE))

Off(shown) == phase' = "off" /\ left' = shown

CloseWindow ==
  /\ phase = "on"
  /\ IF HasUnsavedChanges(ui, persisted) THEN phase' = "dialog" /\ UNCHANGED left
     ELSE Off(Shown(ui))
  /\ UNCHANGED <<ui, persisted, disk, fresh, ran, edits, launches, faults>>

SaveAndExit ==
  /\ phase = "dialog"
  /\ \/ (Persist \/ PersistTorn) /\ Off(Shown(ui))
     \/ PersistRefused /\ phase' = "on" /\ UNCHANGED left
  /\ fresh' = FALSE
  /\ UNCHANGED <<ran, edits, launches>>

DiscardOrCancel ==
  /\ phase = "dialog"
  /\ Off(Nothing) \/ (phase' = "on" /\ UNCHANGED left)
  /\ UNCHANGED <<ui, persisted, disk, fresh, ran, edits, launches, faults>>

Crash ==
  /\ phase # "off" /\ faults < MaxFaults /\ faults' = faults + 1
  /\ Off(Nothing)
  /\ UNCHANGED <<ui, persisted, disk, fresh, ran, edits, launches>>

SettingsNext ==
  \/ Launch \/ Type \/ Enter \/ ResultFills
  \/ \E kind \in {"scan", "similarity", "organize", "prune"} : StartTaskInternal(kind)
  \/ SaveState \/ ResetState
  \/ CloseWindow \/ SaveAndExit \/ DiscardOrCancel
  \/ Crash

SettingsSpec == SettingsInit /\ [][SettingsNext]_settingsVars
-----------------------------------------------------------------------------
Restored(s) == IF s.pattern = " " THEN [s EXCEPT !.pattern = DefaultPattern] ELSE s

(* A window that closed without a warning, or saved at its closing, opens    *)
(* again as it was left: no edit is lost without the user having been asked. *)
(* A blank pattern comes back as the default one, and the threshold can be   *)
(* 0.001 off, since the text may differ from the value and the value from    *)
(* the saved one by half of that without counting as a change.               *)
LaunchShowsWhatWasLeft ==
  phase = "on" /\ fresh /\ left # Nothing /\ faults = 0 =>
    /\ [Shown(ui) EXCEPT !.threshold = 0] = [Restored(left) EXCEPT !.threshold = 0]
    /\ ui.threshold - left.threshold \in -10 .. 10

(* Saving leaves nothing to save, for all that it rounds and rewrites.       *)
SavingIsEnough ==
  [][SaveState /\ disk'.is = "file" /\ CanPersist /\ faults' = faults
       => ~HasUnsavedChanges(ui', persisted')]_settingsVars

(* A task runs on the numbers the window shows at its start, also when they  *)
(* were typed and not taken over, and only on ones in range. *)
TasksRunOnWhatIsShown ==
  [][ran' # ran /\ ran'.is \in {"scan", "similarity"} =>
       /\ ran'.jobs = IntOf(ui.jobsText) /\ ran'.jobs \in 1 .. 256
       /\ ui.zstd => ran'.level = IntOf(ui.levelText) /\ ran'.level \in 1 .. 19
       /\ ran'.is = "similarity" => ran'.threshold = FloatOf(ui.thresholdText)]_settingsVars
=============================================================================
