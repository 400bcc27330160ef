----------------------------- MODULE GuiWorker -----------------------------
(***************************************************************************)
(* The GUI and its worker thread.  The main thread draws frames: in each   *)
(* it takes a snapshot of the worker's state, shows a result the snapshot  *)
(* has, and lets the user start a task, cancel the running one, confirm a  *)
(* rebuild, or leave.  A task runs in a thread of its own, which posts its *)
(* result and ends; the main thread joins it when it clears the result.    *)
(*                                                                         *)
(* Both threads call the App API with one AppContext, which has no lock:   *)
(* nothing but the order of these steps keeps them apart.                  *)
(*                                                                         *)
(* Sources: src/gui/gui_worker.c, gui_worker_tasks*.c,                     *)
(* gui_worker_inspect.c, src/gui/core/gui_main.c, gui_ui_state_tasks.c and *)
(* gui_action_rules.c.  A step is a section under g_worker.mutex or the    *)
(* work between two such sections.                                         *)
(***************************************************************************)
EXTENDS Naturals

CONSTANT MaxTasks   \* bound: tasks started

ASSUME TasksAssumption == MaxTasks \in Nat

VARIABLES \* g_worker, shared by the threads:
          busy,        \* busy
          cancel,      \* cancel_requested
          result,      \* the result posted and not cleared: a task's, or none
          report,      \* the find task whose duplicate report is held, or 0
          \* The worker thread, and its handle:
          thread, kind, outcome,
          started,     \* thread_started
          \* The main thread:
          pc, snap,
          next,        \* where it goes on after an inspection
          valid,       \* runtime_state_valid
          wish,        \* the kind of task it is about to start
          confirmed,   \* it starts it from the rebuild dialog
          pending,     \* rebuild_confirm_pending
          exitDialog,
          \* What happened so far:
          tasks,       \* the number of tasks started; the last one's name
          shown,       \* the last task whose result was shown
          asked        \* the last task the user saw running and cancelled

worker == <<busy, cancel, result, report>>
task   == <<thread, kind, outcome, started>>
gui    == <<next, valid, wish, confirmed, pending, exitDialog>>
past   == <<tasks, shown, asked>>
vars   == <<worker, task, pc, snap, gui, past>>

(* Scans check the cache profile first and heed a cancellation, as the     *)
(* other tasks with hooks do; the two duplicate tasks share the report and *)
(* have no hooks.                                                          *)
Kinds == {"scan", "find", "move", "other"}
Heeds == {"scan", "other"}

NoResult == [task |-> 0, outcome |-> "none"]
Snapshot == [busy |-> busy, result |-> result, report |-> report, task |-> tasks]
NoSnapshot == [busy |-> FALSE, result |-> NoResult, report |-> 0, task |-> 0]

Init ==
    /\ tasks = 0 /\ shown = 0 /\ asked = 0
    /\ busy = FALSE /\ cancel = FALSE /\ result = NoResult /\ report = 0
    /\ thread = "none" /\ kind = "other" /\ outcome = "none" /\ started = FALSE
    /\ pc = "inspect" /\ next = "frame" /\ snap = NoSnapshot
    /\ valid = FALSE /\ wish = "other" /\ confirmed = FALSE
    /\ pending = FALSE /\ exitDialog = FALSE

Goto(l) == pc' = l
InspectThen(l) == pc' = "inspect" /\ next' = l
-----------------------------------------------------------------------------
(* The main thread: the start of a frame, and the result.                  *)

BeginFrame ==
    /\ pc = "frame"
    /\ \/ Goto("idle") /\ snap' = Snapshot /\ UNCHANGED exitDialog
       \/ \* the window is to be closed, with settings that are not saved,
          /\ ~exitDialog /\ exitDialog' = TRUE
          /\ Goto("idle") /\ snap' = Snapshot
       \/ \* or with none
          ~exitDialog /\ Goto("shutdown") /\ UNCHANGED <<snap, exitDialog>>
    /\ UNCHANGED <<worker, task, next, valid, wish, confirmed, pending, past>>

RefreshWhenIdle ==
    /\ pc = "idle"
    /\ \/ ~snap.busy /\ InspectThen("result")
       \/ Goto("result") /\ UNCHANGED next
    /\ UNCHANGED <<worker, task, snap, valid, wish, confirmed, pending, exitDialog, past>>

(* GuiWorkerInspectRuntimeState looks at busy under the lock, and uses the *)
(* AppContext after it.                                                    *)
Inspect ==
    /\ pc = "inspect"
    /\ \/ busy /\ valid' = FALSE /\ Goto(next)
       \/ ~busy /\ Goto("inspecting") /\ UNCHANGED valid
    /\ UNCHANGED <<worker, task, snap, next, wish, confirmed, pending, exitDialog, past>>

Inspected ==
    /\ pc = "inspecting"
    /\ valid' \in BOOLEAN /\ Goto(next)
    /\ UNCHANGED <<worker, task, snap, next, wish, confirmed, pending, exitDialog, past>>

ShowResult ==
    /\ pc = "result"
    /\ IF snap.result # NoResult
       THEN Goto("clear") /\ shown' = snap.result.task
       ELSE Goto("panels") /\ UNCHANGED shown
    /\ UNCHANGED <<worker, task, snap, gui, tasks, asked>>

(* GuiWorkerClearResult: the result under the lock, then the thread.       *)
ClearResult ==
    /\ pc = "clear"
    /\ result' = NoResult /\ Goto("reap")
    /\ UNCHANGED <<busy, cancel, report, task, snap, gui, past>>

Join == thread = "finished" /\ thread' = "none" /\ started' = FALSE
Keep == UNCHANGED <<thread, started>>

(* Mutant: the frame no longer joins a finished thread. *)
NeverReaps ==
    /\ pc = "reap"
    /\ IF snap.busy THEN Goto("panels") /\ UNCHANGED next ELSE InspectThen("panels")
    /\ UNCHANGED <<worker, task, snap, valid, wish, confirmed, pending, exitDialog, past>>

Reap ==
    /\ pc = "reap"
    /\ IF ~busy /\ started THEN Join ELSE Keep
    /\ IF snap.busy THEN Goto("panels") /\ UNCHANGED next ELSE InspectThen("panels")
    /\ UNCHANGED <<worker, kind, outcome, snap, valid, wish, confirmed, pending,
                   exitDialog, past>>
-----------------------------------------------------------------------------
(* The main thread: starting a task.                                       *)

Back == Goto(IF confirmed THEN "frame" ELSE "buttons")

(* Mutant: the buttons stay enabled while a task runs. *)
AlwaysEnabled ==
    /\ pc = "panels" /\ confirmed' = FALSE
    /\ \/ Goto("buttons") /\ UNCHANGED <<wish, next>>
       \/ /\ ~exitDialog /\ ~pending
          /\ wish' \in Kinds /\ InspectThen("canStart")
    /\ UNCHANGED <<worker, task, snap, valid, pending, exitDialog, past>>

(* No panel is drawn behind a dialog; a click on an action while a task    *)
(* runs only shows a message.                                              *)
Panels ==
    /\ pc = "panels" /\ confirmed' = FALSE
    /\ \/ Goto("buttons") /\ UNCHANGED <<wish, next>>
       \/ /\ ~exitDialog /\ ~pending /\ ~snap.busy
          /\ wish' \in Kinds /\ InspectThen("canStart")
    /\ UNCHANGED <<worker, task, snap, valid, pending, exitDialog, past>>

(* "Reset Saved State" clears all the GUI holds, the snapshot too. *)
ResetPaths ==
    /\ pc = "panels" /\ ~exitDialog /\ ~pending /\ ~snap.busy
    /\ snap' = NoSnapshot /\ InspectThen("buttons")
    /\ UNCHANGED <<worker, task, valid, wish, confirmed, pending, exitDialog, past>>

(* GuiActionCanStartTask: some requirements are in the state the GUI has,  *)
(* others in the runtime state it has just inspected.                      *)
CanStart ==
    /\ pc = "canStart"
    /\ \/ Back
       \/ wish = "scan" /\ Goto(IF confirmed THEN "start" ELSE "preflight")
       \/ wish = "find" /\ valid /\ Goto("start")
       \/ wish = "move" /\ snap.report # 0 /\ Goto("start")
       \/ wish = "other" /\ Goto("start")
    /\ UNCHANGED <<worker, task, snap, gui, past>>

Preflight ==
    /\ pc = "preflight"
    /\ IF busy THEN Back ELSE Goto("preflighting")
    /\ UNCHANGED <<worker, task, snap, gui, past>>

Preflighted ==
    /\ pc = "preflighting"
    /\ \/ Back /\ UNCHANGED pending
       \/ Goto("start") /\ UNCHANGED pending
       \/ valid /\ Back /\ pending' = TRUE
    /\ UNCHANGED <<worker, task, snap, next, valid, wish, confirmed, exitDialog, past>>

(* Mutant: the worker is not marked busy before its thread exists. *)
StartUnmarked ==
    /\ pc = "start"
    /\ IF busy
       THEN Back /\ UNCHANGED <<busy, cancel, result, kind>>
       ELSE /\ Goto("create")
            /\ kind' = wish /\ cancel' = FALSE /\ result' = NoResult /\ UNCHANGED busy
    /\ UNCHANGED <<report, thread, outcome, started, snap, gui, past>>

(* Mutant: the cancel flag of the last task is left set. *)
KeepsCancel ==
    /\ pc = "start"
    /\ IF busy
       THEN Back /\ UNCHANGED <<busy, result, kind>>
       ELSE /\ Goto("create")
            /\ kind' = wish /\ busy' = TRUE /\ result' = NoResult
    /\ UNCHANGED <<cancel, report, thread, outcome, started, snap, gui, past>>

(* GuiWorkerStartTask *)
StartTask ==
    /\ pc = "start"
    /\ IF busy
       THEN Back /\ UNCHANGED <<busy, cancel, result, kind>>
       ELSE /\ Goto("create")
            /\ kind' = wish /\ cancel' = FALSE /\ busy' = TRUE /\ result' = NoResult
    /\ UNCHANGED <<report, thread, outcome, started, snap, gui, past>>

CreateThread ==
    /\ pc = "create" /\ Back
    /\ \/ /\ tasks < MaxTasks
          /\ thread' = "created" /\ started' = TRUE /\ tasks' = tasks + 1
          /\ pending' = FALSE /\ UNCHANGED busy
       \/ busy' = FALSE /\ UNCHANGED <<thread, started, tasks, pending>>
    /\ UNCHANGED <<cancel, result, report, kind, outcome, snap, next, valid, wish,
                   confirmed, exitDialog, shown, asked>>
-----------------------------------------------------------------------------
(* The main thread: the cancel button, the dialogs, and the end.           *)

CancelButton ==
    /\ pc = "buttons" /\ Goto("dialogs")
    /\ \/ UNCHANGED <<cancel, asked>>
       \/ snap.busy /\ cancel' = TRUE /\ asked' = snap.task
    /\ UNCHANGED <<busy, result, report, task, snap, gui, tasks, shown>>

ExitDialog ==
    /\ pc = "dialogs" /\ exitDialog
    /\ \/ Goto("frame") /\ exitDialog' \in BOOLEAN
       \/ Goto("shutdown") /\ UNCHANGED exitDialog
    /\ UNCHANGED <<worker, task, snap, next, valid, wish, confirmed, pending, past>>

(* Of a frame whose snapshot says busy GuiUiStartTaskInternal refuses to   *)
(* start a task.                                                           *)
RebuildDialog ==
    /\ pc = "dialogs" /\ ~exitDialog
    /\ \/ Goto("frame") /\ UNCHANGED <<pending, confirmed, next>>
       \/ pending /\ pending' = FALSE /\ Goto("frame") /\ UNCHANGED <<confirmed, next>>
       \/ /\ pending /\ pending' = FALSE /\ ~snap.busy
          /\ confirmed' = TRUE /\ InspectThen("canStart")
    /\ UNCHANGED <<worker, task, snap, valid, wish, exitDialog, past>>

(* Mutant: the shutdown joins without asking whether a thread was started. *)
AlwaysJoins ==
    /\ pc = "shutdown"
    /\ cancel' = TRUE /\ Goto("join")
    /\ UNCHANGED <<busy, result, report, task, snap, gui, past>>

(* GuiWorkerShutdown reads busy and writes cancel_requested unlocked. *)
Shutdown ==
    /\ pc = "shutdown"
    /\ IF busy THEN cancel' = TRUE /\ Goto("join")
       ELSE /\ UNCHANGED cancel
            /\ Goto(IF started THEN "join" ELSE "destroy")
    /\ UNCHANGED <<busy, result, report, task, snap, gui, past>>

JoinAtExit ==
    /\ pc = "join" /\ Join /\ Goto("destroy")
    /\ UNCHANGED <<worker, kind, outcome, snap, gui, past>>

(* The report, the mutex and the AppContext are freed. *)
Destroy ==
    /\ pc = "destroy"
    /\ report' = 0 /\ Goto("exited")
    /\ UNCHANGED <<busy, cancel, result, task, snap, gui, past>>
-----------------------------------------------------------------------------
(* The worker thread.                                                      *)

ThreadBegins ==
    /\ thread = "created"
    /\ thread' = IF kind = "find" THEN "freeing" ELSE "running"
    /\ UNCHANGED <<worker, kind, outcome, started, pc, snap, gui, past>>

(* WorkerRunFindDuplicates frees the old report before it looks for a new  *)
(* one, without the lock.                                                  *)
FreeReport ==
    /\ thread = "freeing"
    /\ report' = 0 /\ thread' = "running"
    /\ UNCHANGED <<busy, cancel, result, kind, outcome, started, pc, snap, gui, past>>

Ended(o) ==
    /\ outcome' = o
    /\ thread' = IF kind \in {"find", "move"} /\ o = "ok" THEN "storing" ELSE "posting"

(* The task, by the App API.  It may see the cancellation. *)
Work ==
    /\ thread = "running"
    /\ \/ Ended("failed")
       \/ (kind = "move" => report # 0) /\ Ended("ok")
       \/ kind \in Heeds /\ cancel /\ Ended("cancelled")
    /\ UNCHANGED <<worker, kind, started, pc, snap, gui, past>>

StoreReport ==
    /\ thread = "storing"
    /\ report' = IF kind = "find" THEN tasks ELSE 0
    /\ thread' = "posting"
    /\ UNCHANGED <<busy, cancel, result, kind, outcome, started, pc, snap, gui, past>>

(* Mutant: busy is cleared and no result is posted. *)
ClearsBusyFirst ==
    /\ thread = "posting"
    /\ busy' = FALSE /\ thread' = "returning"
    /\ UNCHANGED <<cancel, result, report, kind, outcome, started, pc, snap, gui, past>>

(* GuiWorkerSetResult *)
SetResult ==
    /\ thread = "posting"
    /\ result' = [task |-> tasks, outcome |-> outcome]
    /\ busy' = FALSE /\ thread' = "returning"
    /\ UNCHANGED <<cancel, report, kind, outcome, started, pc, snap, gui, past>>

ThreadEnds ==
    /\ thread = "returning" /\ thread' = "finished"
    /\ UNCHANGED <<worker, kind, outcome, started, pc, snap, gui, past>>
-----------------------------------------------------------------------------
Frame  == \/ BeginFrame \/ RefreshWhenIdle \/ Inspect \/ Inspected
          \/ ShowResult \/ ClearResult \/ Reap
Start  == \/ Panels \/ ResetPaths \/ CanStart
          \/ Preflight \/ Preflighted \/ StartTask \/ CreateThread
Close  == \/ CancelButton \/ ExitDialog \/ RebuildDialog
          \/ Shutdown \/ JoinAtExit \/ Destroy
Main   == Frame \/ Start \/ Close
Thread == \/ ThreadBegins \/ FreeReport \/ Work
          \/ StoreReport \/ SetResult \/ ThreadEnds

Next == Main \/ Thread

(* The main thread keeps drawing frames, and a task comes to an end.       *)
Fairness == WF_vars(Main) /\ WF_vars(Thread)
Safety   == Init /\ [][Next]_vars
Spec     == Safety /\ Fairness
-----------------------------------------------------------------------------
(* Properties.                                                             *)

TaskResults == [task : Nat, outcome : {"none", "ok", "failed", "cancelled"}]
Inspections == {"result", "panels", "canStart", "frame", "buttons"}
Places == Inspections \cup
          {"idle", "inspect", "inspecting", "clear", "reap", "preflight",
           "preflighting", "start", "create", "dialogs",
           "shutdown", "join", "destroy", "exited"}

(* The kinds of the variables; thread_started says whether there is a      *)
(* thread to join.                                                         *)
WorkerOK == /\ busy \in BOOLEAN /\ cancel \in BOOLEAN
            /\ result \in TaskResults /\ report \in Nat
TaskOK   == /\ thread \in {"none", "created", "freeing", "running", "storing",
                           "posting", "returning", "finished"}
            /\ kind \in Kinds /\ outcome \in {"none", "ok", "failed", "cancelled"}
            /\ started \in BOOLEAN /\ (started <=> thread # "none")
GuiOK    == /\ pc \in Places /\ next \in Inspections
            /\ snap \in [busy : BOOLEAN, result : TaskResults, report : Nat, task : Nat]
            /\ valid \in BOOLEAN /\ wish \in Kinds /\ confirmed \in BOOLEAN
            /\ pending \in BOOLEAN /\ exitDialog \in BOOLEAN
            /\ tasks \in Nat /\ shown \in Nat /\ asked \in Nat
TypeOK   == WorkerOK /\ TaskOK /\ GuiOK

(* The AppContext is used by one thread at a time: the main thread never   *)
(* inspects, or frees it, while a task is under way.                       *)
Working == thread \in {"created", "freeing", "running", "storing", "posting"}

AppHasOneUser ==
    pc \in {"inspecting", "preflighting", "destroy", "exited"} => ~Working

(* A thread is created only when the last one was joined, so no handle is  *)
(* lost, and the program leaves with none that runs.                       *)
ThreadIsJoined ==
    pc \in {"create", "destroy", "exited"} => thread = "none"

(* docs/tests.md: "while a task is running, task-start action buttons are  *)
(* disabled": what the panels offer rests on a snapshot, and yet no task   *)
(* the user started is refused because another runs, and duplicates are    *)
(* never moved without a report.                                           *)
StartsAreNeverRefused ==
    /\ pc = "start" => ~busy
    /\ thread = "running" /\ kind = "move" => report # 0

(* A task is started only when the results of all before it were shown. *)
ResultsAreShown == pc = "start" => shown = tasks

(* A task is cancelled only if the user pressed the button while he saw    *)
(* this one running, or leaves the program: a click that comes too late    *)
(* does not cancel the next task.                                          *)
CancelReachesItsTask ==
    result.outcome = "cancelled" =>
        result.task = asked \/ pc \in {"join", "destroy", "exited"}

(* The result of a task is shown in the end, unless the user leaves first. *)
ResultIsShown ==
    \A t \in 1 .. MaxTasks : tasks = t ~> shown >= t \/ pc = "exited"

(* Once the user leaves, the program ends, whatever task is running. *)
ExitEnds == pc = "shutdown" ~> pc = "exited"

(* What makes the safety properties inductive.  A working thread has the   *)
(* worker busy and no result; a thread that has ended waits with its       *)
(* result for the frame that shows it, clears it and reaps the thread.     *)
Leaving == pc \in {"join", "destroy", "exited"}
Inspecting(place) == pc \in {"inspect", "inspecting"} /\ next = place

BusyInv ==
    /\ Working => busy /\ result = NoResult
    /\ busy => Working \/ pc = "create"
    /\ thread \in {"returning", "finished"} => result # NoResult \/ pc = "reap"
    /\ thread = "none" /\ ~Leaving => result = NoResult /\ shown = tasks
    /\ pc \in {"destroy", "exited"} => thread = "none"

ResultInv ==
    /\ result # NoResult => result.task = tasks
    /\ thread = "storing" => outcome = "ok"
    /\ thread = "posting" => outcome # "none"
    /\ pc \in {"clear", "reap"} =>
          shown = tasks /\ ~snap.busy /\ ~busy /\ report = snap.report
    /\ pc = "reap" => result = NoResult

(* Until the result of its snapshot was looked at, and until a task is     *)
(* started, an idle snapshot is true.                                      *)
Early == pc \in {"idle", "result"} \/ Inspecting("result")
Late  == \/ pc \in {"panels", "canStart", "preflight", "preflighting", "start"}
         \/ Inspecting("panels") \/ Inspecting("canStart")
         \/ pc \in {"buttons", "dialogs"} /\ pending

SnapInv ==
    /\ snap.result # NoResult => ~snap.busy
    /\ Early /\ ~snap.busy => ~busy /\ result = snap.result /\ report = snap.report
    /\ Late /\ ~snap.busy => ~busy /\ thread = "none" /\ report = snap.report
    /\ pc \in {"canStart", "preflight", "preflighting", "start"} => ~snap.busy
    /\ pc \in {"inspect", "inspecting"} => ~snap.busy
    /\ Inspecting("frame") \/ Inspecting("buttons") => ~busy /\ thread = "none"

(* What a start promises, and whom a cancellation is for. *)
Starting == \/ pc \in {"canStart", "preflight", "preflighting", "start", "create"}
            \/ Inspecting("canStart") \/ Inspecting("buttons")

StartInv ==
    /\ pc = "create" => /\ thread = "none" /\ busy /\ ~cancel /\ ~snap.busy
                        /\ kind = "move" => report # 0
    /\ pc = "start" /\ wish = "move" => report # 0
    /\ pc \in {"preflight", "preflighting"} => wish = "scan"
    /\ thread \in {"created", "running"} /\ kind = "move" => report # 0
    /\ thread = "freeing" => kind = "find"
    /\ Starting => ~pending

CancelInv ==
    /\ snap.busy /\ pc \notin {"frame", "shutdown"} /\ ~Leaving => snap.task = tasks
    /\ cancel /\ Working => asked = tasks \/ Leaving
    /\ thread = "posting" /\ outcome = "cancelled" => asked = tasks \/ Leaving
    /\ CancelReachesItsTask

GuiInv == BusyInv /\ ResultInv /\ SnapInv /\ StartInv /\ CancelInv
=============================================================================
