--------------------------- MODULE PreviewPipeline ---------------------------
(***************************************************************************)
(* The edit-to-pixels pipeline of Steep.                                   *)
(*                                                                         *)
(* Three threads share every rtengine::ImProcCoordinator (a "coordinator": *)
(* the processor of one opened photo, or of the before view of it):        *)
(*   gui      the GTK thread: edits parameters, pans and zooms the visible *)
(*            crop, and closes the photo;                                  *)
(*   worker   the one thread of PreviewProcessingExecutor, which runs      *)
(*            ImProcCoordinator::process and Crop::fullUpdate as tasks;    *)
(*   cleanup  the one thread of EditorCleanupExecutor, which stops and     *)
(*            deletes coordinators behind the GUI's back.                  *)
(* A picture is abstracted to two numbers, the edit it was developed with  *)
(* and the window (position and zoom of the crop) it was rendered for, and *)
(* to the stages of the pipeline that were not run for it because a pass   *)
(* or a frame was broken off.                                              *)
(***************************************************************************)
EXTENDS Naturals, FiniteSets

CONSTANTS
    Coords,         \* coordinators
    Crops,          \* Crop objects: the visible canvas of a coordinator
    CoordOf,        \* Crop::parent
    RenderFlags,    \* change flags that need a rendering pass: its stages
    CanvasFlags,    \* those a frame of every canvas is rendered for
    VoidFlags,      \* M_VOID: change flags that need none
    Actions,        \* refreshmap: the sets of flags an event stands for
    MaxOps,         \* bound: operations the user performs
    Faults,         \* may a stage of a rendering pass throw?
    RepairCancels   \* may the user cancel a repair from the spot panel?

Targets == Coords \cup Crops

Changes == RenderFlags \cup VoidFlags

None == "none"

ASSUME PipelineAssumption ==
    /\ CoordOf \in [Crops -> Coords]
    /\ Coords \cap Crops = {}
    /\ None \notin Targets
    /\ RenderFlags \cap VoidFlags = {}
    /\ CanvasFlags \subseteq RenderFlags /\ CanvasFlags # {}
    /\ Actions \subseteq SUBSET Changes
    /\ MaxOps \in Nat
    /\ Faults \in BOOLEAN
    /\ RepairCancels \in BOOLEAN

Holders == {"gui", "worker", "cleanup", None}

\* An edit, a repair generation or a window is named by the user operation that
\* made it.  Windows start at 1 so that 0 can stand for a blank canvas.
Versions == 0 .. MaxOps + 1

Coord(t) == IF t \in Crops THEN CoordOf[t] ELSE t

CropsOf(c) == {k \in Crops : CoordOf[k] = c}

VARIABLES
    \* ImProcCoordinator, one entry per coordinator
    paramsUpdateMutex,  \* holder of paramsUpdateMutex
    updaterThreadStart, \* holder of updaterThreadStart
    mProcessing,        \* holder of mProcessing
    nextParams,         \* number of the last edit submitted that a canvas
                        \* shows at every zoom
    params,             \* number of the edit being, or last, developed
    changeSinceLast,    \* set of change flags not yet claimed by a pass
    updaterRunning,     \* is a process() task queued or running?
    destroying,         \* shutdown flag
    processingTasks,    \* targets of the tasks remembered for cancellation
    repairRequest,      \* generation of smartRepairRequest_, 0: none/suspended
    repairPass,         \* generation of smartRepairPass_
    progress,           \* last value sent to setProgressState of a listener
    life,               \* "open", "signalled", "closed" or "freed"
    \* Crop, one entry per crop
    cropMutex,          \* holder of cropMutex
    pending, running,   \* CropUpdateState
    listening,          \* is cropImageListener set?
    window,             \* CropHandler: geometry the user asked for last
    painted,            \* geometry of the last frame the CropHandler accepted
    shown,              \* edit number of that frame
    \* ImProcCoordinator and Crop; only the properties read it
    unfinished,         \* stages that were to be run for params when a pass or
                        \* a frame was broken off, and have not been run since
    \* PreviewProcessingExecutor
    tasks,              \* the deque: records [at, of, claimed]
    \* threads
    gui, cleanup,       \* records [pc, on]
    awaited,            \* tasks whose completion the cleanup thread awaits
    worker,             \* record [pc, job, crop, geometry, change, todo]
    ops                 \* user operations performed so far

coordVars == <<paramsUpdateMutex, updaterThreadStart, mProcessing, nextParams,
               params, changeSinceLast, updaterRunning, destroying,
               processingTasks, repairRequest, repairPass, progress, life>>
cropVars == <<cropMutex, pending, running, listening, window, painted, shown,
              unfinished>>
vars == <<coordVars, cropVars, tasks, gui, cleanup, awaited, worker, ops>>

-----------------------------------------------------------------------------

GuiPCs == {"idle", "editing", "code", "start", "startLock", "request",
           "schedule", "signal"}

CleanupPCs == {"idle", "cancel", "wait", "drain", "free"}

WorkerPCs == {"idle",
              "enter", "lock", "loop", "stopped", "quiet", "recheck",
              "release", "resume",                                \* process()
              "render", "overview", "crops",         \* updatePreviewImage()
              "crop", "deliver",                            \* Crop::update()
              "fullEnter", "fullLoop", "fullCrop", "fullDone"} \* fullUpdate()

Idle == [pc |-> "idle", on |-> None]

Resting == [pc |-> "idle", job |-> None, crop |-> None, geometry |-> 0,
            change |-> {}, todo |-> {}]

TaskRecords == [at : Versions, of : Targets, claimed : BOOLEAN]

GuiStates == [pc : GuiPCs, on : Targets \cup {None}]

CleanupStates == [pc : CleanupPCs, on : Coords \cup {None}]

WorkerStates == [pc : WorkerPCs, job : Targets \cup {None},
                 crop : Crops \cup {None}, geometry : Versions,
                 change : SUBSET RenderFlags, todo : SUBSET Crops]

TypeOK ==
    /\ paramsUpdateMutex \in [Coords -> Holders]
    /\ updaterThreadStart \in [Coords -> Holders]
    /\ mProcessing \in [Coords -> Holders]
    /\ nextParams \in [Coords -> Versions]
    /\ params \in [Coords -> Versions]
    /\ changeSinceLast \in [Coords -> SUBSET Changes]
    /\ updaterRunning \in [Coords -> BOOLEAN]
    /\ destroying \in [Coords -> BOOLEAN]
    /\ processingTasks \in [Coords -> SUBSET Targets]
    /\ repairRequest \in [Coords -> Versions]
    /\ repairPass \in [Coords -> Versions]
    /\ progress \in [Coords -> BOOLEAN]
    /\ life \in [Coords -> {"open", "signalled", "closed", "freed"}]
    /\ cropMutex \in [Crops -> Holders]
    /\ pending \in [Crops -> BOOLEAN]
    /\ running \in [Crops -> BOOLEAN]
    /\ listening \in [Crops -> BOOLEAN]
    /\ window \in [Crops -> Versions]
    /\ painted \in [Crops -> Versions]
    /\ shown \in [Crops -> Versions]
    /\ unfinished \in [Targets -> SUBSET RenderFlags]
    /\ tasks \subseteq TaskRecords
    /\ gui \in GuiStates
    /\ cleanup \in CleanupStates
    /\ awaited \subseteq Targets
    /\ worker \in WorkerStates
    /\ ops \in 0 .. MaxOps

Init ==
    /\ paramsUpdateMutex = [c \in Coords |-> None]
    /\ updaterThreadStart = [c \in Coords |-> None]
    /\ mProcessing = [c \in Coords |-> None]
    /\ nextParams = [c \in Coords |-> 0]
    /\ params = [c \in Coords |-> 0]
    /\ changeSinceLast = [c \in Coords |-> {}]
    /\ updaterRunning = [c \in Coords |-> FALSE]
    /\ destroying = [c \in Coords |-> FALSE]
    /\ processingTasks = [c \in Coords |-> {}]
    /\ repairRequest = [c \in Coords |-> 0]
    /\ repairPass = [c \in Coords |-> 0]
    /\ progress = [c \in Coords |-> FALSE]
    /\ life = [c \in Coords |-> "open"]
    /\ cropMutex = [k \in Crops |-> None]
    /\ pending = [k \in Crops |-> FALSE]
    /\ running = [k \in Crops |-> FALSE]
    /\ listening = [k \in Crops |-> TRUE]
    /\ window = [k \in Crops |-> 1]
    /\ painted = [k \in Crops |-> 1]
    /\ shown = [k \in Crops |-> 0]
    /\ unfinished = [t \in Targets |-> {}]
    /\ tasks = {}
    /\ gui = Idle
    /\ cleanup = Idle
    /\ awaited = {}
    /\ worker = Resting
    /\ ops = 0

-----------------------------------------------------------------------------
(* PreviewProcessingExecutor: a deque served newest first by one thread.   *)

Live == {x \in tasks : ~ x.claimed}

Queued(t) == \E x \in Live : x.of = t

\* A task is incomplete until it has run or has been cancelled.
Incomplete(t) == Queued(t) \/ worker.job = t

\* enqueue() drops the cancelled tasks and puts the new one in front of the
\* others.  Only the GUI thread enqueues, at most once per user operation, so
\* the number of the operation orders the deque.
Enqueue(t) == tasks' = Live \cup {[at |-> ops, of |-> t, claimed |-> FALSE]}

\* TaskHandle::cancel for each of a set of handles: claims what has not run.
Cancel(handles) ==
    tasks' = {[x EXCEPT !.claimed = @ \/ x.of \in handles] : x \in tasks}

\* rememberProcessingTask: forgets the handles whose completion is ready.
Remember(t) ==
    processingTasks' = [processingTasks EXCEPT ![Coord(t)] =
                            {h \in @ : Incomplete(h)} \cup {t}]

\* The worker takes the front task; running a cancelled one has no effect.
TakeTask ==
    /\ worker.pc = "idle"
    /\ \E x \in tasks :
          /\ \A y \in tasks : y.at <= x.at
          /\ tasks' = tasks \ {x}
          /\ worker' =
                IF x.claimed THEN worker
                ELSE [worker EXCEPT !.job = x.of,
                         !.pc = IF x.of \in Coords THEN "enter"
                                ELSE "fullEnter"]
    /\ UNCHANGED <<coordVars, cropVars, gui, cleanup, awaited, ops>>

-----------------------------------------------------------------------------
(* The GUI thread: edits.                                                  *)

Callable(c) == life[c] \in {"open", "signalled"}

UserOperation ==
    /\ gui.pc = "idle"
    /\ ops < MaxOps
    /\ ops' = ops + 1

BeginUpdateParams(c) ==
    /\ UserOperation
    /\ Callable(c)
    /\ paramsUpdateMutex[c] = None
    /\ paramsUpdateMutex' = [paramsUpdateMutex EXCEPT ![c] = "gui"]
    /\ gui' = [pc |-> "editing", on |-> c]
    /\ UNCHANGED <<updaterThreadStart, mProcessing, nextParams, params,
                   changeSinceLast, updaterRunning, destroying,
                   processingTasks, repairRequest, repairPass, progress, life,
                   cropVars, tasks, cleanup, awaited, worker>>

\* updateSmartRepairRequest: an edit that touches the inputs of the smart
\* repairs replaces the request by a new one, or by none when no repair spot is
\* left.  The replaced request is cancelled.
UpdateSmartRepairRequest(c) ==
    repairRequest' \in {[repairRequest EXCEPT ![c] = r] :
                            r \in {repairRequest[c], ops, 0}}

\* (An edit that changes raw parameters and needs no pass replaces it too.)
EndUpdateParams(c, action) ==
    /\ gui = [pc |-> "editing", on |-> c]
    /\ changeSinceLast' = [changeSinceLast EXCEPT ![c] = @ \cup action]
    /\ nextParams' = [nextParams EXCEPT
                          ![c] = IF action \cap CanvasFlags # {} THEN ops ELSE @]
    /\ UpdateSmartRepairRequest(c)
    /\ paramsUpdateMutex' = [paramsUpdateMutex EXCEPT ![c] = None]
    /\ gui' = [gui EXCEPT !.pc = "start"]
    /\ UNCHANGED <<updaterThreadStart, mProcessing, params, updaterRunning,
                   destroying, processingTasks, repairPass, progress, life,
                   cropVars, tasks, cleanup, awaited, worker, ops>>

\* startProcessing(int): the settled refinement and the watchdogs ask for a
\* pass without an edit, M_HIGHQUAL | M_MONITOR or ALL.
RequestPass(c) ==
    /\ UserOperation
    /\ Callable(c)
    /\ gui' = [pc |-> "code", on |-> c]
    /\ UNCHANGED <<coordVars, cropVars, tasks, cleanup, awaited, worker>>

StartProcessingCode(c, action) ==
    /\ gui = [pc |-> "code", on |-> c]
    /\ action \cap CanvasFlags # {}
    /\ paramsUpdateMutex[c] = None
    /\ changeSinceLast' = [changeSinceLast EXCEPT ![c] = @ \cup action]
    /\ gui' = [gui EXCEPT !.pc = "start"]
    /\ UNCHANGED <<paramsUpdateMutex, updaterThreadStart, mProcessing,
                   nextParams, params, updaterRunning, destroying,
                   processingTasks, repairRequest, repairPass, progress, life,
                   cropVars, tasks, cleanup, awaited, worker, ops>>

\* cancelSmartRepairs() from the spot panel: the request is cancelled and
\* replaced by a suspended one; no pass is asked for.
CancelRepairs(c) ==
    /\ RepairCancels
    /\ UserOperation
    /\ Callable(c)
    /\ repairRequest' = [repairRequest EXCEPT ![c] = 0]
    /\ UNCHANGED <<paramsUpdateMutex, updaterThreadStart, mProcessing,
                   nextParams, params, changeSinceLast, updaterRunning,
                   destroying, processingTasks, repairPass, progress, life,
                   cropVars, tasks, gui, cleanup, awaited, worker>>

\* retrySmartRepairs(): a new request, then startProcessing(int).
RetryRepairs(c) ==
    /\ UserOperation
    /\ Callable(c)
    /\ paramsUpdateMutex[c] = None
    /\ \E r \in {ops + 1, 0} :
          repairRequest' = [repairRequest EXCEPT ![c] = r]
    /\ gui' = [pc |-> "code", on |-> c]
    /\ UNCHANGED <<paramsUpdateMutex, updaterThreadStart, mProcessing,
                   nextParams, params, changeSinceLast, updaterRunning,
                   destroying, processingTasks, repairPass, progress, life,
                   cropVars, tasks, cleanup, awaited, worker>>

\* startProcessing(): the unlocked test of destroying ...
StartProcessing(c) ==
    /\ gui = [pc |-> "start", on |-> c]
    /\ gui' = IF destroying[c] THEN Idle ELSE [gui EXCEPT !.pc = "startLock"]
    /\ UNCHANGED <<coordVars, cropVars, tasks, cleanup, awaited, worker, ops>>

MayStart(c) == ~ destroying[c] /\ ~ updaterRunning[c]

\* ... and the section under updaterThreadStart.
StartProcessingLocked(c) ==
    /\ gui = [pc |-> "startLock", on |-> c]
    /\ updaterThreadStart[c] = None
    /\ IF MayStart(c)
       THEN /\ updaterRunning' = [updaterRunning EXCEPT ![c] = TRUE]
            /\ Enqueue(c)
            /\ Remember(c)
       ELSE UNCHANGED <<updaterRunning, tasks, processingTasks>>
    /\ gui' = Idle
    /\ UNCHANGED <<paramsUpdateMutex, updaterThreadStart, mProcessing,
                   nextParams, params, changeSinceLast, destroying,
                   repairRequest, repairPass, progress, life, cropVars,
                   cleanup, awaited, worker, ops>>

-----------------------------------------------------------------------------
(* The GUI thread: the visible crop.                                       *)

\* Moving, zooming or resizing the window of the CropHandler; update() blanks
\* the canvas and asks for a frame when the handler is enabled.
MoveWindow(k) ==
    /\ UserOperation
    /\ Callable(CoordOf[k])
    /\ window' = [window EXCEPT ![k] = ops + 2]
    /\ IF listening[k]
       THEN /\ painted' = [painted EXCEPT ![k] = 0]
            /\ gui' = [pc |-> "request", on |-> k]
       ELSE UNCHANGED <<painted, gui>>
    /\ UNCHANGED <<coordVars, cropMutex, pending, running, listening, shown,
                   unfinished, tasks, cleanup, awaited, worker>>

\* setZoom across 100 %: a pass of the coordinator is asked for instead of a
\* frame of the crop alone.
ZoomToFull(k) ==
    /\ UserOperation
    /\ Callable(CoordOf[k])
    /\ listening[k]
    /\ window' = [window EXCEPT ![k] = ops + 2]
    /\ painted' = [painted EXCEPT ![k] = 0]
    /\ gui' = [pc |-> "code", on |-> CoordOf[k]]
    /\ UNCHANGED <<coordVars, cropMutex, pending, running, listening, shown,
                   unfinished, tasks, cleanup, awaited, worker>>

\* setEnabled(true), setEnabled(false)
Enable(k) ==
    /\ UserOperation
    /\ Callable(CoordOf[k])
    /\ ~ listening[k]
    /\ cropMutex[k] = None
    /\ listening' = [listening EXCEPT ![k] = TRUE]
    /\ painted' = [painted EXCEPT ![k] = 0]
    /\ gui' = [pc |-> "request", on |-> k]
    /\ UNCHANGED <<coordVars, cropMutex, pending, running, window, shown,
                   unfinished, tasks, cleanup, awaited, worker>>

Disable(k) ==
    /\ UserOperation
    /\ Callable(CoordOf[k])
    /\ listening[k]
    /\ cropMutex[k] = None
    /\ listening' = [listening EXCEPT ![k] = FALSE]
    /\ painted' = [painted EXCEPT ![k] = 0]
    /\ UNCHANGED <<coordVars, cropMutex, pending, running, window, shown,
                   unfinished, tasks, gui, cleanup, awaited, worker>>

\* Mutant: a request that finds a worker running is not recorded.
TryUpdate_Dropped(k) ==
    /\ gui = [pc |-> "request", on |-> k]
    /\ pending' = [pending EXCEPT ![k] = @ \/ ~ running[k]]
    /\ running' = [running EXCEPT ![k] = TRUE]
    /\ gui' = IF running[k] THEN Idle ELSE [gui EXCEPT !.pc = "schedule"]
    /\ UNCHANGED <<coordVars, cropMutex, listening, window, painted, shown,
                   unfinished, tasks, cleanup, awaited, worker, ops>>

\* tryUpdate(), that is CropUpdateState::request()
TryUpdate(k) ==
    /\ gui = [pc |-> "request", on |-> k]
    /\ pending' = [pending EXCEPT ![k] = TRUE]
    /\ running' = [running EXCEPT ![k] = TRUE]
    /\ gui' = IF running[k] THEN Idle ELSE [gui EXCEPT !.pc = "schedule"]
    /\ UNCHANGED <<coordVars, cropMutex, listening, window, painted, shown,
                   unfinished, tasks, cleanup, awaited, worker, ops>>

\* startUpdate(): scheduleCropUpdate, or CropUpdateState::cancel
StartUpdate(k) ==
    /\ gui = [pc |-> "schedule", on |-> k]
    /\ updaterThreadStart[CoordOf[k]] = None
    /\ IF destroying[CoordOf[k]]
       THEN /\ pending' = [pending EXCEPT ![k] = FALSE]
            /\ running' = [running EXCEPT ![k] = FALSE]
            /\ UNCHANGED <<tasks, processingTasks>>
       ELSE /\ Enqueue(k)
            /\ Remember(k)
            /\ UNCHANGED <<pending, running>>
    /\ gui' = Idle
    /\ UNCHANGED <<paramsUpdateMutex, updaterThreadStart, mProcessing,
                   nextParams, params, changeSinceLast, updaterRunning,
                   destroying, repairRequest, repairPass, progress, life,
                   cropMutex, listening, window, painted, shown, unfinished,
                   cleanup, awaited, worker, ops>>

-----------------------------------------------------------------------------
(* Closing a photo: the GUI signals and lets go, the cleanup thread waits  *)
(* for the worker and deletes.                                             *)

\* signalStop(): destroying, cancelSmartRepairs() ...
SignalStop(c) ==
    /\ gui.pc = "idle"
    /\ life[c] = "open"
    /\ life' = [life EXCEPT ![c] = "signalled"]
    /\ destroying' = [destroying EXCEPT ![c] = TRUE]
    /\ repairRequest' = [repairRequest EXCEPT ![c] = 0]
    /\ gui' = [pc |-> "signal", on |-> c]
    /\ UNCHANGED <<paramsUpdateMutex, updaterThreadStart, mProcessing,
                   nextParams, params, changeSinceLast, updaterRunning,
                   processingTasks, repairPass, progress, cropVars, tasks,
                   cleanup, awaited, worker, ops>>

\* ... and cancelProcessingTasks(false)
SignalCancel(c) ==
    /\ gui = [pc |-> "signal", on |-> c]
    /\ updaterThreadStart[c] = None
    /\ Cancel(processingTasks[c])
    /\ gui' = Idle
    /\ UNCHANGED <<coordVars, cropVars, cleanup, awaited, worker, ops>>

\* The rest of EditorPanel::close(): the listeners are detached, that of the
\* progress included, disconnectCrop(), ipc = nullptr, and the coordinator is
\* handed to the cleanup thread.
Close(c) ==
    /\ gui.pc = "idle"
    /\ life[c] = "signalled"
    /\ life' = [life EXCEPT ![c] = "closed"]
    /\ listening' = [k \in Crops |-> listening[k] /\ CoordOf[k] # c]
    /\ progress' = [progress EXCEPT ![c] = FALSE]
    /\ UNCHANGED <<paramsUpdateMutex, updaterThreadStart, mProcessing,
                   nextParams, params, changeSinceLast, updaterRunning,
                   destroying, processingTasks, repairRequest, repairPass,
                   cropMutex, pending, running, window, painted, shown,
                   unfinished, tasks, gui, cleanup, awaited, worker, ops>>

\* stopProcessing(), and again at the start of ~ImProcCoordinator()
CleanupStart(c) ==
    /\ cleanup.pc = "idle"
    /\ life[c] = "closed"
    /\ destroying' = [destroying EXCEPT ![c] = TRUE]
    /\ repairRequest' = [repairRequest EXCEPT ![c] = 0]
    /\ cleanup' = [pc |-> "cancel", on |-> c]
    /\ UNCHANGED <<paramsUpdateMutex, updaterThreadStart, mProcessing,
                   nextParams, params, changeSinceLast, updaterRunning,
                   processingTasks, repairPass, progress, life, cropVars,
                   tasks, gui, awaited, worker, ops>>

\* cancelProcessingTasks(true): takes the handles, cancels them ...
CleanupCancel(c) ==
    /\ cleanup = [pc |-> "cancel", on |-> c]
    /\ updaterThreadStart[c] = None
    /\ awaited' = processingTasks[c]
    /\ processingTasks' = [processingTasks EXCEPT ![c] = {}]
    /\ Cancel(processingTasks[c])
    /\ cleanup' = [cleanup EXCEPT !.pc = "wait"]
    /\ UNCHANGED <<paramsUpdateMutex, updaterThreadStart, mProcessing,
                   nextParams, params, changeSinceLast, updaterRunning,
                   destroying, repairRequest, repairPass, progress, life,
                   cropVars, gui, worker, ops>>

\* Mutant: the cleanup thread does not wait.
AllComplete_Assumed(handles) == TRUE

AllComplete(handles) == \A t \in handles : ~ Incomplete(t)

\* ... and waits until each of them is complete.
CleanupWait(c) ==
    /\ cleanup = [pc |-> "wait", on |-> c]
    /\ AllComplete(awaited)
    /\ awaited' = {}
    /\ cleanup' = [cleanup EXCEPT !.pc = "drain"]
    /\ UNCHANGED <<coordVars, cropVars, tasks, gui, worker, ops>>

\* mProcessing.lock(); mProcessing.unlock();
CleanupDrain(c) ==
    /\ cleanup = [pc |-> "drain", on |-> c]
    /\ mProcessing[c] = None
    /\ cleanup' = [cleanup EXCEPT !.pc = "free"]
    /\ UNCHANGED <<coordVars, cropVars, tasks, gui, awaited, worker, ops>>

\* freeAll(), then ~Crop() of every crop and the end of the coordinator.
CleanupFree(c) ==
    /\ cleanup = [pc |-> "free", on |-> c]
    /\ mProcessing[c] = None
    /\ \A k \in CropsOf(c) : cropMutex[k] = None
    /\ life' = [life EXCEPT ![c] = "freed"]
    /\ cleanup' = Idle
    /\ UNCHANGED <<paramsUpdateMutex, updaterThreadStart, mProcessing,
                   nextParams, params, changeSinceLast, updaterRunning,
                   destroying, processingTasks, repairRequest, repairPass,
                   progress, cropVars, tasks, gui, awaited, worker, ops>>

-----------------------------------------------------------------------------
(* The worker: ImProcCoordinator::process().                               *)

At(pc, c) == worker.pc = pc /\ worker.job = c

Goto(pc) == worker' = [worker EXCEPT !.pc = pc]

\* The thread owns everything but what its own steps name.
processFrame == <<cropVars, gui, cleanup, awaited, ops, nextParams, destroying,
                  processingTasks, repairRequest, life, tasks>>

ProcessEnter(c) ==
    /\ At("enter", c)
    /\ progress' = [progress EXCEPT ![c] = @ \/ ~ destroying[c]]
    /\ Goto("lock")
    /\ UNCHANGED <<processFrame, paramsUpdateMutex, updaterThreadStart,
                   mProcessing, params, changeSinceLast, updaterRunning,
                   repairPass>>

ProcessLock(c) ==
    /\ At("lock", c)
    /\ paramsUpdateMutex[c] = None
    /\ paramsUpdateMutex' = [paramsUpdateMutex EXCEPT ![c] = "worker"]
    /\ Goto("loop")
    /\ UNCHANGED <<processFrame, updaterThreadStart, mProcessing, params,
                   changeSinceLast, updaterRunning, repairPass, progress>>

\* Mutant: the shutdown test falls through to another round of the loop.
ProcessStop_Spins(c) ==
    /\ At("loop", c)
    /\ destroying[c]
    /\ paramsUpdateMutex' = [paramsUpdateMutex EXCEPT ![c] = None]
    /\ Goto("lock")
    /\ UNCHANGED <<processFrame, updaterThreadStart, mProcessing, params,
                   changeSinceLast, updaterRunning, repairPass, progress>>

\* Shutdown: nothing more will be developed.
ProcessStop(c) ==
    /\ At("loop", c)
    /\ destroying[c]
    /\ updaterThreadStart[c] = None
    /\ changeSinceLast' = [changeSinceLast EXCEPT ![c] = {}]
    /\ updaterRunning' = [updaterRunning EXCEPT ![c] = FALSE]
    /\ paramsUpdateMutex' = [paramsUpdateMutex EXCEPT ![c] = None]
    /\ Goto("stopped")
    /\ UNCHANGED <<processFrame, updaterThreadStart, mProcessing, params,
                   repairPass, progress>>

\* Mutant: the shutdown exit does not balance the progress flag.
ProcessStopped_Silent(c) ==
    /\ At("stopped", c)
    /\ worker' = Resting
    /\ UNCHANGED <<processFrame, paramsUpdateMutex, updaterThreadStart,
                   mProcessing, params, changeSinceLast, updaterRunning,
                   repairPass, progress>>

\* The progress flag is balanced on the shutdown exit too.
ProcessStopped(c) ==
    /\ At("stopped", c)
    /\ progress' = [progress EXCEPT ![c] = FALSE]
    /\ worker' = Resting
    /\ UNCHANGED <<processFrame, paramsUpdateMutex, updaterThreadStart,
                   mProcessing, params, changeSinceLast, updaterRunning,
                   repairPass>>

\* No change left: tell the listener without holding the lock ...
ProcessQuiet(c) ==
    /\ At("loop", c)
    /\ ~ destroying[c]
    /\ changeSinceLast[c] = {}
    /\ paramsUpdateMutex' = [paramsUpdateMutex EXCEPT ![c] = None]
    /\ Goto("quiet")
    /\ UNCHANGED <<processFrame, updaterThreadStart, mProcessing, params,
                   changeSinceLast, updaterRunning, repairPass, progress>>

ProcessQuietProgress(c) ==
    /\ At("quiet", c)
    /\ progress' = [progress EXCEPT ![c] = FALSE]
    /\ Goto("recheck")
    /\ UNCHANGED <<processFrame, paramsUpdateMutex, updaterThreadStart,
                   mProcessing, params, changeSinceLast, updaterRunning,
                   repairPass>>

\* Mutant: the second look is not covered by the lock up to the release.
ProcessRecheck_Unlocked(c) ==
    /\ At("recheck", c)
    /\ paramsUpdateMutex[c] = None
    /\ Goto(IF changeSinceLast[c] # {} /\ ~ destroying[c]
            THEN "resume" ELSE "release")
    /\ UNCHANGED <<processFrame, paramsUpdateMutex, updaterThreadStart,
                   mProcessing, params, changeSinceLast, updaterRunning,
                   repairPass, progress>>

\* ... and look again: an edit may have come in between.
ProcessRecheck(c) ==
    /\ At("recheck", c)
    /\ paramsUpdateMutex[c] = None
    /\ IF changeSinceLast[c] # {} /\ ~ destroying[c]
       THEN /\ Goto("resume")
            /\ UNCHANGED paramsUpdateMutex
       ELSE /\ Goto("release")
            /\ paramsUpdateMutex' = [paramsUpdateMutex EXCEPT ![c] = "worker"]
    /\ UNCHANGED <<processFrame, updaterThreadStart, mProcessing, params,
                   changeSinceLast, updaterRunning, repairPass, progress>>

ProcessResume(c) ==
    /\ At("resume", c)
    /\ progress' = [progress EXCEPT ![c] = @ \/ ~ destroying[c]]
    /\ Goto("lock")
    /\ UNCHANGED <<processFrame, paramsUpdateMutex, updaterThreadStart,
                   mProcessing, params, changeSinceLast, updaterRunning,
                   repairPass>>

\* The claim of the updater is given up under both locks.  (The code tests
\* changeSinceLast once more here; paramsUpdateMutex was not released since
\* ProcessRecheck, so that test cannot differ.)
ProcessRelease(c) ==
    /\ At("release", c)
    /\ updaterThreadStart[c] = None
    /\ updaterRunning' = [updaterRunning EXCEPT ![c] = FALSE]
    /\ paramsUpdateMutex' = [paramsUpdateMutex EXCEPT ![c] = None]
    /\ worker' = Resting
    /\ UNCHANGED <<processFrame, updaterThreadStart, mProcessing, params,
                   changeSinceLast, repairPass, progress>>

\* One snapshot of everything submitted so far; M_VOID alone needs no pass.
\* The flags are gone from here on, whatever becomes of the pass.
ProcessClaim(c) ==
    /\ At("loop", c)
    /\ ~ destroying[c]
    /\ changeSinceLast[c] # {}
    /\ params' = [params EXCEPT ![c] = nextParams[c]]
    /\ repairPass' = [repairPass EXCEPT ![c] = repairRequest[c]]
    /\ changeSinceLast' = [changeSinceLast EXCEPT ![c] = {}]
    /\ paramsUpdateMutex' = [paramsUpdateMutex EXCEPT ![c] = None]
    /\ LET change == changeSinceLast[c] \cap RenderFlags IN
       worker' = [worker EXCEPT !.change = change,
                     !.pc = IF change # {} THEN "render" ELSE "lock"]
    /\ UNCHANGED <<processFrame, updaterThreadStart, mProcessing,
                   updaterRunning, progress>>

-----------------------------------------------------------------------------
(* The worker: updatePreviewImage() under mProcessing.                     *)

\* The pass is over, for better or worse.
LeavePass == [worker EXCEPT !.pc = "lock", !.crop = None, !.geometry = 0,
                 !.change = {}, !.todo = {}]

renderFrame == <<gui, cleanup, awaited, ops, tasks, paramsUpdateMutex,
                 updaterThreadStart, nextParams, params, changeSinceLast,
                 updaterRunning, destroying, processingTasks, repairRequest,
                 repairPass, progress, life, pending, running, listening,
                 window>>

\* SmartRepairControl::cancelled of the request the pass started with
RepairCancelled(c) == repairPass[c] # 0 /\ repairPass[c] # repairRequest[c]

RenderBegin(c) ==
    /\ At("render", c)
    /\ mProcessing[c] = None
    /\ mProcessing' = [mProcessing EXCEPT ![c] = "worker"]
    /\ Goto("overview")
    /\ UNCHANGED <<renderFrame, cropMutex, painted, shown, unfinished>>

\* The whole-image stages of the pass's own flags are through; the crops come
\* next.  A pass for less than ALL may find that the whole image needs none,
\* because neither its flags nor its edits matter at this zoom.
RenderOverview(c) ==
    /\ At("overview", c)
    /\ worker' = [worker EXCEPT !.pc = "crops", !.todo = CropsOf(c)]
    /\ \/ unfinished' = [unfinished EXCEPT ![c] = @ \ worker.change]
       \/ worker.change # RenderFlags /\ UNCHANGED unfinished
    /\ UNCHANGED <<renderFrame, mProcessing, cropMutex, painted, shown>>

\* The early returns on shutdown, a cancelled repair, a stage that throws.  What
\* the pass was to run is out of date from now on: params has been replaced, and
\* nothing remembers the flags.
RenderAbort(c) ==
    /\ At("overview", c)
    /\ destroying[c] \/ RepairCancelled(c) \/ Faults
    /\ mProcessing' = [mProcessing EXCEPT ![c] = None]
    /\ worker' = LeavePass
    /\ unfinished' = [t \in Targets |->
                         IF Coord(t) = c THEN unfinished[t] \cup worker.change
                         ELSE unfinished[t]]
    /\ UNCHANGED <<renderFrame, cropMutex, painted, shown>>

\* A crop is left out if nobody looks at it, or if the pass concerns nothing
\* that a canvas below full resolution shows.
CropSkip(c, k) ==
    /\ At("crops", c)
    /\ k \in worker.todo
    /\ cropMutex[k] = None
    /\ ~ listening[k] \/ worker.change \cap CanvasFlags = {}
    /\ worker' = [worker EXCEPT !.todo = @ \ {k}]
    /\ UNCHANGED <<renderFrame, mProcessing, cropMutex, painted, shown,
                   unfinished>>

CropBegin(c, k) ==
    /\ At("crops", c)
    /\ k \in worker.todo
    /\ cropMutex[k] = None
    /\ listening[k]
    /\ cropMutex' = [cropMutex EXCEPT ![k] = "worker"]
    /\ worker' = [worker EXCEPT !.pc = "crop", !.crop = k,
                     !.geometry = window[k], !.todo = @ \ {k}]
    /\ UNCHANGED <<renderFrame, mProcessing, painted, shown, unfinished>>

\* The overview, histogram and vectorscope tail feeds no canvas.
RenderEnd(c) ==
    /\ At("crops", c)
    /\ worker.todo = {}
    /\ mProcessing' = [mProcessing EXCEPT ![c] = None]
    /\ worker' = LeavePass
    /\ UNCHANGED <<renderFrame, cropMutex, painted, shown, unfinished>>

-----------------------------------------------------------------------------
(* The worker: Crop::update() and CropHandler::setDetailedCrop().          *)

AfterCrop == IF worker.job \in Crops THEN "fullLoop" ELSE "crops"

\* The stages of the pass, or all of them for fullUpdate(), have been run on the
\* crop.  The frame is dropped if nobody listens or the coordinator is stopping.
\* (The listener is loaded once more after this test; whatever happens between
\* the two loads can happen after the second as well.)
CropFinish(k) ==
    /\ worker.pc = "crop" /\ worker.crop = k
    /\ LET wanted == listening[k] /\ ~ destroying[CoordOf[k]] IN
       /\ worker' = IF wanted THEN [worker EXCEPT !.pc = "deliver"]
                    ELSE [worker EXCEPT !.pc = AfterCrop, !.crop = None,
                                        !.geometry = 0]
       /\ cropMutex' = IF wanted THEN cropMutex
                       ELSE [cropMutex EXCEPT ![k] = None]
    /\ unfinished' = [unfinished EXCEPT
                         ![k] = IF worker.job = k THEN {} ELSE @ \ worker.change]
    /\ UNCHANGED <<renderFrame, mProcessing, painted, shown>>

\* Mutant: a frame for a window that has moved is accepted.
Accepted_Stale(k) == TRUE

\* acceptUpdate()
Accepted(k) == worker.geometry = window[k]

\* setDetailedCrop() of the listener loaded before, which no lock keeps from
\* being detached meanwhile.
CropDeliver(k) ==
    /\ worker.pc = "deliver" /\ worker.crop = k
    /\ IF Accepted(k)
       THEN /\ painted' = [painted EXCEPT ![k] = worker.geometry]
            /\ shown' = [shown EXCEPT ![k] = params[CoordOf[k]]]
       ELSE UNCHANGED <<painted, shown>>
    /\ cropMutex' = [cropMutex EXCEPT ![k] = None]
    /\ worker' = [worker EXCEPT !.pc = AfterCrop, !.crop = None,
                                !.geometry = 0]
    /\ UNCHANGED <<renderFrame, mProcessing, unfinished>>

\* An exception leaves update().  Inside a pass it ends the pass, with the crops
\* it has not come to; a window that moved had every stage asked for ...
PassThrow(k) ==
    /\ worker.pc = "crop" /\ worker.crop = k /\ worker.job \in Coords
    /\ RepairCancelled(CoordOf[k]) \/ Faults
    /\ cropMutex' = [cropMutex EXCEPT ![k] = None]
    /\ mProcessing' = [mProcessing EXCEPT ![CoordOf[k]] = None]
    /\ worker' = LeavePass
    /\ unfinished' = [t \in Targets |->
                         IF t = k THEN RenderFlags
                         ELSE IF t \in worker.todo
                         THEN unfinished[t] \cup worker.change
                         ELSE unfinished[t]]
    /\ UNCHANGED <<renderFrame, painted, shown>>

\* ... and inside fullUpdate() the frame is lost.
FullThrow(k) ==
    /\ worker.pc = "crop" /\ worker.crop = k /\ worker.job = k
    /\ RepairCancelled(CoordOf[k]) \/ Faults
    /\ cropMutex' = [cropMutex EXCEPT ![k] = None]
    /\ worker' = [worker EXCEPT !.pc = "fullLoop", !.crop = None, !.geometry = 0]
    /\ unfinished' = [unfinished EXCEPT ![k] = RenderFlags]
    /\ UNCHANGED <<renderFrame, mProcessing, painted, shown>>

-----------------------------------------------------------------------------
(* The worker: Crop::fullUpdate(), which keeps updaterThreadStart.         *)

fullFrame == <<gui, cleanup, awaited, ops, tasks, paramsUpdateMutex,
               mProcessing, nextParams, params, changeSinceLast,
               updaterRunning, destroying, processingTasks, repairRequest,
               repairPass, life, listening, window, painted, shown,
               unfinished>>

FullEnter(k) ==
    /\ At("fullEnter", k)
    /\ updaterThreadStart[CoordOf[k]] = None
    /\ ~ destroying[CoordOf[k]]
    /\ updaterThreadStart' =
          [updaterThreadStart EXCEPT ![CoordOf[k]] = "worker"]
    /\ progress' = [progress EXCEPT ![CoordOf[k]] = TRUE]
    /\ Goto("fullLoop")
    /\ UNCHANGED <<fullFrame, pending, running, cropMutex>>

\* Shutdown: CropUpdateState::cancel()
FullRefused(k) ==
    /\ At("fullEnter", k)
    /\ updaterThreadStart[CoordOf[k]] = None
    /\ destroying[CoordOf[k]]
    /\ pending' = [pending EXCEPT ![k] = FALSE]
    /\ running' = [running EXCEPT ![k] = FALSE]
    /\ worker' = Resting
    /\ UNCHANGED <<fullFrame, updaterThreadStart, progress, cropMutex>>

\* CropUpdateState::takePending(), with a request ...
TakePending(k) ==
    /\ At("fullLoop", k)
    /\ pending[k]
    /\ pending' = [pending EXCEPT ![k] = FALSE]
    /\ Goto("fullCrop")
    /\ UNCHANGED <<fullFrame, updaterThreadStart, progress, cropMutex,
                   running>>

\* ... and without: the worker's claim is given up in the same section.
TakeNothing(k) ==
    /\ At("fullLoop", k)
    /\ ~ pending[k]
    /\ running' = [running EXCEPT ![k] = FALSE]
    /\ Goto("fullDone")
    /\ UNCHANGED <<fullFrame, updaterThreadStart, progress, cropMutex,
                   pending>>

FullCrop(k) ==
    /\ At("fullCrop", k)
    /\ cropMutex[k] = None
    /\ cropMutex' = [cropMutex EXCEPT ![k] = "worker"]
    /\ worker' = [worker EXCEPT !.pc = "crop", !.crop = k,
                     !.geometry = window[k]]
    /\ UNCHANGED <<fullFrame, updaterThreadStart, progress, pending, running>>

\* Mutant: the claim is given up at the end of the task, after the last look.
FullLeave_LateRelease(k) ==
    /\ At("fullDone", k)
    /\ progress' = [progress EXCEPT ![CoordOf[k]] = FALSE]
    /\ updaterThreadStart' = [updaterThreadStart EXCEPT ![CoordOf[k]] = None]
    /\ running' = [running EXCEPT ![k] = FALSE]
    /\ worker' = Resting
    /\ UNCHANGED <<fullFrame, pending, cropMutex>>

FullLeave(k) ==
    /\ At("fullDone", k)
    /\ progress' = [progress EXCEPT ![CoordOf[k]] = FALSE]
    /\ updaterThreadStart' = [updaterThreadStart EXCEPT ![CoordOf[k]] = None]
    /\ worker' = Resting
    /\ UNCHANGED <<fullFrame, pending, running, cropMutex>>

-----------------------------------------------------------------------------

\* A user who has stopped: all photos closed and deleted, nothing left to run.
Finished ==
    /\ \A c \in Coords : life[c] = "freed"
    /\ gui.pc = "idle" /\ cleanup.pc = "idle" /\ worker.pc = "idle"
    /\ tasks = {}
    /\ UNCHANGED vars

\* What a thread does on its own once an operation has begun.
GuiStep ==
    \/ \E c \in Coords :
          \/ \E action \in Actions : \/ EndUpdateParams(c, action)
                                    \/ StartProcessingCode(c, action)
          \/ StartProcessing(c)
          \/ StartProcessingLocked(c)
          \/ SignalCancel(c)
    \/ \E k \in Crops : TryUpdate(k) \/ StartUpdate(k)

UserStep ==
    \/ \E c \in Coords : \/ BeginUpdateParams(c) \/ RequestPass(c)
                         \/ CancelRepairs(c) \/ RetryRepairs(c)
                         \/ SignalStop(c) \/ Close(c)
    \/ \E k \in Crops : \/ MoveWindow(k) \/ ZoomToFull(k)
                        \/ Enable(k) \/ Disable(k)

CleanupStep ==
    \E c \in Coords :
        \/ CleanupStart(c) \/ CleanupCancel(c) \/ CleanupWait(c)
        \/ CleanupDrain(c) \/ CleanupFree(c)

ProcessStep(c) ==
    \/ ProcessEnter(c) \/ ProcessLock(c) \/ ProcessStop(c) \/ ProcessStopped(c)
    \/ ProcessQuiet(c) \/ ProcessQuietProgress(c) \/ ProcessRecheck(c)
    \/ ProcessResume(c) \/ ProcessRelease(c) \/ ProcessClaim(c)

RenderStep(c) ==
    \/ RenderBegin(c) \/ RenderOverview(c) \/ RenderAbort(c) \/ RenderEnd(c)
    \/ \E k \in Crops : CropSkip(c, k) \/ CropBegin(c, k)

CropStep(k) ==
    \/ CropFinish(k) \/ CropDeliver(k) \/ PassThrow(k) \/ FullThrow(k)
    \/ FullEnter(k) \/ FullRefused(k) \/ TakePending(k) \/ TakeNothing(k)
    \/ FullCrop(k) \/ FullLeave(k)

WorkerStep ==
    \/ TakeTask
    \/ \E c \in Coords : ProcessStep(c) \/ RenderStep(c)
    \/ \E k \in Crops : CropStep(k)

Next == UserStep \/ GuiStep \/ CleanupStep \/ WorkerStep \/ Finished

Spec == Init /\ [][Next]_vars

\* A thread that can go on does: the scheduler runs every thread, and no thread
\* of the program stops of its own accord in the middle of an operation.  What
\* the user does next is never assumed.
FairSpec ==
    Spec /\ WF_vars(GuiStep) /\ WF_vars(CleanupStep) /\ WF_vars(WorkerStep)

-----------------------------------------------------------------------------
(* Safety.                                                                 *)

\* The GUI thread still has to call startProcessing() for what it changed.
WillStart(c) == gui.on = c /\ gui.pc \in {"start", "startLock"}

\* No edit is lost (endUpdateParams against the exit of process()): a change
\* nobody has claimed has an updater that will, or a GUI thread on its way to
\* start one, unless the photo is being closed.
NoLostEdit ==
    \A c \in Coords :
        changeSinceLast[c] # {} /\ ~ destroying[c] =>
            updaterRunning[c] \/ WillStart(c)

\* updaterRunning is a claim somebody honours: it never stays set without a
\* process() task that is queued or running.
UpdaterIsAlive ==
    \A c \in Coords :
        updaterRunning[c] /\ ~ destroying[c] => Incomplete(c)

\* No zoom or pan is lost (CropUpdateState): a request has a worker that will
\* take it, and the claim "running" belongs to a task that is queued, executing
\* its loop, or about to be scheduled.
NoLostWindow ==
    \A k \in Crops :
        /\ pending[k] => running[k]
        /\ running[k] /\ ~ destroying[CoordOf[k]] =>
              \/ Queued(k)
              \/ worker.job = k /\ worker.pc # "fullDone"
              \/ gui.pc = "schedule" /\ gui.on = k

\* Requests coalesce: a target never has two tasks at once.
OneTaskPerTarget ==
    /\ \A x, y \in Live : x.of = y.of => x = y
    /\ \A x \in Live : x.of # worker.job

\* Closing is safe: once the coordinator is deleted no thread works for it and
\* no task that could still run captures it or one of its crops.
NoUseAfterFree ==
    \A t \in Targets :
        life[Coord(t)] = "freed" =>
            ~ Incomplete(t) /\ gui.on # t /\ cleanup.on # t

\* The progress flag of the editor is true only while the worker is busy with
\* the photo: every setProgressState(true) is balanced.  (A flag wedged true
\* blocks the deferred high-quality refinement.)
ProgressBalanced ==
    \A c \in Coords :
        progress[c] => worker.job # None /\ Coord(worker.job) = c

\* Is a stage of the picture out of date, because a pass or a frame was broken
\* off and no later one has run the stage?  (A pass runs the stages of its own
\* flags only: one for the tone leaves the source as it was.)
Unfinished(k) == unfinished[CoordOf[k]] \cup unfinished[k] # {}

\* "Idle" means "up to date": when no task of the photo is left, the canvas
\* shows the latest edit in the window the user asked for last, unless a stage
\* that was broken off has not been run since.  This joins both hand-offs: a
\* frame for a window that has moved is dropped by the CropHandler, an edit may
\* come at any time, and something else must already be under way to make up
\* for it.
SettledIsCurrent ==
    \A k \in Crops :
        LET c == CoordOf[k] IN
        /\ listening[k] /\ ~ destroying[c] /\ ~ Unfinished(k)
        /\ ~ Incomplete(c) /\ ~ Incomplete(k) /\ gui.pc = "idle"
        => shown[k] = nextParams[c] /\ painted[k] = window[k]

-----------------------------------------------------------------------------
(* The inductive invariant behind the hand-offs and the refinement.        *)

\* Who is where, and on whose behalf.
ThreadShape ==
    /\ worker.pc = "idle" => worker.job = None
    /\ worker.pc \in {"enter", "lock", "loop", "stopped", "quiet", "recheck",
                      "release", "resume", "render", "overview", "crops"}
          => worker.job \in Coords
    /\ worker.pc \in {"fullEnter", "fullLoop", "fullCrop", "fullDone"}
          => worker.job \in Crops
    /\ worker.pc \in {"crop", "deliver"} =>
          /\ worker.job \in Targets
          /\ worker.crop \in Crops
          /\ worker.job \in Crops => worker.job = worker.crop
    /\ gui.pc \in {"editing", "code", "start", "startLock", "signal"}
          => gui.on \in Coords
    /\ gui.pc \in {"request", "schedule"} => gui.on \in Crops
    /\ cleanup.pc # "idle" => cleanup.on \in Coords

\* A delivery goes to a canvas that is visible, or whose photo is closing: the
\* listener is taken off under cropMutex, which the worker holds meanwhile,
\* except on close.
DeliveryIsSeen ==
    /\ worker.pc \in {"crop", "deliver"} => cropMutex[worker.crop] = "worker"
    /\ worker.pc = "deliver" =>
          listening[worker.crop] \/ destroying[CoordOf[worker.crop]]

\* paramsUpdateMutex is held exactly where the code is between lock and unlock.
ParamsHolders ==
    \A c \in Coords :
        /\ paramsUpdateMutex[c] = "worker" <=>
              worker.job = c /\ worker.pc \in {"loop", "release"}
        /\ paramsUpdateMutex[c] = "gui" <=> gui.pc = "editing" /\ gui.on = c

\* While the updater gives up its claim there is nothing left to develop.
NothingLeft ==
    worker.pc = "release" =>
        changeSinceLast[worker.job] = {} \/ destroying[worker.job]

\* Only tasks of a stopping coordinator are ever cancelled.
OnlyStoppingIsCancelled ==
    /\ \A x \in tasks : x.claimed => destroying[Coord(x.of)]
    /\ \A c \in Coords : \A t \in processingTasks[c] : Coord(t) = c
    /\ \A c \in Coords : life[c] # "open" => destroying[c]
    /\ gui.pc = "signal" => destroying[gui.on]
    /\ cleanup.pc # "idle" => destroying[cleanup.on]
    /\ worker.pc = "stopped" => destroying[worker.job]

\* A canvas is never ahead of its coordinator, nor that of the user.
VersionOrder ==
    /\ \A k \in Crops : shown[k] <= params[CoordOf[k]]
    /\ \A c \in Coords : params[c] <= nextParams[c] /\ nextParams[c] <= ops
    /\ gui.pc = "editing" => nextParams[gui.on] < ops

IInv ==
    /\ ThreadShape
    /\ DeliveryIsSeen
    /\ ParamsHolders
    /\ NothingLeft
    /\ OnlyStoppingIsCancelled
    /\ VersionOrder
    /\ NoLostEdit
    /\ UpdaterIsAlive
    /\ NoLostWindow

-----------------------------------------------------------------------------
(* Steps.                                                                  *)

\* Stopping is final: once the cleanup thread has waited for the worker, no
\* frame of the photo reaches a canvas and no task is queued for it.
StopIsFinal ==
    [][\A c \in Coords :
          cleanup.on = c /\ cleanup.pc \in {"drain", "free"} =>
              /\ \A k \in CropsOf(c) : painted'[k] = painted[k]
              /\ \A t \in CropsOf(c) \cup {c} : ~ Queued(t)']_vars

\* What CropHandler::newImage says of detachListener: "This prevents the old
\* IPC's processing thread from calling setDetailedCrop() on this CropHandler
\* after we've switched images."
SwitchedIsQuiet ==
    [][\A k \in Crops : life[CoordOf[k]] \in {"closed", "freed"} =>
          painted'[k] = painted[k] /\ shown'[k] = shown[k]]_vars

\* What process() says of a pass that a cancelled repair has interrupted: "The
\* next queued parameter snapshot owns the replacement."  So the interruption
\* finds a change that is queued, or that the GUI thread is about to queue.
AbandonedIsReplaced ==
    [][\A c \in Coords :
          /\ worker.job = c /\ mProcessing[c] = "worker"
          /\ worker'.pc = "lock" /\ RepairCancelled(c)
          /\ worker.pc \in {"overview", "crop"} /\ ~ destroying[c]
          => changeSinceLast[c] # {} \/ gui.on = c]_vars

-----------------------------------------------------------------------------
(* Liveness, under FairSpec.                                               *)

\* The processing indicator goes off again.
ProgressEnds == \A c \in Coords : progress[c] ~> ~ progress[c]

\* A closed photo is deleted: the cleanup thread is never stuck.
ClosedIsFreed == \A c \in Coords : life[c] = "closed" ~> life[c] = "freed"

-----------------------------------------------------------------------------
(* The pipeline implements the promise made in module Canvas.              *)

Promise == INSTANCE Canvas WITH
    Last <- MaxOps + 1,
    requested <- nextParams,
    closed <- destroying,
    visible <- listening,
    coming <- [k \in Crops |-> worker.pc = "deliver" /\ worker.crop = k],
    spoiled <- [k \in Crops |-> Unfinished(k)]

\* Every step of the threads is a step of the canvas or invisible on it, and
\* with fair threads the newest edit ends up painted.
ImplementsCanvas == Promise!Behaviour

ImplementsFairCanvas == Promise!Spec

=============================================================================
