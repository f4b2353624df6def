---------------------------- MODULE DetailWindows ----------------------------
(***************************************************************************)
(* The detail windows of the editor: extra rtengine::Crop objects the user *)
(* opens and closes over a photo while the preview worker walks the vector *)
(* ImProcCoordinator::crops and runs the full updates queued for each.     *)
(*                                                                         *)
(*   gui     edits, pans, opens a window (createCrop, CropHandler::update, *)
(*           startProcessing), closes one (~CropHandler, ~Crop) and closes *)
(*           the photo (EditorPanel::close deletes every window);          *)
(*   worker  runs process() and Crop::fullUpdate() as tasks, newest first. *)
(*                                                                         *)
(* PreviewPipeline models the hand-over of process() in detail, for crops  *)
(* that live as long as their photo; here it is one step, and the crops    *)
(* come and go.  A picture is the number of the edit it was rendered with. *)
(***************************************************************************)
EXTENDS Naturals, Sequences, FiniteSets

CONSTANTS
    Canvas,     \* the crop of the main view, which lives as long as the photo
    Windows,    \* the crops of detail windows, each opened at most once
    Full,       \* crops shown at skip 1, full resolution
    Sidecar,    \* options.prevdemo = PD_Sidecar
    Overlap,    \* what the user may do while the worker is busy
    MaxEdits,   \* bound: edits
    MaxPans     \* bound: moves and zooms of a crop

AllCrops == {Canvas} \cup Windows

Photo == "photo"
None == "none"

DetailAssumption ==
    /\ IsFiniteSet(Windows)
    /\ Canvas \notin Windows
    /\ {Photo, None} \cap AllCrops = {}
    /\ Full \subseteq AllCrops
    /\ Sidecar \in BOOLEAN
    /\ Overlap \subseteq {"open", "close", "quit"}
    /\ MaxEdits \in Nat
    /\ MaxPans \in Nat

\* Change flags: "wide" reaches every crop (a panning related change,
\* M_MONITOR, M_RGBCURVE or M_LUMACURVE), "narrow" does not, and "settled" is
\* M_HIGHQUAL | M_MONITOR.
EditKinds == {"wide", "narrow"}

VARIABLES
    \* ImProcCoordinator
    slots, size,        \* crops: the vector's storage and its size
    updaterThreadStart, \* holder
    mProcessing,        \* holder
    nextParams,         \* number of the last edit
    params,             \* number of the edit last claimed by a pass
    changeSinceLast,    \* change flags not yet claimed
    updaterRunning,
    destroying,
    \* Crop
    cropMutex,          \* holder
    listening,          \* is cropImageListener set?
    pending, running,   \* CropUpdateState
    life,               \* "unborn", "open", "closing" or "freed"
    shown,              \* edit of the picture last delivered, 0: none yet
    \* PreviewProcessingExecutor and the threads
    tasks,              \* the deque, front first; a cancelled task has left it
    worker, gui,
    pans,               \* moves and zooms so far
    cutShort            \* history: has a crop left the vector during a walk?

coordVars == <<updaterThreadStart, mProcessing, nextParams, params,
               changeSinceLast, updaterRunning, destroying>>
cropVars == <<cropMutex, listening, pending, running, life, shown>>
past == <<pans, cutShort>>
vars == <<slots, size, coordVars, cropVars, tasks, worker, gui, past>>

Reading == {"getSkip", "hear", "wantSkip", "update"}
InPass == Reading \cup {"skip", "render", "each", "again", "unlock"}
InFull == {"fullLock", "fullLoop", "fullUpdate"}

WorkerPCs == {"idle", "enter", "lock", "updating"} \cup InPass \cup InFull

GuiPCs == {"idle", "start", "enable", "schedule", "settle",
           "mute", "delete", "free", "signal", "disconnect", "windows", "gone"}

Capacity == Cardinality(Windows) + 1

TypeOK ==
    /\ slots \in [1 .. Capacity -> AllCrops]
    /\ size \in 1 .. Capacity
    /\ updaterThreadStart \in {"worker", None}
    /\ mProcessing \in {"worker", None}
    /\ nextParams \in 1 .. MaxEdits + 1
    /\ params \in 1 .. MaxEdits + 1
    /\ changeSinceLast \subseteq EditKinds \cup {"settled"}
    /\ updaterRunning \in BOOLEAN
    /\ destroying \in BOOLEAN
    /\ cropMutex \in [AllCrops -> {"gui", "worker", None}]
    /\ listening \in [AllCrops -> BOOLEAN]
    /\ pending \in [AllCrops -> BOOLEAN]
    /\ running \in [AllCrops -> BOOLEAN]
    /\ life \in [AllCrops -> {"unborn", "open", "closing", "freed"}]
    /\ shown \in [AllCrops -> 0 .. MaxEdits + 1]
    /\ tasks \in Seq(AllCrops \cup {Photo})
    /\ worker \in [pc : WorkerPCs, job : AllCrops \cup {Photo, None},
                   crop : AllCrops \cup {None}, at : 0 .. Capacity + 1,
                   high : BOOLEAN, wanted : BOOLEAN, heard : BOOLEAN,
                   present : SUBSET AllCrops]
    /\ gui \in [pc : GuiPCs, on : AllCrops \cup {None}]
    /\ pans \in 0 .. MaxPans
    /\ cutShort \in BOOLEAN

Resting == [pc |-> "idle", job |-> None, crop |-> None, at |-> 0,
            high |-> FALSE, wanted |-> FALSE, heard |-> FALSE, present |-> {}]

Idle == [pc |-> "idle", on |-> None]

\* A photo that has just been developed and painted; no window is open.
Init ==
    /\ slots = [i \in 1 .. Capacity |-> Canvas]
    /\ size = 1
    /\ updaterThreadStart = None
    /\ mProcessing = None
    /\ nextParams = 1
    /\ params = 1
    /\ changeSinceLast = {}
    /\ updaterRunning = FALSE
    /\ destroying = FALSE
    /\ cropMutex = [k \in AllCrops |-> None]
    /\ listening = [k \in AllCrops |-> k = Canvas]
    /\ pending = [k \in AllCrops |-> FALSE]
    /\ running = [k \in AllCrops |-> FALSE]
    /\ life = [k \in AllCrops |-> IF k = Canvas THEN "open" ELSE "unborn"]
    /\ shown = [k \in AllCrops |-> IF k = Canvas THEN 1 ELSE 0]
    /\ tasks = <<>>
    /\ worker = Resting
    /\ gui = Idle
    /\ pans = 0
    /\ cutShort = FALSE

-----------------------------------------------------------------------------
(* The executor and the moments the windows of Overlap stand for.          *)

\* enqueue() puts the new task in front.  A task that is cancelled gives up what
\* it captured and does nothing any more, whenever it is dropped.
Enqueue(t) == tasks' = <<t>> \o tasks

Quiet == worker.pc = "idle" /\ tasks = <<>>

May(what) == what \in Overlap \/ Quiet

Take ==
    /\ worker.pc = "idle"
    /\ tasks # <<>>
    /\ LET t == Head(tasks) IN
        worker' = IF t = Photo
                  THEN [Resting EXCEPT !.pc = "enter", !.job = Photo]
                  ELSE [Resting EXCEPT !.pc = "fullLock", !.job = t, !.crop = t]
    /\ tasks' = Tail(tasks)
    /\ UNCHANGED <<slots, size, coordVars, cropVars, gui, past>>

-----------------------------------------------------------------------------
(* The worker: process() and updatePreviewImage().                         *)

\* process(): the end of the loop, or the claim of what was submitted.
Process ==
    /\ worker.pc = "enter"
    /\ updaterThreadStart = None
    /\ IF destroying \/ changeSinceLast = {}
       THEN /\ updaterRunning' = FALSE
            /\ worker' = Resting
            /\ UNCHANGED params
       ELSE /\ params' = nextParams
            /\ worker' = [worker EXCEPT !.pc = "lock",
                   !.high = "settled" \in changeSinceLast,
                   !.wanted = changeSinceLast # {"narrow"},
                   !.present = {k \in AllCrops : life[k] = "open"
                                              /\ listening[k]}]
            /\ UNCHANGED updaterRunning
    /\ changeSinceLast' = {}
    /\ UNCHANGED <<slots, size, updaterThreadStart, mProcessing, nextParams,
                   destroying, cropVars, tasks, gui, past>>

\* updatePreviewImage() holds mProcessing until it returns.
LockPass ==
    /\ worker.pc = "lock"
    /\ mProcessing = None
    /\ mProcessing' = "worker"
    /\ worker' = [worker EXCEPT !.pc = IF worker.high THEN "render" ELSE "skip",
                                !.at = 1]
    /\ UNCHANGED <<slots, size, updaterThreadStart, nextParams, params,
                   changeSinceLast, updaterRunning, destroying, cropVars,
                   tasks, gui, past>>

WorkerOnly == UNCHANGED <<slots, size, coordVars, cropVars, tasks, gui, past>>

\* crops[i]->... : the pointer is read before the crop's mutex is taken, and
\* read again for every call.
Fetch(next) == [worker EXCEPT !.crop = slots[worker.at], !.pc = next]

\* for (i = 0; i < crops.size(); i++) if (crops[i]->get_skip() == 1) ...
SkipLoop ==
    /\ worker.pc = "skip"
    /\ worker' = IF worker.at > size THEN [worker EXCEPT !.pc = "render"]
                 ELSE Fetch("getSkip")
    /\ WorkerOnly

GetSkip ==
    /\ worker.pc = "getSkip"
    /\ cropMutex[worker.crop] = None
    /\ worker' = IF worker.crop \in Full
                 THEN [worker EXCEPT !.pc = "render",
                          !.high = TRUE, !.wanted = @ \/ ~ Sidecar]
                 ELSE [worker EXCEPT !.pc = "skip", !.at = @ + 1]
    /\ WorkerOnly

\* The stages of the overview; each returns early when destroying is set.
Render ==
    /\ worker.pc = "render"
    /\ worker' = [worker EXCEPT !.pc = IF destroying THEN "unlock" ELSE "each",
                  !.wanted = @ \/ (worker.high /\ ~ Sidecar), !.at = 1]
    /\ WorkerOnly

\* Mutant: the loop stops one crop short.
EachCrop_Short ==
    /\ worker.pc = "each"
    /\ worker' = IF worker.at >= size THEN [worker EXCEPT !.pc = "unlock"]
                 ELSE Fetch("hear")
    /\ WorkerOnly

EachCrop ==
    /\ worker.pc = "each"
    /\ worker' = IF worker.at > size THEN [worker EXCEPT !.pc = "unlock"]
                 ELSE Fetch("hear")
    /\ WorkerOnly

NextCrop == [worker EXCEPT !.pc = "each", !.at = @ + 1]

\* const bool listening = crops[i]->hasListener(); wanted = ...
HasListener ==
    /\ worker.pc = "hear"
    /\ cropMutex[worker.crop] = None
    /\ LET heard == listening[worker.crop] IN
        worker' = IF ~ worker.wanted
                  THEN [Fetch("wantSkip") EXCEPT !.heard = heard]
                  ELSE IF heard
                       THEN [worker EXCEPT !.pc = "again", !.heard = heard]
                       ELSE NextCrop
    /\ WorkerOnly

\* ... || crops[i]->get_skip() == 1
WantedBySkip ==
    /\ worker.pc = "wantSkip"
    /\ cropMutex[worker.crop] = None
    /\ worker' = IF worker.heard /\ worker.crop \in Full
                 THEN [worker EXCEPT !.pc = "again"]
                 ELSE NextCrop
    /\ WorkerOnly

FetchAgain ==
    /\ worker.pc = "again"
    /\ worker' = Fetch("update")
    /\ WorkerOnly

LockCrop(k) ==
    /\ cropMutex[k] = None
    /\ cropMutex' = [cropMutex EXCEPT ![k] = "worker"]

\* Crop::update(): cropMutex is held until the picture is delivered.
BeginUpdate ==
    /\ worker.pc \in {"update", "fullUpdate"}
    /\ LockCrop(worker.crop)
    /\ worker' = [worker EXCEPT !.pc = "updating"]
    /\ UNCHANGED <<slots, size, coordVars, listening, pending, running, life,
                   shown, tasks, gui, past>>

EndUpdate ==
    /\ worker.pc = "updating"
    /\ shown' = IF listening[worker.crop] /\ ~ destroying
                THEN [shown EXCEPT ![worker.crop] = params] ELSE shown
    /\ cropMutex' = [cropMutex EXCEPT ![worker.crop] = None]
    /\ worker' = IF worker.job = Photo THEN NextCrop
                 ELSE [worker EXCEPT !.pc = "fullLoop"]
    /\ UNCHANGED <<slots, size, coordVars, listening, pending, running, life,
                   tasks, gui, past>>

\* Mutant: the flags are cleared when the pass ends, not when it claims them.
EndPass_Clears ==
    /\ worker.pc = "unlock"
    /\ mProcessing' = None
    /\ changeSinceLast' = {}
    /\ worker' = [Resting EXCEPT !.pc = "enter", !.job = Photo]
    /\ UNCHANGED <<slots, size, updaterThreadStart, nextParams, params,
                   updaterRunning, destroying, cropVars, tasks, gui, past>>

EndPass ==
    /\ worker.pc = "unlock"
    /\ mProcessing' = None
    /\ worker' = [Resting EXCEPT !.pc = "enter", !.job = Photo]
    /\ UNCHANGED <<slots, size, updaterThreadStart, nextParams, params,
                   changeSinceLast, updaterRunning, destroying, cropVars,
                   tasks, gui, past>>

-----------------------------------------------------------------------------
(* The worker: Crop::fullUpdate().  updaterThreadStart is held throughout. *)

FullUpdate ==
    /\ worker.pc = "fullLock"
    /\ updaterThreadStart = None
    /\ IF destroying
       THEN /\ pending' = [pending EXCEPT ![worker.crop] = FALSE]
            /\ running' = [running EXCEPT ![worker.crop] = FALSE]
            /\ worker' = Resting
            /\ UNCHANGED updaterThreadStart
       ELSE /\ updaterThreadStart' = "worker"
            /\ worker' = [worker EXCEPT !.pc = "fullLoop"]
            /\ UNCHANGED <<pending, running>>
    /\ UNCHANGED <<slots, size, mProcessing, nextParams, params,
                   changeSinceLast, updaterRunning, destroying, cropMutex,
                   listening, life, shown, tasks, gui, past>>

\* takePending(): one more update, or the end.
TakePending ==
    /\ worker.pc = "fullLoop"
    /\ IF pending[worker.crop]
       THEN /\ pending' = [pending EXCEPT ![worker.crop] = FALSE]
            /\ worker' = [worker EXCEPT !.pc = "fullUpdate"]
            /\ UNCHANGED <<running, updaterThreadStart>>
       ELSE /\ running' = [running EXCEPT ![worker.crop] = FALSE]
            /\ updaterThreadStart' = None
            /\ worker' = Resting
            /\ UNCHANGED pending
    /\ UNCHANGED <<slots, size, mProcessing, nextParams, params,
                   changeSinceLast, updaterRunning, destroying, cropMutex,
                   listening, life, shown, tasks, gui, past>>

-----------------------------------------------------------------------------
(* The GUI thread: edits, moves and opening a window.                      *)

Edit(kind) ==
    /\ gui.pc = "idle"
    /\ nextParams <= MaxEdits
    /\ nextParams' = nextParams + 1
    /\ changeSinceLast' = changeSinceLast \cup {kind}
    /\ gui' = [gui EXCEPT !.pc = "start"]
    /\ UNCHANGED <<slots, size, updaterThreadStart, mProcessing, params,
                   updaterRunning, destroying, cropVars, tasks, worker, past>>

\* startProcessing(), under updaterThreadStart.
StartProcessing ==
    /\ gui.pc = "start"
    /\ updaterThreadStart = None
    /\ IF updaterRunning THEN UNCHANGED <<updaterRunning, tasks>>
       ELSE updaterRunning' = TRUE /\ Enqueue(Photo)
    /\ gui' = Idle
    /\ UNCHANGED <<slots, size, updaterThreadStart, mProcessing, nextParams,
                   params, changeSinceLast, destroying, cropVars, worker,
                   past>>

\* CropUpdateState::request(): the first request schedules the full update.
Request(k, lost) ==
    /\ pending' = [pending EXCEPT ![k] = TRUE]
    /\ running' = [running EXCEPT ![k] = TRUE]
    /\ gui' = IF running[k] THEN lost ELSE [pc |-> "schedule", on |-> k]

\* CropHandler::update() of a crop the user moves or zooms.
Pan(k) ==
    /\ gui.pc = "idle"
    /\ life[k] = "open"
    /\ pans < MaxPans
    /\ pans' = pans + 1
    /\ Request(k, Idle)
    /\ UNCHANGED <<slots, size, coordVars, cropMutex, listening, life, shown,
                   tasks, worker, cutShort>>

\* crops.push_back(this): no lock.
PushBack(w) ==
    /\ slots' = [slots EXCEPT ![size + 1] = w]
    /\ size' = size + 1

\* addCropWindow(): CropHandler::newImage creates the crop ...
Open(w) ==
    /\ gui.pc = "idle"
    /\ life[w] = "unborn"
    /\ May("open")
    /\ PushBack(w)
    /\ life' = [life EXCEPT ![w] = "open"]
    /\ gui' = [pc |-> "enable", on |-> w]
    /\ UNCHANGED <<coordVars, cropMutex, listening, pending, running, shown,
                   tasks, worker, past>>

\* ... CropHandler::setEnabled(true) sets its listener and asks for an update
Enable ==
    /\ gui.pc = "enable"
    /\ cropMutex[gui.on] = None
    /\ listening' = [listening EXCEPT ![gui.on] = TRUE]
    /\ Request(gui.on, [gui EXCEPT !.pc = "settle"])
    /\ UNCHANGED <<slots, size, coordVars, cropMutex, life, shown, tasks,
                   worker, past>>

\* scheduleCropUpdate(), under updaterThreadStart.  A window that has not been
\* painted yet is one being opened, and a settled pass is asked for next.
Schedule ==
    /\ gui.pc = "schedule"
    /\ updaterThreadStart = None
    /\ Enqueue(gui.on)
    /\ gui' = IF gui.on # Canvas /\ shown[gui.on] = 0
              THEN [gui EXCEPT !.pc = "settle"] ELSE Idle
    /\ UNCHANGED <<slots, size, coordVars, cropVars, worker, past>>

\* ... and ipc->startProcessing(M_HIGHQUAL | M_MONITOR) follows.
Settle ==
    /\ gui.pc = "settle"
    /\ changeSinceLast' = changeSinceLast \cup {"settled"}
    /\ gui' = [pc |-> "start", on |-> None]
    /\ UNCHANGED <<slots, size, updaterThreadStart, mProcessing, nextParams,
                   params, updaterRunning, destroying, cropVars, tasks,
                   worker, past>>

-----------------------------------------------------------------------------
(* The GUI thread: closing a window, and closing the photo.                *)

\* bClose marks the window while it holds updaterThreadStart; the button's
\* release deletes it, without that lock.
PressClose(w) ==
    /\ gui.pc = "idle"
    /\ life[w] = "open"
    /\ May("close")
    /\ updaterThreadStart = None
    /\ life' = [life EXCEPT ![w] = "closing"]
    /\ gui' = [pc |-> "mute", on |-> w]
    /\ UNCHANGED <<slots, size, coordVars, cropMutex, listening, pending,
                   running, shown, tasks, worker, past>>

\* ~CropHandler: setEnabled(false), that is Crop::setListener(nullptr) ...
Mute ==
    /\ gui.pc = "mute"
    /\ cropMutex[gui.on] = None
    /\ listening' = [listening EXCEPT ![gui.on] = FALSE]
    /\ gui' = [gui EXCEPT !.pc = "delete"]
    /\ UNCHANGED <<slots, size, coordVars, cropMutex, pending, running, life,
                   shown, tasks, worker, past>>

Place(k) == CHOOSE i \in 1 .. size : slots[i] = k

\* vector::erase: the tail moves up one place; the last slot keeps its pointer.
Erase(k) ==
    /\ slots' = [i \in 1 .. Capacity |->
                    IF Place(k) <= i /\ i < size THEN slots[i + 1]
                    ELSE slots[i]]
    /\ size' = size - 1

\* A pass is at a place of the vector.
Walking ==
    \/ worker.pc \in Reading \cup {"skip", "each", "again"}
    \/ worker.pc = "updating" /\ worker.job = Photo

\* ... and ~Crop: cropMutex, the vector ...
DeleteCrop ==
    /\ gui.pc = "delete"
    /\ cropMutex[gui.on] = None
    /\ cropMutex' = [cropMutex EXCEPT ![gui.on] = "gui"]
    /\ Erase(gui.on)
    /\ cutShort' = (cutShort \/ Walking)
    /\ gui' = [gui EXCEPT !.pc = "free"]
    /\ UNCHANGED <<coordVars, listening, pending, running, life, shown, tasks,
                   worker, pans>>

\* ... and, still holding it, mProcessing.
FreeCrop ==
    /\ gui.pc = "free"
    /\ mProcessing = None
    /\ life' = [life EXCEPT ![gui.on] = "freed"]
    /\ cropMutex' = [cropMutex EXCEPT ![gui.on] = None]
    /\ gui' = IF destroying THEN [pc |-> "windows", on |-> None] ELSE Idle
    /\ UNCHANGED <<slots, size, coordVars, listening, pending, running, shown,
                   tasks, worker, past>>

\* EditorPanel::close: signalStop() sets destroying ...
ClosePhoto ==
    /\ gui.pc = "idle"
    /\ ~ destroying
    /\ "quit" \in Overlap \/ (worker.pc = "idle"
                              /\ \A i \in DOMAIN tasks : tasks[i] = Photo)
    /\ destroying' = TRUE
    /\ gui' = [gui EXCEPT !.pc = "signal"]
    /\ UNCHANGED <<slots, size, updaterThreadStart, mProcessing, nextParams,
                   params, changeSinceLast, updaterRunning, cropVars, tasks,
                   worker, past>>

\* ... and cancels what is queued, under updaterThreadStart
SignalStop ==
    /\ gui.pc = "signal"
    /\ updaterThreadStart = None
    /\ tasks' = <<>>
    /\ gui' = [gui EXCEPT !.pc = "disconnect"]
    /\ UNCHANGED <<slots, size, coordVars, cropVars, worker, past>>

\* mainCropWindow: disconnectCrop(), that is detachListener(), takes no lock.
Disconnect ==
    /\ gui.pc = "disconnect"
    /\ listening' = [listening EXCEPT ![Canvas] = FALSE]
    /\ gui' = [gui EXCEPT !.pc = "windows"]
    /\ UNCHANGED <<slots, size, coordVars, cropMutex, pending, running, life,
                   shown, tasks, worker, past>>

\* setImProcCoordinator(nullptr) deletes the detail windows one by one.
DeleteWindow ==
    /\ gui.pc = "windows"
    /\ \E w \in Windows :
          /\ life[w] = "open"
          /\ life' = [life EXCEPT ![w] = "closing"]
          /\ gui' = [pc |-> "mute", on |-> w]
    /\ UNCHANGED <<slots, size, coordVars, cropMutex, listening, pending,
                   running, shown, tasks, worker, past>>

WindowsGone ==
    /\ gui.pc = "windows"
    /\ \A w \in Windows : life[w] # "open"
    /\ gui' = [gui EXCEPT !.pc = "gone"]
    /\ UNCHANGED <<slots, size, coordVars, cropVars, tasks, worker, past>>

\* ~ImProcCoordinator, on the cleanup thread: waits for the tasks and deletes
\* the crops that are left.
DestroyCoordinator ==
    /\ gui.pc = "gone"
    /\ worker.pc = "idle"
    /\ mProcessing = None
    /\ life[Canvas] = "open"
    /\ life' = [life EXCEPT ![Canvas] = "freed"]
    /\ UNCHANGED <<slots, size, coordVars, cropMutex, listening, pending,
                   running, shown, tasks, worker, gui, past>>

-----------------------------------------------------------------------------

WorkerStep ==
    \/ Take \/ Process \/ LockPass \/ SkipLoop \/ GetSkip \/ Render
    \/ EachCrop \/ HasListener \/ WantedBySkip \/ FetchAgain
    \/ BeginUpdate \/ EndUpdate \/ EndPass \/ FullUpdate \/ TakePending

\* What the GUI thread does without the user.
GuiStep ==
    \/ StartProcessing \/ Enable \/ Schedule \/ Settle
    \/ Mute \/ DeleteCrop \/ FreeCrop
    \/ SignalStop \/ Disconnect \/ DeleteWindow \/ WindowsGone

UserStep ==
    \/ \E kind \in EditKinds : Edit(kind)
    \/ \E k \in AllCrops : Pan(k)
    \/ \E w \in Windows : Open(w) \/ PressClose(w)
    \/ ClosePhoto

Next == WorkerStep \/ GuiStep \/ UserStep \/ DestroyCoordinator

Spec == Init /\ [][Next]_vars

\* The threads run; the user need not do anything.
FairSpec ==
    Spec /\ WF_vars(WorkerStep) /\ WF_vars(GuiStep) /\ WF_vars(DestroyCoordinator)

-----------------------------------------------------------------------------
(* Properties.                                                             *)

\* The worker never calls a method of, or waits for the mutex of, a crop that
\* has been deleted: the comment in Crop::fullUpdate() (dcrop.cc:2590) expects
\* a crop to be freed only after the full update released updaterThreadStart.
NoUseAfterFree ==
    worker.pc \in Reading \cup InFull \cup {"updating"} =>
        life[worker.crop] # "freed"

\* The worker, in a pass under mProcessing, never waits for the mutex of a crop
\* whose destructor holds it and waits for mProcessing.
NoEmbrace ==
    ~ /\ worker.pc \in Reading
      /\ mProcessing = "worker"
      /\ gui.pc = "free"
      /\ cropMutex[worker.crop] = "gui"

\* A pass leaves out no crop: when it ends, every crop that listened when the
\* pass claimed its edits, and still does, shows them, if the change reaches it.
PassReachesAll ==
    worker.pc = "unlock" /\ ~ destroying /\ ~ cutShort =>
        \A k \in worker.present :
            life[k] = "open" /\ (worker.wanted \/ k \in Full) =>
                shown[k] >= params

\* When the threads have nothing left to do, every open detail window shows
\* the last edit: none was opened too late for a pass, or too early.
WindowsAreCurrent ==
    Quiet /\ gui.pc = "idle" /\ ~ cutShort =>
        \A w \in Windows \cap Full :
            life[w] = "open" => shown[w] = nextParams

\* The vector of crops is the set of crops alive: nothing is listed twice,
\* nothing deleted is listed, and no open crop is missing.
VectorIsExact ==
    /\ \A i, j \in 1 .. size : slots[i] = slots[j] => i = j
    /\ {slots[i] : i \in 1 .. size} =
           {k \in AllCrops : life[k] \in {"open", "closing"}
                          /\ ~ (gui.pc = "free" /\ gui.on = k)}
           \cup {k \in {Canvas} : life[k] = "freed"}

\* A window that is opened is painted, unless it or its photo is closed.
WindowIsPainted ==
    \A w \in Windows :
        life[w] = "open" ~> (shown[w] > 0 \/ life[w] # "open" \/ destroying)

\* A photo that is being closed is gone in the end, with its windows.
PhotoIsFreed == destroying ~> \A k \in AllCrops : life[k] \in {"unborn", "freed"}

\* A window the user has asked to close is gone in the end.
WindowIsFreed == \A w \in Windows : life[w] = "closing" ~> life[w] = "freed"

=============================================================================
