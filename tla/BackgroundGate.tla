--------------------------- MODULE BackgroundGate ---------------------------
(***************************************************************************)
(* The gate that keeps thumbnails and folder previews waiting while the    *)
(* user waits for a photo (src/rtgui/filepanel.cc), and the activity       *)
(* messages of the editor that work it (src/rtgui/editorpanel.cc).         *)
(*                                                                         *)
(* Two flags close the gate: foregroundWorkActive_ while a photo is being  *)
(* opened, editorProcessingActive_ while the photo that is open is         *)
(* rendered.  It is opened again by a timer, a while after both are down.  *)
(*                                                                         *)
(* A processor tells its progress listener, the editor, when it starts and *)
(* when it ends.  setProgressState() runs on the processor's thread; it    *)
(* keeps the last value only, stamped with openSession_, and one idle      *)
(* callback takes it to the gate unless the session changed meanwhile.     *)
(* Closing a photo detaches its processor, which may have loaded the       *)
(* pointer to the listener before.                                         *)
(***************************************************************************)
EXTENDS Naturals

CONSTANTS
    Processors,  \* the processors there can be, one for each photo opened
    None,        \* no processor
    Races,       \* TRUE: a detached processor may still call its listener
    Failing,     \* TRUE: a photo may fail to decode
    MaxLoads,    \* bound: photos the user opens
    MaxEdits     \* bound: edits of the user

SwitchAssumption == {Races, Failing} \subseteq BOOLEAN
BoundsAssumption == MaxLoads \in Nat /\ MaxEdits \in Nat
NoneAssumption == None \notin Processors

VARIABLES
    foreground,   \* foregroundWorkActive_
    active,       \* editorProcessingActive_
    background,   \* backgroundWorkPausedForForeground_
    thumbnails,   \* thumbnailWorkPausedForForeground_
    timer,        \* backgroundResumeTimeoutId_ # 0
    loading,      \* pendingLoads is not empty
    open,         \* EditorPanel::ipc
    setup,        \* the deferred half of open(), until its timers are done or cancelled
    listener,     \* the processors that have their progress listener
    pc,           \* where each processor is
    told,         \* the processors that loaded the pointer and will call it
    change,       \* the processors with changeSinceLast
    queued,       \* queuedProcessingState_ and whether its session is current
    idle,         \* processingStateUiIdlePending_
    opened,       \* bounds Select
    edits         \* bounds Edit

gate == <<foreground, active, background, thumbnails, timer>>
messages == <<queued, idle>>
threads == <<pc, told>>
vars == <<gate, loading, open, setup, listener, threads, change, messages, opened, edits>>

-----------------------------------------------------------------------------
Init ==
    /\ foreground = FALSE /\ active = FALSE
    /\ background = FALSE /\ thumbnails = FALSE /\ timer = FALSE
    /\ loading = FALSE
    /\ open = None /\ setup = "done" /\ listener = {}
    /\ pc = [p \in Processors |-> "new"] /\ told = {} /\ change = {}
    /\ queued = [state |-> FALSE, current |-> FALSE] /\ idle = FALSE
    /\ opened = 0 /\ edits = 0

-----------------------------------------------------------------------------
(* The gate, all of it on the GUI thread.                                  *)

\* pauseBackgroundWork(): the timer is cancelled, both kinds of work pause.
PauseBackgroundWork ==
    /\ background' = TRUE
    /\ thumbnails' = TRUE
    /\ timer' = FALSE

\* resumeBackgroundWorkAfterForeground() with editorProcessingActive_ = a: the
\* timer is started, unless the editor is active or nothing is paused.
ResumeAfterForeground(a) ==
    /\ foreground' = FALSE
    /\ timer' = IF ~a /\ (background \/ thumbnails) THEN TRUE ELSE timer
    /\ UNCHANGED <<background, thumbnails>>

\* Mutant: the end of the editor's activity does not start the timer.
SetEditorProcessingActivity_Silent(a) ==
    /\ active' = a
    /\ \/ a = active /\ UNCHANGED <<foreground, background, thumbnails, timer>>
       \/ a /\ ~active /\ PauseBackgroundWork /\ UNCHANGED foreground
       \/ ~a /\ active /\ UNCHANGED <<foreground, background, thumbnails, timer>>

\* setEditorProcessingActivity(a).
SetEditorProcessingActivity(a) ==
    /\ active' = a
    /\ \/ a = active /\ UNCHANGED <<foreground, background, thumbnails, timer>>
       \/ a /\ ~active /\ PauseBackgroundWork /\ UNCHANGED foreground
       \/ ~a /\ active /\ ~foreground /\ ResumeAfterForeground(FALSE)
       \/ ~a /\ active /\ foreground /\ UNCHANGED <<foreground, background, thumbnails, timer>>

\* resumeBackgroundWorkIfCurrent(), by the timer.
ResumeBackgroundWork ==
    /\ timer
    /\ timer' = FALSE
    /\ IF foreground \/ active
       THEN UNCHANGED <<background, thumbnails>>
       ELSE background' = FALSE /\ thumbnails' = FALSE
    /\ UNCHANGED <<foreground, active, loading, open, setup, listener, threads, change,
                   messages, opened, edits>>

-----------------------------------------------------------------------------
(* Opening photos.                                                         *)

NewSession == queued' = [queued EXCEPT !.current = FALSE]

\* fileSelected(): the load starts and the gate closes.  The cover of the new
\* photo cancels the timers of the open one, in a new session.
Select ==
    /\ opened < MaxLoads
    /\ opened' = opened + 1
    /\ loading' = TRUE
    /\ foreground' = TRUE
    /\ PauseBackgroundWork
    /\ IF setup \in {"deferred", "waiting"}
       THEN setup' = (IF setup = "deferred" THEN "cancelled" ELSE "done") /\ NewSession
       ELSE UNCHANGED <<setup, queued>>
    /\ UNCHANGED <<active, open, listener, threads, change, idle, edits>>

\* imageLoaded() with an image, or an image at hand within fileSelected():
\* open() begins a session, close() detaches the processor that was open and
\* takes the editor's activity down; then the foreground work is over.
Opened(p) ==
    /\ loading
    /\ pc[p] = "new"
    /\ loading' = FALSE
    /\ open' = p
    /\ setup' = "deferred"
    /\ NewSession
    /\ listener' = {p}
    /\ pc' = [pc EXCEPT ![p] = "idle"]
    /\ change' = {}
    /\ active' = IF open = None THEN active ELSE FALSE
    /\ ResumeAfterForeground(active')
    /\ UNCHANGED <<told, idle, opened, edits>>

\* imageLoaded() without an image: the photo that was open stays.
LoadFailed ==
    /\ Failing
    /\ loading
    /\ loading' = FALSE
    /\ ResumeAfterForeground(active)
    /\ UNCHANGED <<active, open, setup, listener, threads, change, messages, opened, edits>>

\* openPhaseB() hands the profile to the processor, which renders it.
OpenPhaseB ==
    /\ setup = "deferred"
    /\ setup' = "waiting"
    /\ change' = change \cup {open}
    /\ UNCHANGED <<gate, loading, open, listener, threads, messages, opened, edits>>

\* The crop of the photo is enabled: the last of the timers of open().
EnableCrop ==
    /\ setup = "waiting"
    /\ setup' = "done"
    /\ UNCHANGED <<gate, loading, open, listener, threads, change, messages, opened, edits>>

\* The user changes a parameter of the open photo.
Edit ==
    /\ edits < MaxEdits
    /\ open # None
    /\ setup \in {"waiting", "done"}
    /\ edits' = edits + 1
    /\ change' = change \cup {open}
    /\ UNCHANGED <<gate, loading, open, setup, listener, threads, messages, opened>>

-----------------------------------------------------------------------------
(* The processors: ImProcCoordinator::process() and the calls it makes.    *)

\* EditorPanel::setProgressState(): the last value wins, stamped with the
\* session it is called in.
SetProgressState(state) ==
    /\ queued' = [state |-> state, current |-> TRUE]
    /\ idle' = TRUE

\* The call for the pointer that was loaded; without a race it is made at once.
Call(p, state) ==
    IF p \in told THEN SetProgressState(state) ELSE UNCHANGED messages

\* A pass begins: the pointer to the listener is loaded and then called.
BeginPass(p) ==
    /\ pc[p] = "idle"
    /\ p \in change
    /\ change' = change \ {p}
    /\ IF Races
       THEN /\ pc' = [pc EXCEPT ![p] = "beginning"]
            /\ told' = told \cup ({p} \cap listener)
            /\ UNCHANGED messages
       ELSE /\ pc' = [pc EXCEPT ![p] = "busy"]
            /\ IF p \in listener THEN SetProgressState(TRUE) ELSE UNCHANGED messages
            /\ UNCHANGED told
    /\ UNCHANGED <<gate, loading, open, setup, listener, opened, edits>>

TellBegin(p) ==
    /\ pc[p] = "beginning"
    /\ pc' = [pc EXCEPT ![p] = "busy"]
    /\ Call(p, TRUE)
    /\ told' = told \ {p}
    /\ UNCHANGED <<gate, loading, open, setup, listener, change, opened, edits>>

\* It ends when all changes are rendered, or when the photo was closed.
EndPass(p) ==
    /\ pc[p] = "busy"
    /\ change' = change \ {p}
    /\ IF Races
       THEN /\ pc' = [pc EXCEPT ![p] = "ending"]
            /\ told' = told \cup ({p} \cap listener)
            /\ UNCHANGED messages
       ELSE /\ pc' = [pc EXCEPT ![p] = "idle"]
            /\ IF p \in listener THEN SetProgressState(FALSE) ELSE UNCHANGED messages
            /\ UNCHANGED told
    /\ UNCHANGED <<gate, loading, open, setup, listener, opened, edits>>

TellEnd(p) ==
    /\ pc[p] = "ending"
    /\ pc' = [pc EXCEPT ![p] = "idle"]
    /\ Call(p, FALSE)
    /\ told' = told \ {p}
    /\ UNCHANGED <<gate, loading, open, setup, listener, change, opened, edits>>

\* The idle callback of setProgressState() and refreshProcessingState(): a value
\* of an earlier session is dropped.
DeliverState ==
    /\ idle
    /\ idle' = FALSE
    /\ IF queued.current THEN SetEditorProcessingActivity(queued.state) ELSE UNCHANGED gate
    /\ UNCHANGED <<loading, open, setup, listener, threads, change, queued, opened, edits>>

-----------------------------------------------------------------------------
ProcessorStep(p) == BeginPass(p) \/ TellBegin(p) \/ EndPass(p) \/ TellEnd(p)

Load == LoadFailed \/ \E p \in Processors : Opened(p)

Next ==
    \/ Select \/ Load \/ OpenPhaseB \/ EnableCrop \/ Edit
    \/ \E p \in Processors : ProcessorStep(p)
    \/ DeliverState
    \/ ResumeBackgroundWork

Spec == Init /\ [][Next]_vars

\* Loads end (PhotoOpening), processors run, and the GUI loop delivers.
Fairness ==
    /\ WF_vars(Load)
    /\ \A p \in Processors : WF_vars(ProcessorStep(p))
    /\ WF_vars(DeliverState)
    /\ WF_vars(ResumeBackgroundWork)

FairSpec == Spec /\ Fairness

-----------------------------------------------------------------------------
\* The variables keep their types; a processor that is closed has no listener.
TypeOK ==
    /\ {foreground, active, background, thumbnails, timer, loading, idle} \subseteq BOOLEAN
    /\ open \in Processors \cup {None}
    /\ setup \in {"deferred", "waiting", "done", "cancelled"}
    /\ listener = {open} \ {None}
    /\ pc \in [Processors -> {"new", "idle", "beginning", "busy", "ending"}]
    /\ told \subseteq {p \in Processors : pc[p] \in {"beginning", "ending"}}
    /\ change \subseteq listener
    /\ queued \in [state : BOOLEAN, current : BOOLEAN]
    /\ opened \in 0 .. MaxLoads /\ edits \in 0 .. MaxEdits

\* Nothing waits for ever behind the gate: whatever is paused, a photo is being
\* opened, the editor is active, or the timer that resumes it runs.
NoStrandedPause == background \/ thumbnails => foreground \/ active \/ timer

\* The gate is closed, and no timer is about to open it, while a photo is being
\* opened or rendered.
ForegroundPauses ==
    (loading => foreground) /\ (foreground \/ active => background /\ thumbnails /\ ~timer)

\* The editor counts as active only while the open photo is rendered or about to
\* be, a message says otherwise, or a photo that is being opened will take the
\* activity down.  (A flag that stays "wedged true", src/rtengine/
\* improccoordinator.cc:4527, keeps the gate closed until the next edit.)
ActivityHasACause ==
    active =>
        \/ open # None /\ (pc[open] \in {"beginning", "busy", "ending"} \/ open \in change)
        \/ setup = "deferred"
        \/ idle /\ queued.current /\ ~queued.state
        \/ loading

\* While no message is lost or late, the gate opens again.
BackgroundResumes == (background \/ thumbnails) ~> (~background /\ ~thumbnails)
=============================================================================
