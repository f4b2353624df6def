---------------------------- MODULE FolderPreviews ----------------------------
(***************************************************************************)
(* Opening a folder in the file browser: the catalog (rtgui/filecatalog),  *)
(* the thread that scans the folder and the loader of PreviewLoader.       *)
(*                                                                         *)
(* The GUI thread runs one handler at a time; a handler that can be        *)
(* overtaken by the workers in a way somebody could notice is several      *)
(* actions, and gui says how far it is.  The scan reaches the catalog by   *)
(* idle callbacks, which run in order (posts); idle callbacks of lower     *)
(* priority and timers run whenever the GUI thread is free.                *)
(*                                                                         *)
(* Abstracted: sorting, filters, selection and the progress bar.           *)
(***************************************************************************)
EXTENDS PreviewLoader, Sequences

CONSTANTS
    InitialFiles,   \* the sets of files a folder may have at first
    Disturbances,   \* what else may happen: "pause", "toggle", "edit"
    MaxDisturbances \* bound: how often

ASSUME FolderAssumption ==
    /\ InitialFiles \subseteq SUBSET Files
    /\ MaxDisturbances \in Nat

VARIABLES
    gui,            \* the handler that is under way, or "free"
    selectedDir,    \* selectedDirectoryId
    scan,           \* the scan thread of a folder: what it lists, what is left
    posts,          \* its idle callbacks
    scanComplete,   \* directoryScanComplete_
    finPending,     \* previewsFinishedPending_
    retryQueued,    \* previewsFinishRetryQueued_
    timers,         \* how many retries are on their way, for each directory
    finIdles,       \* directories previewsFinishedUI is queued for
    pending,        \* pendingPreviews_
    batchPending,   \* previewBatchPending_
    drains,         \* idle callbacks that run processPendingPreviews_
    batchPaused,    \* previewBatchPauseDepth_ > 0
    pausedForEditor,\* backgroundWorkPausedForForeground_
    queuedKeys,     \* queuedPreviewKeys_
    fileNameList,
    browser,        \* the entries of the file browser
    finished,       \* no file has been added since the previews finished
    onDisk,         \* the files of the folder
    failed,         \* history: entries of this folder that did not open
    removed,        \* history: those the recursive switch has made the loader forget
    disturbed       \* how often the user or the disk has interfered

scanning == <<scan, posts>>
finishing == <<scanComplete, finPending, retryQueued, timers, finIdles, finished>>
batch == <<pending, batchPending, drains, batchPaused>>
shown == <<queuedKeys, fileNameList, browser>>
world == <<onDisk, failed, removed, disturbed>>

vars == <<loader, gui, selectedDir, scanning, finishing, batch,
          pausedForEditor, shown, world>>

NoScan == [dir |-> 0, all |-> {}, left |-> {}]

Posts == [dir : Dirs, files : SUBSET Files, last : BOOLEAN]

TypeOK ==
    /\ LoaderTypeOK
    /\ gui \in {"free", "stop", "open", "finish"}
    /\ selectedDir \in Dirs
    /\ scan \in [dir : Dirs, all : SUBSET Files, left : SUBSET Files]
    /\ posts \in Seq(Posts)
    /\ {scanComplete, finPending, retryQueued, batchPending, batchPaused,
        pausedForEditor, finished} \subseteq BOOLEAN
    /\ timers \in [Dirs -> Nat]
    /\ finIdles \subseteq Dirs
    /\ pending \subseteq Entries
    /\ drains \in Nat
    /\ {queuedKeys, fileNameList, onDisk} \subseteq SUBSET Files
    /\ {browser, failed, removed} \subseteq SUBSET Entries
    /\ disturbed \in 0 .. MaxDisturbances

Init ==
    /\ LoaderInit
    /\ gui = "free" /\ selectedDir = 0
    /\ scan = NoScan /\ posts = <<>>
    /\ scanComplete = TRUE /\ finPending = FALSE /\ retryQueued = FALSE
    /\ timers = [d \in Dirs |-> 0] /\ finIdles = {}
    /\ pending = {} /\ batchPending = FALSE /\ drains = 0 /\ batchPaused = FALSE
    /\ pausedForEditor = FALSE
    /\ queuedKeys = {} /\ fileNameList = {} /\ browser = {}
    /\ finished = TRUE
    /\ onDisk \in InitialFiles /\ failed = {} /\ removed = {} /\ disturbed = 0

-----------------------------------------------------------------------------
(* Worker threads. *)

Quiet(w) ==
    /\ \/ Start(w) \/ Pick(w) \/ CheckJob(w)
       \/ Flush(w) \/ Account(w) \/ Leave(w)
    /\ UNCHANGED <<gui, selectedDir, scanning, finishing, batch,
                   pausedForEditor, shown, world>>

\* A file that is not there any more has no thumbnail.
LoadFile(w) ==
    /\ Load(w, onDisk)
    /\ failed' = IF worker[w].job.entry[2] \in onDisk THEN failed
                 ELSE failed \cup {worker[w].job.entry}
    /\ UNCHANGED <<gui, selectedDir, scanning, finishing, batch,
                   pausedForEditor, shown, onDisk, removed, disturbed>>

\* previewReadyBatch without the lock: entries of another directory are
\* deleted, and with nothing left the call returns.
Filter(w) ==
    /\ worker[w].pc = "filter"
    /\ LET keep == {e \in worker[w].batch : e[1] = selectedDir} IN
        IF keep = {} THEN Delivered(w)
        ELSE worker' = [worker EXCEPT ![w].batch = keep, ![w].pc = "append"]
    /\ UNCHANGED <<jobs, generation, queued, tasks, running, paused, gui,
                   selectedDir, scanning, finishing, batch, pausedForEditor,
                   shown, world>>

\* previewReadyBatch with the lock, and the idle callback.
AppendBatch(w) ==
    /\ worker[w].pc = "append"
    /\ pending' = pending \cup worker[w].batch
    /\ IF batchPending \/ batchPaused
       THEN UNCHANGED <<batchPending, drains>>
       ELSE batchPending' = TRUE /\ drains' = drains + 1
    /\ Delivered(w)
    /\ UNCHANGED <<jobs, generation, queued, tasks, running, paused, gui,
                   selectedDir, scanning, finishing, batchPaused,
                   pausedForEditor, shown, world>>

\* The end of a worker, and previewsFinished.
Finish(w) ==
    /\ Exit(w)
    /\ finIdles' = IF Announces(w) THEN finIdles \cup {worker[w].lastDir}
                   ELSE finIdles
    /\ UNCHANGED <<gui, selectedDir, scanning, scanComplete, finPending,
                   retryQueued, timers, finished, batch, pausedForEditor,
                   shown, world>>

WorkerStep(w) ==
    Quiet(w) \/ LoadFile(w) \/ Filter(w) \/ AppendBatch(w) \/ Finish(w)

-----------------------------------------------------------------------------
(* Selecting another folder: dirSelected, which begins with closeDir. *)

\* closeDir up to removeAllJobs: from here on, answers to the old folder
\* carry the wrong number.
SelectDir ==
    /\ gui = "free" /\ selectedDir < MaxDirs
    /\ selectedDir' = selectedDir + 1
    /\ scanComplete' = TRUE /\ finPending' = FALSE /\ retryQueued' = FALSE
    /\ gui' = "stop"
    /\ UNCHANGED <<loader, scanning, timers, finIdles, finished, batch,
                   pausedForEditor, shown, world>>

\* The rest of closeDir: removeAllJobs, and the entries that wait are deleted
\* (what a worker does between the two, it could have done before).  The idle
\* callback that would drain stays queued.
StopLoading ==
    /\ gui = "stop"
    /\ RemoveAllJobs
    /\ pending' = {} /\ batchPending' = FALSE
    /\ queuedKeys' = {} /\ fileNameList' = {} /\ browser' = {}
    /\ failed' = {} /\ removed' = {}
    /\ gui' = "open"
    /\ UNCHANGED <<selectedDir, scanning, finishing, drains, batchPaused,
                   pausedForEditor, onDisk, disturbed>>

Disturb(kind) ==
    /\ kind \in Disturbances /\ disturbed < MaxDisturbances
    /\ disturbed' = disturbed + 1

\* addFiles: what is queued already is not queued again.
AddFiles(keys, fs) ==
    /\ queuedKeys' = keys \cup fs
    /\ IF fs \subseteq keys THEN UNCHANGED <<loader, finPending, finished>>
       ELSE /\ AddJobs(selectedDir, fs \ keys)
            /\ finPending' = FALSE /\ finished' = FALSE

\* The rest of dirSelected: the file to select goes first, then the scan
\* starts.
StartScan ==
    /\ gui = "open"
    /\ \E first \in {{}} \cup {{f} : f \in onDisk} :
        /\ queuedKeys' = first
        /\ IF first = {} THEN UNCHANGED loader ELSE AddJobs(selectedDir, first)
    /\ scanComplete' = FALSE /\ finPending' = FALSE /\ finished' = FALSE
    /\ scan' = [dir |-> selectedDir, all |-> onDisk, left |-> onDisk]
    /\ gui' = "free"
    /\ UNCHANGED <<selectedDir, posts, retryQueued, timers, finIdles, batch,
                   pausedForEditor, fileNameList, browser, world>>

\* What a worker has not handed over yet is deleted when the generation ends.
Unflushed(w) ==
    (IF worker[w].pc \in {"filter", "append"} THEN {} ELSE worker[w].batch)
    \cup (IF worker[w].pc \in {"check", "load"} THEN {worker[w].job.entry} ELSE {})

\* The recursive switch stops the loader.  Its idle callback means to select the
\* folder again, but dirSelected returns: the folder is the one that is open.
ToggleRecursive ==
    /\ gui = "free" /\ selectedDir # 0
    /\ Disturb("toggle")
    /\ RemoveAllJobs
    /\ removed' = removed \cup {j.entry : j \in jobs}
                         \cup UNION {Unflushed(w) : w \in Workers}
    /\ UNCHANGED <<gui, selectedDir, scanning, finishing, batch,
                   pausedForEditor, shown, onDisk, failed>>

-----------------------------------------------------------------------------
(* The scan thread; it ends by itself when its folder has been left. *)

Post(files, last) ==
    posts' = Append(posts, [dir |-> scan.dir, files |-> files, last |-> last])

\* The first file is posted alone, then the rest (a batch of at most 32).
ScanSome ==
    /\ scan.dir = selectedDir /\ scan.left # {}
    /\ \E fs \in IF scan.left = scan.all THEN {{f} : f \in scan.all}
                  ELSE {scan.left} :
        /\ scan' = [scan EXCEPT !.left = @ \ fs]
        /\ Post(fs, FALSE)
    /\ UNCHANGED <<loader, gui, selectedDir, finishing, batch,
                   pausedForEditor, shown, world>>

ScanEnds ==
    /\ scan.dir = selectedDir /\ scan.dir # 0 /\ scan.left = {}
    /\ scan' = NoScan
    /\ Post(scan.all, TRUE)
    /\ UNCHANGED <<loader, gui, selectedDir, finishing, batch,
                   pausedForEditor, shown, world>>

-----------------------------------------------------------------------------
(* Idle callbacks and timers of the catalog. *)

\* Mutant: the end of the scan does not ask whether the previews are finished.
RunPost_NoCheck ==
    /\ gui = "free" /\ posts # <<>>
    /\ LET post == Head(posts) IN
        IF post.last
        THEN /\ fileNameList' = post.files /\ scanComplete' = TRUE
             /\ UNCHANGED <<loader, queuedKeys, finPending, finished>>
        ELSE /\ AddFiles(queuedKeys, post.files)
             /\ UNCHANGED <<fileNameList, scanComplete>>
    /\ posts' = SubSeq(posts, 2, Len(posts))
    /\ UNCHANGED <<gui, selectedDir, scan, retryQueued, timers, finIdles, batch,
                   pausedForEditor, browser, world>>

\* What the scan posted, unless the folder has been left.
RunPost ==
    /\ gui = "free" /\ posts # <<>>
    /\ LET post == Head(posts) IN
        \/ /\ post.dir # selectedDir
           /\ UNCHANGED <<loader, queuedKeys, fileNameList, scanComplete,
                          finPending, finished, finIdles>>
        \/ /\ post.dir = selectedDir /\ ~post.last
           /\ AddFiles(queuedKeys, post.files)
           /\ UNCHANGED <<fileNameList, scanComplete, finIdles>>
        \/ /\ post.dir = selectedDir /\ post.last
           /\ WakePendingWorkers
           /\ fileNameList' = post.files
           /\ scanComplete' = TRUE /\ finPending' = TRUE
           /\ finIdles' = finIdles \cup {selectedDir}
           /\ UNCHANGED <<queuedKeys, finished>>
    /\ posts' = SubSeq(posts, 2, Len(posts))
    /\ UNCHANGED <<gui, selectedDir, scan, retryQueued, timers, batch,
                   pausedForEditor, browser, world>>

\* Mutant: the number of the directory is not looked at.
Drain_Blind ==
    /\ gui = "free" /\ drains > 0
    /\ browser' = browser \cup pending
    /\ pending' = {} /\ batchPending' = FALSE /\ drains' = drains - 1
    /\ finIdles' = IF finPending /\ scanComplete
                   THEN finIdles \cup {selectedDir} ELSE finIdles
    /\ UNCHANGED <<loader, gui, selectedDir, scanning, scanComplete, finPending,
                   retryQueued, timers, finished, batchPaused, pausedForEditor,
                   queuedKeys, fileNameList, world>>

\* Mutant: what does not fit into a round is not put back.
Drain_Drops ==
    /\ gui = "free" /\ drains > 0 /\ ~batchPaused
    /\ \E some \in SUBSET pending :
        browser' = browser \cup {e \in some : e[1] = selectedDir}
    /\ pending' = {} /\ batchPending' = FALSE /\ drains' = drains - 1
    /\ finIdles' = IF finPending /\ scanComplete
                   THEN finIdles \cup {selectedDir} ELSE finIdles
    /\ UNCHANGED <<loader, gui, selectedDir, scanning, scanComplete, finPending,
                   retryQueued, timers, finished, batchPaused, pausedForEditor,
                   queuedKeys, fileNameList, world>>

\* processPendingPreviews_: some of the entries that wait enter the browser,
\* those of other folders are deleted.
Drain ==
    /\ gui = "free" /\ drains > 0
    /\ \/ /\ batchPaused
          /\ batchPending' = FALSE /\ drains' = drains - 1
          /\ UNCHANGED <<pending, browser, finIdles>>
       \/ /\ ~batchPaused
          /\ \E some \in SUBSET pending :
                /\ some = {} => pending = {}
                /\ browser' = browser \cup {e \in some : e[1] = selectedDir}
                /\ pending' = pending \ some
          /\ IF pending' # {} THEN UNCHANGED <<batchPending, drains, finIdles>>
             ELSE /\ batchPending' = FALSE /\ drains' = drains - 1
                  /\ finIdles' = IF finPending /\ scanComplete
                                 THEN finIdles \cup {selectedDir} ELSE finIdles
    /\ UNCHANGED <<loader, gui, selectedDir, scanning, scanComplete, finPending,
                   retryQueued, timers, finished, batchPaused, pausedForEditor,
                   queuedKeys, fileNameList, world>>

\* schedulePreviewsFinishedRetry_, with rq and tm for the flag and the timers.
Retry(rq, tm) ==
    /\ finPending' = TRUE /\ retryQueued' = TRUE
    /\ timers' = IF rq THEN tm ELSE [tm EXCEPT ![selectedDir] = @ + 1]

\* previewsFinishedUI up to the question to the loader.
PreviewsFinishedUI(d, rq, tm) ==
    \/ /\ d # selectedDir
       /\ retryQueued' = rq /\ timers' = tm
       /\ UNCHANGED <<gui, finPending>>
    \/ /\ d = selectedDir /\ ~scanComplete
       /\ finPending' = TRUE
       /\ retryQueued' = rq /\ timers' = tm
       /\ UNCHANGED gui
    \/ /\ d = selectedDir /\ scanComplete
       /\ IF batchPending \/ pending # {}
          THEN Retry(rq, tm) /\ UNCHANGED gui
          ELSE /\ gui' = "finish"
               /\ retryQueued' = rq /\ timers' = tm
               /\ UNCHANGED finPending

RunFinIdle(d) ==
    /\ gui = "free" /\ d \in finIdles
    /\ finIdles' = finIdles \ {d}
    /\ PreviewsFinishedUI(d, retryQueued, timers)
    /\ UNCHANGED <<loader, selectedDir, scanning, scanComplete, finished, batch,
                   pausedForEditor, shown, world>>

\* The retry; nothing happens when files have been added meanwhile.
Timer(d) ==
    /\ gui = "free" /\ timers[d] > 0
    /\ LET tm == [timers EXCEPT ![d] = @ - 1] IN
        IF finPending THEN PreviewsFinishedUI(d, FALSE, tm)
        ELSE /\ retryQueued' = FALSE /\ timers' = tm
             /\ UNCHANGED <<gui, finPending>>
    /\ UNCHANGED <<loader, selectedDir, scanning, scanComplete, finIdles,
                   finished, batch, pausedForEditor, shown, world>>

\* previewsFinishedUI from the question to the loader on.
FinishFolder ==
    /\ gui = "finish"
    /\ gui' = "free"
    /\ IF HasPendingWork
       THEN /\ WakePendingWorkers
            /\ Retry(retryQueued, timers)
            /\ UNCHANGED finished
       ELSE /\ finPending' = FALSE /\ finished' = TRUE
            /\ UNCHANGED <<loader, retryQueued, timers>>
    /\ UNCHANGED <<selectedDir, scanning, scanComplete, finIdles, batch,
                   pausedForEditor, shown, world>>

-----------------------------------------------------------------------------
(* The foreground, and the disk. *)

\* FilePanel::pauseBackgroundWork, for its two parts modelled here.
PauseWork ==
    /\ gui = "free" /\ ~pausedForEditor
    /\ Disturb("pause")
    /\ pausedForEditor' = TRUE
    /\ batchPaused' = TRUE
    /\ PauseLoader
    /\ UNCHANGED <<gui, selectedDir, scanning, finishing, pending, batchPending,
                   drains, shown, onDisk, failed, removed>>

\* FilePanel::resumeBackgroundWorkNow.
ResumeWork ==
    /\ gui = "free" /\ pausedForEditor
    /\ pausedForEditor' = FALSE
    /\ ResumeLoader
    /\ batchPaused' = FALSE
    /\ IF pending # {} /\ ~batchPending
       THEN batchPending' = TRUE /\ drains' = drains + 1
       ELSE UNCHANGED <<batchPending, drains>>
    /\ UNCHANGED <<gui, selectedDir, scanning, finishing, pending,
                   shown, world>>

\* reapplyBrowserFilter resumes the loader, whoever has paused it.
Nudge ==
    /\ gui = "free" /\ paused
    /\ ResumeLoader
    /\ UNCHANGED <<gui, selectedDir, scanning, finishing, batch,
                   pausedForEditor, shown, world>>

\* A file appears or vanishes.
EditDisk ==
    /\ Disturb("edit")
    /\ \E f \in Files :
        onDisk' = IF f \in onDisk THEN onDisk \ {f} ELSE onDisk \cup {f}
    /\ UNCHANGED <<loader, gui, selectedDir, scanning, finishing, batch,
                   pausedForEditor, shown, failed, removed>>

\* reparseDirectory, which the monitor calls; there is one after the scan.
Reparse ==
    /\ gui = "free" /\ selectedDir # 0 /\ scanComplete
    /\ fileNameList # onDisk
    /\ LET gone == {e \in browser : e[2] \notin onDisk} IN
        /\ browser' = browser \ gone
        /\ AddFiles(queuedKeys \ {e[2] : e \in gone}, onDisk \ fileNameList)
    /\ fileNameList' = onDisk
    /\ UNCHANGED <<gui, selectedDir, scanning, scanComplete, retryQueued,
                   timers, finIdles, batch, pausedForEditor, world>>

-----------------------------------------------------------------------------

GuiStep ==
    \/ StopLoading \/ StartScan
    \/ RunPost \/ Drain \/ FinishFolder
    \/ \E d \in Dirs : RunFinIdle(d) \/ Timer(d)

Next ==
    \/ \E w \in Workers : WorkerStep(w)
    \/ GuiStep
    \/ ScanSome \/ ScanEnds
    \/ SelectDir \/ ToggleRecursive
    \/ PauseWork \/ ResumeWork \/ Nudge
    \/ EditDisk \/ Reparse

Spec == Init /\ [][Next]_vars

\* Threads run, and so do the callbacks of the GUI thread, whatever it does
\* first; what has been paused is resumed.
Fairness ==
    /\ \A w \in Workers : WF_vars(WorkerStep(w))
    /\ WF_vars(ScanSome) /\ WF_vars(ScanEnds)
    /\ WF_vars(StopLoading \/ StartScan \/ FinishFolder)
    /\ SF_vars(RunPost) /\ SF_vars(Drain)
    /\ \A d \in 1 .. MaxDirs : SF_vars(RunFinIdle(d)) /\ SF_vars(Timer(d))
    /\ SF_vars(ResumeWork) /\ SF_vars(Reparse)

FairSpec == Spec /\ Fairness

-----------------------------------------------------------------------------
(* Properties. *)

\* The browser shows entries of the folder that is open, although the loader
\* still delivers entries of the one before.
OnlyThisFolder == gui # "stop" =>
    \A e \in browser : e[1] = selectedDir

\* A file that has been queued is not lost: there is a job for it, a worker
\* has it, it waits for the browser, is shown, or could not be opened.  The one
\* exception is what the loader had not handed over yet when the recursive switch
\* was turned: those files are lost until the folder is left.
Held(w) == worker[w].batch
           \cup (IF worker[w].pc \in {"check", "load"}
                 THEN {worker[w].job.entry} ELSE {})

NoFileLost ==
    gui \in {"free", "finish"} =>
    \A f \in queuedKeys :
        LET e == <<selectedDir, f>> IN
        \/ e \in browser \cup pending \cup failed \cup removed
        \/ \E j \in jobs : j.entry = e
        \/ \E w \in DOMAIN worker : e \in Held(w)

\* The count of queued workers never promises a task that is not there.
TasksForCounted == queued <= tasks

\* Jobs that are not paused have somebody coming for them.
NoStrandedJobs ==
    jobs # {} /\ ~paused =>
        \/ tasks > 0 \/ running > 0
        \/ \E w \in Workers : worker[w].pc = "tail"

\* Entries that wait have a callback coming for them, or are paused.
NoStrandedEntries ==
    pending # {} /\ ~batchPaused => drains > 0

\* What is opened, or added to, is announced as finished in the end.
FolderFinishes == ~finished ~> finished

\* previewloader.h: "all previews have finished loading".  When the catalog
\* finishes the folder, no preview of it is on its way.
FinishedMeansAll ==
    finished /\ gui = "free" /\ selectedDir # 0 =>
        \A e \in pending : e[1] # selectedDir

\* previewloader.h on removeAllJobs: "Will not return till all jobs have
\* completed."
RemoveAllWaits ==
    [][generation' # generation =>
        \A w \in Workers : worker[w].pc \notin {"load", "filter", "append"}]_vars

\* reparseDirectory: "check if a new file has been added".  A catalog that has
\* nothing left to do shows the files of the folder.
AtRestShowsAll ==
    gui = "free" /\ selectedDir # 0 /\ scanComplete /\ fileNameList = onDisk
    /\ posts = <<>> /\ pending = {} /\ ~HasPendingWork =>
        \A f \in onDisk : <<selectedDir, f>> \in browser

=============================================================================
