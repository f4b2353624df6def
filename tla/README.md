# Steep: a verification development

Steep is a photo editor (a RawTherapee fork: C++ and GTK 3). Its two halves are
`rtengine/`, which develops pictures, and `rtgui/`, the application. This
directory holds TLA+ models of the parts of Steep that are hard to test: the
threads, locks, queues and hand-offs between a click on a photo, an edit and the
pixels on the canvas; the locks, workers and queues of the thumbnail browser; the
export queue with what it leaves on disk; and the server through which other
programs drive the editor. TLC checks the models on small instances; TLAPS proves
the main theorems for every instance.

Paths below are relative to the root of the repository; `:n` is a line.

## 1. Inventory

Steep is one process. The GTK thread runs all callbacks of the user interface;
everything slow runs on worker threads, and results come back either by a direct
call of a listener or as an idle callback on the GTK loop.

### Preview pipeline (`rtengine/improccoordinator`, `dcrop`, `cropupdatestate.h`, `smartrepair.h`)

* **State.** One `ImProcCoordinator` per opened photo (a second one for the
  before view): `params` and `nextParams`, the change flags `changeSinceLast`,
  the claim `updaterRunning`, the flag `destroying`, the handles
  `processingTasks`, the repair generations `smartRepairRequest_` and
  `smartRepairPass_`, the mutexes `paramsUpdateMutex`, `updaterThreadStart` and
  `mProcessing`. One `Crop` per canvas or detail window: `cropMutex`,
  `CropUpdateState` (pending, running), the listener. One process-wide
  `PreviewProcessingExecutor`: a deque served newest first by one thread.
* **Operations.** `beginUpdateParams`/`endUpdateParams`, `startProcessing`,
  `process`, `updatePreviewImage`, `Crop::update`, `Crop::fullUpdate`,
  `tryUpdate`/`startUpdate`, `cancelSmartRepairs`/`retrySmartRepairs`,
  `signalStop`, `stopProcessing`, the destructor.
* **Interactions.** The GTK thread submits edits and window changes and closes
  photos; the shared worker develops; a cleanup thread (`EditorCleanupExecutor`)
  stops and deletes. Frames go to the `CropHandler`, progress to the editor.
* **Hard behaviours.** A claim given up while an edit arrives; a pass broken off after
  it has consumed the change flags, and a narrower one after it; frames rendered for a
  window that has moved; tasks of several photos overtaking each other; deletion while
  the worker is inside.
* **Correctness.** No edit and no window is lost; the canvas settles on the
  newest of both; closing neither deadlocks, leaks a task nor frees an object in
  use; the progress flag is balanced.

### Canvas (`rtgui/crophandler`)

* **State.** Window geometry, `enabled`, the listener registration, the last
  accepted frame, `redraw_needed` and the idle callback.
* **Operations.** `setZoom`, `setWSize`, `setAnchorPosition`, `moveAnchor`,
  `setEnabled`, `newImage`, `acceptUpdate`, `setDetailedCrop`, `disconnectCrop`.
* **Hard behaviours.** A frame comes from another thread, late, and must match
  the window; the handler outlives the photo and is attached to the next one.
* **Correctness.** A frame is shown only for the window asked for; no frame of
  the old photo after a switch; the last accepted frame is drawn.

### Detail windows (`rtgui/crophandler`, `rtgui/imagearea`, `rtengine/dcrop`)

* **State.** The vector `crops` of the coordinator, per window the `Crop` with its
  mutex, claim and queued task.
* **Operations.** Opening, moving and closing a window, closing the photo over its
  windows; the worker's walk over the vector and its full updates.
* **Hard behaviours.** The GTK thread changes the vector and deletes crops while
  the worker walks it or has a task for one of them; two mutexes are taken in both
  orders.
* **Correctness.** No crop is used after it is deleted; nobody waits for ever; a
  pass leaves out no window; an open window ends up current.

### Editor (`rtgui/editorpanel.cc`)

* **State.** The current processor, the before processor, the session number,
  timers of the settled refinement and of the watchdog.
* **Operations.** open, close, save, the deferred high-quality refinement.
* **Hard behaviours.** A close that must not block the GTK thread; callbacks of
  the previous photo; a refinement that waits for "progress is off".
* **Correctness.** A closed photo is deleted exactly once; results of an old
  session change nothing in the new one; the refinement runs in the end.

### Opening a photo (`rtgui/filepanel.cc`, `editorpanel.cc`, `progressconnector.h`)

* **State.** `pendingLoads` with their connectors and delayed starts, the load
  generation, the mark "image loading" and the references of each thumbnail, the
  cover over the canvas with its watchdog, the set-up timers of the open photo.
* **Operations.** Selecting a photo, superseding older loads, decoding on the one
  foreground thread, the end callback, the cover, the error dialog.
* **Hard behaviours.** Clicks faster than decoding; a photo that cannot be
  decoded; end callbacks of loads nobody wants any more; the cover of one photo
  cancelling what another still needs.
* **Correctness.** Only the newest load opens; it does open; marks, references and
  pauses are given back exactly once; the cover goes away.

### Decoding ahead (`rtgui/filepanel.cc`: `RawLoadGate`, `PreloadManager`)

* **State.** The gate (active, waiting foreground loads), the manager (decoded
  photos, what is being decoded, the marks of loads that wait for a result), the
  preload thread, the timers between a click and the decoding of its neighbours.
* **Operations.** `acquireForeground`, `tryAcquirePreload`, `prioritizeForeground`,
  `takeOrWaitForLoading`, `preloadAdjacent`, the preload job.
* **Hard behaviours.** A load looks for a result, then waits for it, while the job
  that was to deliver it is cancelled; a result arrives for a photo that was left.
* **Correctness.** A RAW is not decoded twice; every load ends; the foreground goes
  first.

### Foreground gate (`rtgui/filepanel.cc`, `rtgui/editorpanel.cc`)

* **State.** "A photo is being opened", "the open photo is being rendered", the
  timer that resumes; the last activity message with its session.
* **Operations.** Begin and end of foreground work, `setProgressState`, its idle
  callback, the timer.
* **Hard behaviours.** Messages of a photo that was closed; failed loads.
* **Correctness.** What is paused has a reason or a timer.

### Reader/writer lock of the thumbnail browser (`rtgui/threadutils`)

* **State.** Two counters under a `std::mutex`, a condition variable, the flag of
  each lock object.
* **Operations.** acquire and release of `MyReaderLock` and `MyWriterLock`,
  construction of `MyTryReaderLock` and `MyTryWriterLock`.
* **Interactions.** `entryRW` (the list of thumbnails), `lockRW` (one
  thumbnail), `wave_mutex` (histogram). Drawing takes read locks inside read
  locks.
* **Correctness.** Writers are alone, no wake-up is lost, nested reading never
  blocks on itself.

### Thumbnail workers (`rtgui/thumbimageupdater`)

* **State.** `jobs_` with its index, the set `cancelled_` of removed listeners,
  `callbacksInFlight_`, the counters `active_`, `queuedWorkers_`,
  `activeJpegJobs_`, `activeUpgradeJobs_` and `foregroundJobCount_`, the hint
  `priorityScanNeeded_`, `pauseDepth_`, a pool of at most 12 threads.
* **Operations.** `add`/`addBatch`, `prioritiesChanged`, `pause`/`resume`,
  `removeJobs(listener)`, `removeAllJobs`, a worker's loop.
* **Interactions.** Drawing the browser marks entries visible and queues jobs for
  them; the file panel pauses the pool for the editor; `~FileBrowserEntry` removes
  its jobs; `FileBrowser::close` puts the entries of a folder aside and deletes
  them later. Finished images go through a queue of `FileBrowserEntry` to the GTK
  thread (browser entries, below).
* **Hard behaviours.** An entry is deleted while a worker renders for it, and a
  new one takes its address; flags the queue was counted by change without the
  lock; a worker leaves while a job arrives; the pause lets only visible jobs
  through; two kinds of jobs have slots of their own.
* **Correctness.** No callback reaches a deleted entry or its successor; the
  limits hold; no job waits without a worker that will look at it.

### Browser entries (`rtgui/filebrowserentry`, `rtgui/thumbbrowserentrybase`)

* **State.** Per cell the pixels shown, whether they are usable, the request that is
  pending, generations of updates, a picture sent by the editor, the pictures kept
  for other sizes; the queue `queuedImageUpdates` with its helper objects, its
  drain, its pause.
* **Operations.** Drawing (which asks for what is missing), edits, resizing,
  hovering over a menu entry, the editor's picture; `updateImage` and
  `updateImageFailed` of the workers; the drain and the retry timer; deletion.
* **Hard behaviours.** Results arrive in any order from several workers; an entry
  is deleted with updates queued; a generation is taken outside the queue's lock.
* **Correctness.** What was asked for is on its way; at rest the cells show the
  last edit; the helper is freed once.

### Folder previews (`rtgui/previewloader`, `rtgui/filecatalog.cc`)

* **State.** A set of jobs, the running directory id, the catalog's list.
* **Operations.** `add`, `removeAllJobs`, the worker, the idle callback that adds
  a row, end of a directory.
* **Hard behaviours.** The user changes the folder while results of the previous
  one are in flight, or turns the recursive switch while files are queued.
* **Correctness.** No preview of another folder enters the list; "finished" is
  announced once and last.

### Thumbnail cache (`rtgui/cachemanager`, `rtgui/thumbnail`)

* **State.** The table of opened thumbnails, their reference counts.
* **Operations.** `getEntry`, `increaseRef`, `decreaseRef`, rename, delete.
* **Hard behaviours.** The last release races a new look-up.
* **Correctness.** An object in the table is alive; one object per file.

### Batch queue (`rtgui/batchqueue`)

* **State.** The list of entries, the running job, `queue.csv`, the parameter
  files.
* **Operations.** add, remove, reorder, start, stop, finish of a job, save, load.
* **Hard behaviours.** The list changes while a job runs; a restart between the
  two files being written.
* **Correctness.** A job is done once; what is saved can be loaded.

### Batch queue previews (`rtgui/bqentryupdater`, `rtgui/batchqueueentry`)

* **State.** A list of jobs, whether a thread runs.
* **Operations.** Ask for a preview, remove the jobs of an entry, the thread.
* **Hard behaviours.** The thread ends while a job arrives; an entry is deleted
  while its preview is rendered.
* **Correctness.** One thread; no job without it; every entry is painted.

### MCP server (`rtgui/mcp`)

* **State.** `running_`, the server thread, a completion slot per request.
* **Operations.** `start`, `stop`, `dispatchToGtk` (run on the GTK thread, wait at
  most 10 s).
* **Hard behaviours.** A timeout races the idle call that runs the task; `stop`
  from the GTK thread joins a thread that waits for the GTK thread; a start that
  could not bind.
* **Correctness.** A request is answered once and its task run at most once, never
  after it was reported as timed out; a failed start can be repeated.

### Not state machines, or not this project's

Image processing (`rtengine/improcfun`, `rawimagesource`, `iplocallab`, ...):
numerical code on pixels. AI inference: its cancellation token is modelled, the
inference is not. Tools and widgets: glue between controls and parameters; they
appear as user operations. Parameters, profiles, metadata: parsing and formatting. `libraw`,
`klt`, `onnxruntime` and friends: third-party code.

`PROJECT.json` lists each component with its files and status, and under
`hazards` every place that is hard to test.

## 2. Plan

| # | Modules | Subject | State |
|---|---------|---------|-------|
| 1 | `PreviewPipeline`, `Canvas`, `PreviewPipelineProofs` | edit to pixels, closing | modelled, proved |
| 2 | `RWMutex`, `ReadersWriter`, `LocksProofs` | reader/writer lock | modelled, proved |
| 3 | `DetailWindows`, `LocksProofs` | the vector `crops`, the two orders of cropMutex and mProcessing, full updates of crops that come and go | modelled; its passes proved |
| 4 | `ThumbImageUpdater`, `ThumbImageUpdaterProofs` | thumbnail workers, removal, pausing, limits | modelled, proved |
| 5 | `EntryImages`, `ThumbnailsProofs` | from `updateImage()` to the cell: generations, the queue, the idle helper, retries | modelled, safety proved |
| 6 | `PreviewLoader`, `FolderPreviews`, `ServicesProofs` | folder previews, composed with their catalog | modelled, safety proved |
| 7 | `ThumbnailCache`, `ThumbnailCacheProofs` | reference counts against look-ups | modelled, proved |
| 8 | `BatchQueue`, `QueuePreviews`, `ServicesProofs`, `ThumbnailsProofs` | running, editing, saving and restoring the queue; its previews | modelled; safety of the list and its file until the program dies, and the one preview thread, proved |
| 9 | `McpServer`, `ServicesProofs` | start, stop and the time-limited call into the GTK thread | modelled, safety proved |
| 10 | `PhotoOpening`, `BackgroundGate`, `PreloadGate`, `OpeningProofs`, `PreloadGateProofs` | a click on a photo: loads, cover, pausing of background work, decoding ahead | modelled; safety of the loads and both gates proved |
| 11 | `CropDisplay` | from an accepted frame to the drawn one (idle callback, `redraw_needed`) | open |
| 12 | `EditorSaves`, `SettledRefinement` | saving from the editor; the timers of the deferred refinement | open |
| 13 | dust scans, AI mask cache | broken promises of cancelled scans; caches around inference | open |

Abstract specifications: `Canvas` (the newest edit wins) and `ReadersWriter`
exist; worth stating are a shared table of live objects (for 7), a durable list
(for 8) and "the click that was accepted last opens" (for 10).

Theorems worth proving next: that a queue restored after a crash has every photo once
when the list has not been shortened, and the action properties that are only
model-checked (section 6). No module declares a RECURSIVE operator, so all of them can
be proved about.

## 3. The modules

### `PreviewPipeline`: the threads of an opened photo

Three threads act. `gui` is the GTK thread, `worker` the thread of
`PreviewProcessingExecutor`, `cleanup` that of `EditorCleanupExecutor`
(`editorpanel.cc:204`). Each has a program counter; an action is the code between
two points where another thread may get in, that is between the acquisition of
one mutex and the next, or between two unlocked reads. Mutexes are modelled by
their holder, and a mutex held through several actions (`paramsUpdateMutex` over
`beginUpdateParams`..`endUpdateParams` and over the exit of `process`,
`updaterThreadStart` over `fullUpdate`, `mProcessing` over a pass, `cropMutex`
over `Crop::update`) is a variable another thread's guard tests.

| TLA+ | code |
|------|------|
| `BeginUpdateParams`, `EndUpdateParams` | `improccoordinator.cc:4679`, `:4695` |
| `RequestPass`, `StartProcessingCode` | `startProcessing(int)`, `:4500` |
| `StartProcessing`, `StartProcessingLocked` | `startProcessing()`, `:4470`: the unlocked test of `destroying`, then the section under `updaterThreadStart` |
| `CancelRepairs`, `RetryRepairs` | `:4760`, `:4772` |
| `MoveWindow`, `ZoomToFull`, `Enable`, `Disable` | `crophandler.cc:183-309`, `:524` |
| `TryUpdate`, `StartUpdate` | `cropupdatestate.h:12`, `dcrop.cc:2572` |
| `SignalStop`, `SignalCancel`, `Close` | `signalStop`, `EditorPanel::close` |
| `CleanupStart` .. `CleanupFree` | `stopProcessing` and the destructor, `:4415`, `:428` |
| `TakeTask` | `PreviewProcessingExecutor::run`, `:163` |
| `ProcessEnter` .. `ProcessClaim` | `process()`, `:4509`-`:4676` |
| `RenderBegin` .. `RenderEnd` | `updatePreviewImage()` as `process()` calls it |
| `CropBegin`, `CropFinish`, `CropDeliver` | `Crop::update`, `setDetailedCrop` |
| `RenderAbort`, `PassThrow`, `FullThrow` | a pass or a frame is broken off: `:4656`, `dcrop.cc:2608` |
| `FullEnter` .. `FullLeave` | `Crop::fullUpdate`, `dcrop.cc:2586` |

Data is reduced to what the properties tell apart. A picture is a pair: the number
of the edit it was developed with and the number of the window it was rendered
for; both numbers are those of the user operation that made them. Change flags are
kept: `RenderFlags` are the stages of a pass, an edit is one of the sets `Actions`, and
a pass runs the stages of the flags it has claimed (`improccoordinator.cc:569`), or
more. `params` are replaced when the flags are claimed (`:4626`), so a pass that is
broken off leaves stages out of date that no later pass of other flags runs. The history
`unfinished` has them: the stages of the coordinator and of each crop that were broken
off and have not been run since. A repair
request is the number of the operation that made it, 0 is no request or a
suspended one, and a pass is cancelled when the request it started with is no
longer the current one (`smartrepair.h:29`).

What is abstracted on purpose:

* `CanvasFlags` stand for changes the visible crop shows at every scale. A pass
  renders a crop only when a test of the flags wants it (`improccoordinator.cc:3158`);
  an edit that cannot be seen at the crop's scale (sharpening below 100 %, for
  example) has none of them, and the number of the last edit, `nextParams`, counts
  those that have one.
* The whole-image stages of `updatePreviewImage` are one action: they write data
  of the coordinator that only this pass and the crops after it read, under
  `mProcessing`. Whether a pass runs more stages than its flags name (`:569` also
  looks at the scale and at `panningRelatedChange`) is a choice: it may or may not make
  up for what was broken off. The histogram and vectorscope tail feeds no canvas.
* While the user drags, the window moves without a request
  (`cropwindow.cc:1061`); the model's `MoveWindow` is the move with the update on
  release.
* `Crop::update` loads its listener twice (`dcrop.cc:2198` and `:2218`); whatever
  happens between the loads may also happen after the second, so one load is
  enough.
* A progress listener is called without a lock; the call that had loaded the
  listener before it was detached is in `BackgroundGate`, where the stamp with
  `openSession_` matters.
* A photo has its one visible crop; detail windows are in `DetailWindows`. Dust
  scans are in no module. `RequestPass` lets the timers of the settled refinement
  fire at any time.

Two flags choose the environment. `Faults`: may a stage throw? `process` and
`fullUpdate` catch and go on; the edit of the failed pass is not retried.
`RepairCancels`: may the user press Cancel in the spot panel? (See the findings.)
`SettledIsCurrent` is checked and proved with both: what it excepts is a canvas with an
`unfinished` stage, and nothing else.

### `Canvas`: what the pipeline promises

No threads, no queues. A canvas may skip edits but never goes back to an older
one; it accepts only frames of the newest window; after a close at most one frame
that was already on its way arrives, and a visible canvas of an open photo is
brought up to date again and again, unless work on its picture has been broken off
(`spoiled`). `PreviewPipeline!Promise` maps the promise's
`requested` to `nextParams`, `closed` to `destroying`, `visible` to `listening`,
and `coming` to "the worker has passed the last test and is about to call the
listener", and `spoiled` to `Unfinished`: the canvas promises nothing of a picture on
which work was broken off. Hidden in this mapping is the point of the design: `DeliveryIsSeen`,
that disabling a canvas waits for a delivery (it takes `cropMutex`), closing
does not.

### `RWMutex` and `ReadersWriter`

`RWMutex` has the two counters and, for each lock object, whether its flag is set,
it is in the loop of `acquire()`, or in `cond.wait()`. An action is one section
under the internal mutex; `cond.wait()` splits `acquire()`. Readers count
together as one writer, so the branch a reader takes depends on both counters. A
lock object belongs to a thread, and a thread that waits does nothing else. The
callers' discipline is a guard, named `MayWaitToRead` and `MayWaitToWrite`: a
thread that holds the write lock does not wait for it again, one that holds a
read lock does not wait to write (they release it first: see the remark at
`filebrowser.cc:3375`). A try lock that fails changes nothing and is a stuttering
step. Spurious wake-ups are included.

`ReadersWriter` is the promise: many readers or one writer.

### `ThumbImageUpdater`: the pool of the file browser

The GTK thread (`gui`) and the threads of the pool (`worker`) act. An action is
one section under `mutex_`, or what lies between two: rendering, the call of the
listener, the decrement of `active_` without the lock (`Leave`), the change of
`pauseDepth_` (`Pause`, `Resume`) and the writing of the visibility flags
(`Draw`). Only a worker that throws a job away keeps the mutex over a step
(`again`).

| TLA+ | code |
|------|------|
| `Draw`, `QueueVisible`, `PrioritiesChanged` | drawing, `thumbbrowserbase.cc:1148-1222`; `addBatch`, `prioritiesChanged` |
| `Refresh` | `filebrowserentry.cc:379-429`, other batches; `add` |
| `AddJobs` | `addJobLocked_` for each job, then `scheduleWorkersLocked_` |
| `Pause`, `Resume`, `ResumeSchedule` | `filepanel.cc:2190`, `:2232`; `resume()` |
| `RemoveAllJobs`, `CloseBrowser` | `filecatalog.cc:1413`, `:3685`; `FileBrowser::close` |
| `RemoveJobs`, `RemoveDone` | `~FileBrowserEntry`; `removeJobs` up to its wait, and after it |
| `StartWorker` .. `LeaveSchedule` | `processQueuedJobs_`, `thumbimageupdater.cc:686-810` |
| `Candidates`, `Preferred` | `pickBestJobLocked_`, `pickBestVisibleJobLocked_` |
| `ScheduleWorkers`, `RunnableJobs` | `scheduleWorkersLocked_` |

An entry is its address. `life` says what lives there: nothing, an entry of the
browser, one put aside for deletion, one inside its destructor; `orphan` marks a
worker whose entry was removed after it took the job. Both exist only to state
properties, except that the GTK thread acts on entries it has.

Abstracted: which job of a class is picked (the order of the list, and with it
`cache_pixbuf`, which only orders), `force_upgrade` (part of `upgrade`), pushing
tasks to the pool (with the section that counts them in `queuedWorkers_`), a
pause depth above 1 (the file panel guards it by
`thumbnailWorkPausedForForeground_`). Flags and the pause depth are read several
times within one section; the model reads them once. A read in between can pick a
job by the flags of either side, which differs from a step before or after the
change only in what the counts of `VisibleIsCounted` excuse while drawing has not
yet reported (`gui.changed`).

### `DetailWindows`: crops that come and go

The GTK thread (`gui`) opens, moves and closes windows and closes the photo; the
worker takes tasks, newest first. `slots` and `size` are the vector
`ImProcCoordinator::crops`, walked by index; `life` says whether a crop is listed,
being deleted or freed. The hand-over inside `process()` is one step here
(`PreviewPipeline` has it in detail); the lock orders are not abstracted: a pass
holds `mProcessing` and takes the `cropMutex` of each crop (`EachCrop` and its
successors, `improccoordinator.cc:3158`), closing takes them the other way round
(`dcrop.cc:91-99`). `Overlap` says what the user may do while the worker is busy:
open a window, close one, close the photo. Closing a window while a pass walks the
vector shifts the later crops under its index; the history `cutShort` remembers that this
has happened (`Walking` in `DeleteCrop`), and `PassReachesAll` and `WindowsAreCurrent`
speak of the behaviour up to there. Everything else that closing can do to a pass, a
full update or a task is in them (section 5).

### `ThumbnailCache`: the table and the counts

A user is a thread with one thumbnail in hand: it gets it from the table
(`GetFind`, `Create`, `Publish`), shares another's (`Share`), gives it back
(`DecreaseRef`, then the two halves of `closeThumbnail`). The browser also renames
files; a thread of its own deletes them. A thumbnail whose count an unbalanced
`deleteEntry()` or a late look-up has spoiled is marked, and the invariants speak of
the others: the two ways to spoil a count are findings of their own.

### `EntryImages`: from a worker to a cell

The state of a cell (what it shows, whether it is usable, what it believes to be
pending, its generations), the pictures kept for other sizes, the queue with its
helper objects and the drain that paints, pauses and retries. A picture is the
number of the edit it shows. `Acts` chooses what the user may do. Two histories name the
entries the code gives up on: `met`, where a worker took a job while another was busy with
the same entry (their updates may displace each other), and `caught`, which a resize left
with a picture on its way for the other size or with outdated pixels it had put aside
(`Catches`). `ThumbImageUpdater`
decides which job a worker takes and how `removeJobs()` waits; here any queued job
may be next.

### `QueuePreviews`: the previews of the export queue

`process()` appends under the mutex and looks at `stopped` after it; the thread
looks at the list under the mutex and sets `stopped` after it. `Overlap` allows the
GTK thread to act while the thread ends, or while it renders.

### `PreviewLoader` and `FolderPreviews`

`PreviewLoader` is the set of jobs with its generation and the pool; `FolderPreviews`
EXTENDS it and adds the catalog: selecting a folder, the scan, the batches that come
as idle callbacks, the two ways to find the end of loading (announcement and retries),
pausing and resuming, the recursive switch and the directory monitor (`Reparse`). The
switch removes the jobs of the loader and selects nothing: `dirSelected()` returns for
the folder that is open (`filecatalog.cc:1557`). The history `removed` has the files
that were queued or in a worker's hands then (`Unflushed`); their keys stay in
`queuedPreviewKeys_`, so nothing queues them again until another folder is selected. A
handler of the GTK thread that workers can overtake is several actions, and `gui` says
how far it is.

### `BatchQueue`: the export queue and its disk

`fd` is the list, `processing` the pointer, `csv` the content of queue.csv row by
row, `files` the parameter files, `bIdles`/`idles` the callbacks posted to the GTK
thread. Saving is not atomic: opening the file empties it (`SaveOpen`), the rows
follow. `Crash` keeps the disk and loses the rest; `Restart` reads back what it
finds. `fate` records what became of each photo and `mishaps` what has happened that the
code does not guard against: a thread was created while another was finishing its photo
("start"), a photo was sent while the thread emptied the directory ("add"), queue.csv could
not be opened ("open"), no name was left for an image ("name"). Both exist for the properties
only, which hold as long as the mishap they name has not happened.
`Faults` says which file operations may fail, `Overlap` what the GTK thread may do
while a photo is being finished. `Places` has the operators that take parts of the list
or of the file (`AtPlaces`, `Without`), which `PhotoOpening` uses too; they are counted
out by places and not by recursion, so that the proofs can look into them.

### `McpServer`

The HTTP server thread, the requests and the GTK thread, which runs one task at a
time and also starts and stops the server. Ten seconds may have passed at any time
(`TimeOut`). `auto_edit` is three dispatches with its own work in between; every
other tool is one.

### `PhotoOpening`, `BackgroundGate`, `PreloadGate`: a click on a photo

Three views of one click, each with what the others abstract. `PhotoOpening` has
`pendingLoads` with their connectors (a *slot*), references and marks, the cover with
its watchdog and the set-up timers; whether a decoded photo is at hand is a choice
(`Cached`). A photo that does not decode opens a dialog with a main loop of its own,
in which further callbacks run; so the dialogs are a stack and the rest of the
callback comes when the dialog closes (`CloseDialog`). `BackgroundGate` has the two
flags and the timer that pause and resume background work, and the activity messages
of the editor with their session; a detached processor may still call its listener
(`Races`). `PreloadGate` has the RAW gate, the manager of decoded photos, the preload
thread, the foreground thread and loads on threads of their own; a section under one
of its two mutexes is one step, also inside `fileSelected()`.

### MC modules

`MCPreviewPipeline`, `MCThumbImageUpdater` and `MCEntryImages` give the
constants of one module their values. The others check several modules, or one
module with several sets of constants, in one run: the modules are instantiated
side by side, and a variable `acts`, chosen at the start, says which of them acts
while the others stay as they are. So the states of the instances add up and are not
multiplied, and a property is stated of the instance it belongs to.

| module | instances |
|--------|-----------|
| `MCLocks` | `RWMutex`, `DetailWindows` |
| `MCThumbnails` | `ThumbnailCache`; `EntryImages` as `Grid` and, with renderings that fail, `Crowd`; `QueuePreviews` |
| `MCServices` | `FolderPreviews` (several folders, and as `Edited` one whose files change); `BatchQueue` as `Batch` and, with crashes, `Crash`; `McpServer` |
| `MCOpening` | `PhotoOpening`, `BackgroundGate` |
| `MCPreloadGate` | `PreloadGate` three times: two clicks with failing and oversize photos; `Crowded`, more clicks; `Busy`, a scrub with an edit and a load for a comparison |

### Proof modules

`PreviewPipelineProofs`, `LocksProofs`, `ThumbImageUpdaterProofs`,
`ThumbnailCacheProofs` and `PreloadGateProofs` extend the module they are about.
`OpeningProofs`, `ThumbnailsProofs` and `ServicesProofs` extend the MC module that
instantiates theirs, because the property they prove is stated there; they do not look
at the values of its constants. Section 6 explains the theorems.

## 4. The runs

| run | instance | question |
|-----|----------|----------|
| `pipeline` | one photo, 3 user operations, edits of two kinds, fair threads | no edit and no window lost; refinement of `Canvas`, its liveness included; the progress flag goes off; a closed photo is deleted |
| `before_after` | a photo and its before view, 2 operations, edits of three stages, faults, repair cancels | nothing works for a coordinator that has been freed; an idle canvas is up to date but for stages broken off |
| `locks` | 4 threads, 8 lock objects, fair; a canvas and 2 detail windows, opened and closed at any time, an edit and a move | wake-ups, nesting, refinement of `ReadersWriter`, waiting ends; a pass reaches every window and at rest the windows show the last edit, until a walk is cut short |
| `thumb` | 1 entry (a JPEG with an upgrade), 2 pool threads, all limits 1, fair | counters and limits agree with the threads; callbacks reach only their own live entry; no job is stranded; the queue drains |
| `thumbnails` | cache: 4 users, 2 names, 2 addresses; cells: 1 cell of 2 sizes, 2 workers, 3 operations, or 1 with failing renderings; export previews: 2 photos, 2 threads | thumbnails are alive while held and one per file; what was asked for comes and cells end up current, but for those two workers or a resize disturbed; the helper is freed once; one preview thread |
| `services` | 2 folders of a file with the recursive switch or a pause, 1 folder of up to 2 files that change or pause; 3 exports with failing parameter files, sent at any time; 2 exports with 2 crashes, failing names and lists; 2 requests | only the open folder is shown and, but for what the switch removes, all of it; the list survives a restart; developed is developed; a timed-out request did nothing |
| `served` | a folder of at most 1 file with 2 of pause and switch, 2 exports, 2 requests, fair | a folder is finished, every export leaves the queue, every request is answered |
| `opening` | 2 photos, 3 clicks, 1 may fail, late covers; 3 photos and 2 edits at the gate with late messages and failing loads | thumbnails are held while needed; an old load never opens, the newest does; no pause without reason |
| `preload_gate` | 3 photos, 2 RAW: 2 clicks with delays, failing and oversize photos; 3 clicks; a scrub with an edit and an auxiliary load | every lease and every waiting load belongs to a thread; results that are waited for are kept; every click ends |
| `repair_cancel`, `thumb_reuse`, `live_overrun` | the smallest instance | three statements of the repository that do not hold (section 5) |

Each run takes at most three minutes with two workers.

**Why the bounds are enough.** *Pipeline.* Closing a photo is not counted as an
operation, so with `MaxOps = 3` an edit, a second edit and a pan can meet in every
order at every step of the worker and a close can cut in anywhere. The hand-offs each
involve one actor giving up a claim and one arriving; two operations make them
collide, the third makes a collision on top of the repair. Two coordinators are what
it takes for tasks of different photos to overtake each other in the deque and for the
cleanup thread to delete one while the worker is in the other; every interaction
between photos goes through the deque, the one worker and the one cleanup thread.
Three stages are a narrow pass, another one and what both leave out; the canvas shows
one of them at every scale. *Detail windows.* Two windows behind a canvas: closing the
first moves the second; the edit, the move and the opening of each window all ask for
passes of their own. The run stops at a walk cut short (`NotCutShort`), since what
follows one is excepted for good; the windows are alike (`WindowsAlike`): the liveness
of this run is about the lock, which has neither. That the photo is closed over busy
windows ("quit") is in the theorems only. *Lock.* A reader that nests (`outer`,
`inner`), a writer on that same thread, both try locks, a second writer and two
further readers: a sleeping reader next to a sleeping writer, and a woken reader that
finds the lock taken by another. *Thumbnail workers.* Two pool threads with limits of
1 for the background, for the pause, for JPEGs and for upgrades make every limit bite
while a second thread is free. An edited JPEG has a first pass and an upgrade, which
passes both limits. Addresses are reused without end. The limits, the counts and the
callbacks are proved for every number of entries. *Cache.* Two users beside the
browser and the deleter are needed for a loader that creates while another looks up
while the browser renames. *Cells.* Cells share the queue and the workers and nothing
else, and the properties are about one of them; two workers and two sizes are what it
takes for one to overtake the other and for a resize to cut in. The run does not go on
where two workers have met, nor does it spend a third operation where a resize has
caught a cell (`NotDisturbed`): most of what is checked is over for such a cell. The
theorems have no such bounds. *Folders.* Two directories, because everything a stale
result can do is done to the next one; two files, because the loader hands over
batches of one, then of two. *Exports.* Two photos sent together and one that comes
later give a list with a head, a middle and a tail; the second crash meets what the
first restart has saved. A thread created while another finishes takes two thread
slots, too many states for TLC: there the properties are only proved. *Requests.* The
GTK thread runs one task at a time; with two requests one runs while the other waits
or times out, and each may be `auto_edit`. *Opening.* Three clicks on two photos: a
photo that is left and clicked again while its first load is under way. *Gate.* The
preload thread, a click and the load it supersedes; two RAW photos compete for the one
lease and the third photo needs none.

`MaxOps`, `MaxEdits`, `MaxPans`, `MaxClicks`, `MaxLoads`, `MaxAux`, `MaxPresses`,
`MaxCrashes`, `MaxDirs`, `MaxDisturbances` and `MaxResizes` cap what users and fate
do; with them every number, deque and generation is finite. `MaxRefs` is the count
from which a reference count is not followed further: a leak found in section 5 makes
it grow.

Deadlock is checked in `pipeline`, `before_after`, `locks`, `thumb`, `thumbnails` and
`opening`. A pipeline whose photos are all freed and whose threads rest stutters
explicitly (`Finished`); any other standstill, such as the cleanup thread waiting for a
task that waits for it, is reported. In `locks`, `thumbnails` and `opening` the
components that come to rest when their bounds are used up (detail windows, cells,
export previews, clicks) stutter too, so that there a standstill is looked for in the
lock and in the cache. `services`, `served` and `preload_gate` do not check deadlock:
their users stop when the bounds are reached. That nobody waits for ever is what their
liveness properties say.

**Fairness.** Nothing is assumed of the user: no click, edit, close or pause need ever
come. Of the program it is assumed that a thread that can go on does, which is what
the operating system gives; mutexes need no more than weak fairness, because each
waiter's guard stays true once the holder, who is fair himself, has released.

* `pipeline`: weak fairness of `GuiStep`, `CleanupStep` and `WorkerStep`.
* `locks`: weak fairness of each waiting object that is awake and of each release
  (every lock is a C++ scope that ends). New calls have none.
* `thumb`: weak fairness of each pool thread and of the GTK thread inside an
  operation; rendering and callbacks wait for nothing of the module.
* `served`: the folder has weak fairness of each worker, the scan and the rest of a
  handler that has begun, and strong fairness of what the GLib loop holds for later:
  posted callbacks, idle callbacks, timers, the end of a pause and the directory
  monitor. These are disabled while another handler runs, again and again, and GLib
  still gets to them. The exports have weak fairness of the GTK thread and of each
  worker; the server that of the GTK thread, the server thread and each request, whose
  ten seconds pass.
* `opening`: weak fairness of the decoding thread, of each end callback, of delayed
  starts, set-up timers and the watchdog, and of the user who closes an error dialog.
* `preload_gate`: weak fairness of the preload thread, the foreground thread, the rest
  of `fileSelected()`, the end callbacks, the timers (`QuietComes`, `DeferralEnds`,
  `RetryComes`, `StartDelayed`) and the first frame of a photo that has opened.

## 5. Findings

Three statements of the repository are refuted by a run.

* **Cancelling a repair loses the development of an edit** (`repair_cancel`).
  `improccoordinator.cc:4659` says of the pass a cancelled repair has interrupted:
  "The next queued parameter snapshot owns the replacement." The Cancel button of
  the spot panel queues nothing, and the pass has consumed the change flags
  (`:4629`). The edit stays undeveloped until something else asks for a pass.
* **The job of a new thumbnail may be thrown away** (`thumb_reuse`).
  `thumbimageupdater.h:88` says that `add()` "will add the request to the queue and,
  if needed, start a pool thread to process it". `takeNextJobLocked_` drops a job
  whose listener's address is in `cancelled_` (`thumbimageupdater.cc:565`), and that
  set is emptied only when no worker is active or queued (`:648`). An entry created
  at the address of a deleted one while the pool is at work loses its jobs; drawing
  does not ask again because `lazyThumbnailRequestPending` stays set
  (`filebrowserentry.cc:471`). `NoStaleCallback` shows what the set is good for.
* **The picture of the editor is painted over** (`live_overrun`).
  `filebrowserentry.cc:595` says that any worker result that arrives after the editor
  has sent its picture is discarded. `updateImage()` looks at the editor's picture
  (`:909`) before it takes its generation (`:924`); a picture that comes in between is
  the older one for the drain.

The modules show further disagreements. No listed run repeats them; each is found in
seconds by running the property under the module's own `Spec` (or `FairSpec`) with
the constants named here, the smallest ones for the rest. The listed runs state
their properties around them: the property names the exception, or `Faults`, `Races` and
the like exclude the behaviour. Where a property has an exception, "without" says that it
is refuted when the exception is taken out of it.

| module, property, constants | what happens |
|---|---|
| `PreviewPipeline`, `SwitchedIsQuiet` | `crophandler.cc:110` says that `detachListener()` prevents late frames; it does not take `cropMutex`, so a frame of the closed photo that was on its way is accepted. `Canvas` promises "at most the frame already on its way". |
| `PreviewPipeline`, `SettledIsCurrent` without `Unfinished`, two edits of different flags | a pass that is broken off has replaced `params` and cleared its flags (`improccoordinator.cc:4626`, `:4629`), and a narrower pass runs only its own stages (`:569`): the canvas keeps the stages that were broken off, also when the edit that cancelled a repair asks for the next pass. The settled refinement knows of it: "mid-pipeline state left stale by an abort" (`editorpanel.cc:5344`). |
| `ThumbImageUpdater`, `RemovalIsComplete` | `removeAllJobs()` "will not return till all running jobs have completed" (`thumbimageupdater.h:124`); the code does not wait (`.cc:985`). |
| `DetailWindows`, `NoUseAfterFree`, `Overlap` with "close" | closing a window cancels no task; its queued full update runs on a freed crop (`improccoordinator.cc:4494`). With "quit", closing the photo does the same to a task that is claimed (`dcrop.cc:2589`). |
| `DetailWindows`, `NoEmbrace`, "close" | `~Crop()` and a pass take `cropMutex` and `mProcessing` in opposite orders (`dcrop.cc:91-99`): both threads stop. |
| `DetailWindows`, `PassReachesAll` without `cutShort`, "close" | `crops` shrinks behind the index of the pass: a window that stays open is left out (`improccoordinator.cc:3158`). |
| `ThumbnailCache`, `FoundStaysOpen` | between the count reaching 0 and the erasure from the table a look-up revives the thumbnail, which is then deleted (`thumbnail.cc:1570`). |
| `ThumbnailCache`, `OpenIsNotDeleted` | `deleteEntry()` takes away a reference that is somebody else's (`cachemanager.cc:233`). |
| `EntryImages`, `AskedIsAnswered` without `met`, 2 workers, "edit" | the generation is taken outside the queue's lock; two updates of a cell displace each other and both are lost (`filebrowserentry.cc:924`). |
| `EntryImages`, `ShownIsCurrent` without `met`, 2 workers, 2 edits | generations follow delivery, not rendering: an older picture wins (`:924`). |
| `EntryImages`, `KeptIsCurrent`, and `ShownIsCurrent` without `caught`, "edit", "resize" | `resize()` keeps outdated pixels for the other size (`thumbbrowserentrybase.cc:794`); and a picture under way for the size that was left finds the cell at rest. |
| `EntryImages`, `ShownIsCurrent`, "hover", `Faults` | a menu edit that fails leaves the hovered picture in the cell (`filebrowser.cc:3778`). |
| `QueuePreviews`, `NoStrandedJob`, "ending" | a job appended while the thread ends has no thread (`bqentryupdater.cc:96`). |
| `QueuePreviews`, `EntryIsThere`, "rendering" | an entry is deleted while its preview is rendered (`batchqueueentry.cc:67`). |
| `FolderPreviews`, `FinishedMeansAll`, 2 files | the catalog looks at its own list and then at the loader: a batch handed over in between is missed, and "no photos" is drawn (`filecatalog.cc:2544`). |
| `FolderPreviews`, `FolderFinishes`, "edit" | a file that appears late clears `previewsFinishedPending_`; the retry does nothing (`filecatalog.cc:5250`). |
| `FolderPreviews`, `AtRestShowsAll`, 2 "edit" | a file that could not be opened stays "queued" for ever (`filecatalog.cc:5238`). |
| `FolderPreviews`, `NoFileLost` without `removed`, `AtRestShowsAll`, "toggle" | the recursive switch removes all jobs (`filecatalog.cc:3684`) to select the folder again, but `dirSelected()` returns because it is open already (`:1557`): the files that were queued never come. |
| `FolderPreviews`, `RemoveAllWaits` | `removeAllJobs()` does not wait (`previewloader.h:94` says it does). |
| `BatchQueue`, `DevelopedLeaves`, 3 photos, "edit", a crash | queue.csv is emptied before the lock is taken; a shorter list is followed by rows of a longer one (`batchqueue.cc:312`). |
| `BatchQueue`, `StaysRecoverable` | queue.csv is emptied and written row by row: a crash in between loses the whole list (`:312`). |
| `BatchQueue`, `Durable` without `Kept`, "add" | the clean-up deletes the parameter file of a photo queued meanwhile (`:934`). With one name for two photos (`NameOf`) they share a file (`:487`). With `Faults` "open" the old list stays. |
| `BatchQueue`, `NothingDropped` without "name", `Faults` "name" | without a name the photo is neither saved nor reported, and leaves the queue (`:824`). |
| `BatchQueue`, `EveryJobLeaves`, "add" | a photo that arrives while the thread ends is not started (`batchqueuepanel.cc:749`). |
| `BatchQueue`, `ProcessingHolds`, 2 threads, "start" | `processing` is read again after the lock: two threads develop one photo (`batchqueue.cc:943`). |
| `BatchQueue`, `DoneIsDone`, `Faults` "image" | an error reports an empty queue (`:791`). |
| `BatchQueue`, `PanelHears`, "notify" | `notifyListener()` reads `processing` before the lock; the panel may be left with a queue that runs (`:1187`). |
| `McpServer`, `StopReturns` | a stop between `running_` and listening has no effect and is waited for (`mcpserver.cc:197`). |
| `McpServer`, `StartsAgain` | after a start that could not bind, the next one assigns to a joinable thread (`:56`). |
| `McpServer`, `ReferenceReleased`, `AppliedIsSaved` | `auto_edit` does not look at what its second and third dispatch return (`mcptools.cc:1433`, `:1450`). |
| `PhotoOpening`, `LastSelectionWins` | A open, click B, click A: B ends up open (`filepanel.cc:2990`). |
| `PhotoOpening`, `CoverGoesAway` | a photo that does not decode is retried for ever, as each retry resets the attempts (`editorpanel.cc:5114`); likewise a photo whose mark an older load clears (`filepanel.cc:3834`). |
| `PhotoOpening`, `OpenIsLive`, `Broken` | the cover of a photo that fails cancels the set-up of the one that stays (`editorpanel.cc:4977`). |
| `PhotoOpening`, `RefsAreReturned`, `OpeningIsMarked` | a superseded load keeps its reference (`filepanel.cc:3769`) and takes away the mark of the newer load (`:3772`). A load also loses the mark it has just set (`:3027`) when it supersedes one of the same photo (`:3128`). |
| `PhotoOpening`, `ConnectorIsThere` | the end callback deletes the connector its thread still writes to (`progressconnector.h:280`). |
| `BackgroundGate`, `ActivityHasACause`, `Races` or `Failing` | a late message counts for the next photo (`editorpanel.cc:6264`), or the last one of a photo that stays is dropped (`:4986`): activity stays on until the next edit. |
| `PreloadGate`, `WaitIsAnswered`, 3 clicks | a load marks a recycle target whose load has given up already, and waits for nobody (`filepanel.cc:3012`). `ClickEnds` excepts it. |
| `PreloadGate`, `QueuedGoesFirst` | a RAW load in the queue is not counted by the gate, so a preload goes first (`filepanel.cc:313`). |
| `PreloadGate`, `ClickedIsDecodedOnce` | a photo that is not RAW may be decoded by the preload and by its click (`filepanel.cc:4589`). |

## 6. What is proved

The theorems about the pipeline are for any finite or infinite set of photos,
crops and flags, any `MaxOps`, with or without faults and repair cancels. The only
assumption is
`PipelineAssumption`: each crop has a coordinator, coordinators and crops are
different things, the flags of the two kinds are different, and some of the stages are
shown by every canvas.

`PreviewPipelineProofs`:

* `TypeCorrect`: `Spec => []TypeOK`.
* `Inductive`: `Spec => []IInv`. The hand-off properties are not inductive alone.
  `NoLostEdit` says that an unclaimed change has an updater or a GUI thread on its
  way; the step that endangers it is `ProcessRelease`, which clears
  `updaterRunning`. It is safe because of `NothingLeft` (at `release` no change is
  left), which holds because `paramsUpdateMutex` is not released since the second
  look (`ParamsHolders`: who holds the mutex at which program counter).
  `UpdaterIsAlive` is endangered by `Cancel`, safe because only tasks of a
  stopping coordinator are cancelled (`OnlyStoppingIsCancelled`), and by
  the worker leaving `process`, safe because both exits clear the flag.
  `NoLostWindow` rests on `takePending` giving up the claim in the same section as
  its last look. `ThreadShape` ties program counters to the objects they work on;
  `DeliveryIsSeen` and `VersionOrder` serve the refinement.
* `EditsAreNotLost`, `UpdatersAreAlive`, `WindowsAreNotLost`: its three consequences.
* `ClosingIsSafe`: after `~ImProcCoordinator()` nothing touches the coordinator or its
  crops. Its invariant `ClosingInv` says that a task that can still run is one the
  destructor waits for (`TasksAreRemembered`), that nothing is queued for a photo whose
  tasks have been swept (`NothingIsAdded`), and how far each of the two threads that close
  a photo is with it (`CleanupHasClosed`, `GuiHasOpen`).
* `CanvasWillBeCurrent` and `RestIsCurrent`: a photo at rest shows the newest edit in the
  window asked for last, unless a stage of its picture was broken off and has not been run
  since; with throwing stages, cancelled repairs and edits of any flags. The invariant
  `FreshInv` lists what a canvas that is not up to date can rely on (`FrameIsDue`): a pass
  or a frame that is asked for, a pass that has claimed the edit and has the canvas still to
  do, a frame of the right window on its way. An edit the canvas shows is in `params` or
  still flagged (`EditIsClaimed`), so a pass cannot lose it before it runs; a window that
  moves under a frame asks for another (`MovedIsAsked`); a pass renders its own crops
  (`PassHasOwn`). Every way a pass or a frame is broken off enters its stages in
  `unfinished`, and only a pass that runs them takes them out. At rest none of the reasons
  is left, by `NoLostEdit`, `UpdaterIsAlive` and `NoLostWindow`.
* `PipelineImplementsCanvas`: `Spec => Promise!Behaviour`. Each step maps to one step
  of `Canvas` or to a stutter: submitting an edit to `Edit`, `CropFinish` to `Send`,
  `CropDeliver` to `Paint` or `Drop`, and so on. The invariant supplies that a
  delivery finds its canvas visible or its photo closing, and that the edit on the
  canvas is no newer than that of the pass, which is no newer than the user's.

`LocksProofs`, about `RWMutex`, for any finite set of lock objects over any threads:
`WritersAreAlone`, `NobodyOversleeps`, `NestedReadersPass` and
`RWMutexImplementsLock`. `Exclusion` alone is not inductive: a writer is admitted
on `writerCount = 0`, so the counters have to agree with the holders
(`CountersAgree`); that a sleeping thread is notified needs that the lock is free
exactly when the count returns to 0.

`LocksProofs`, about `Detail` in `MCLocks`, for any finite set of windows, any number of
edits and moves and any `Overlap` (`DetailAssumption`): `PassesReachAll` and
`WindowsBecomeCurrent`. Windows are opened and closed, and the photo too, whatever the worker
does. What is excepted is the state after a crop has left the vector in the middle of a
walk (`cutShort`), of which both are false (section 5). The invariant `DetailInv` says that the
vector is the set of crops alive (`VectorIsExact`), which a pass needs to meet every one of
them; and that what the index has left behind is done (`PassShape`): while it walks the
vector only grows, at its end, or the walk is cut short. Rest is then reached only with all
work done: an edit, an update and a picture that are due each have somebody who will make
them (`EditIsDue`, `UpdateIsDue`, `CropIsDue`). A window opened during a pass is not one of
its `present`; `CropIsDue` holds for it because `setEnabled` asks for an update of its own.
One that is closed during a full update of it, or with a task of its own in the queue,
takes none of the others' work with it.

`ThumbImageUpdaterProofs`, for any finite sets of entries and threads and any
limits of at least 1 (`UpdaterAssumption`): `UpdaterTypeCorrect`, `UpdaterInductive`,
`UpdaterKeepsLimits`, `UpdaterQueueIsLive`, `UpdaterCallsTheLiving`,
`UpdaterCountsVisible`. That no counter becomes negative needs that it counts
threads (`CountersAgree`, `LeasesAgree`), so types and invariant are proved
together. The heart is `JobOwners`. A worker that renders for a removed entry finds
the entry in `cancelled_` when it is done: the set is emptied only with `active_` at
0, which by `CountersAgree` means that nobody is at work (`WorkKeepsTheList`). A
worker inside a callback keeps the destructor waiting, because by `LeasesAgree` its
lease is counted. `ScheduleKeepsToPool` bounds what `scheduleWorkersLocked_` asks
for; `UncountIsSafe` and `CountIsSafe` carry the count of visible jobs through the
queue operations.

`UpdaterSleepsWhenDone` and `UpdaterStrandsNoJob`: no job that may run is left with every
thread asleep. `NoStrandedJob` is about the states in which the GTK thread rests and is
not inductive; `SleepIsJustified` says at every moment why the pool may sleep. When the
last thread leaves, `scheduleWorkersLocked_` finds every slot free (`IdleSlots`) and so
starts one unless nothing may run or the hint counts no visible job (`SleepIsDecided`).
That the hint may be trusted is `UpdaterCountsVisible`.

`ThumbnailCacheProofs`, for any finite set of users and any files and objects
(`CacheAssumption`): `CacheIsConsistent`, `HeldStaysAlive`, `FilesHaveOneThumbnail`. The
count of an object that nothing has spoiled is the number of its users; an object that
is about to be published has one user and is not in the table; who closes one is its
last user and takes it out of the table before it deletes it; what is held is in the
table under its own name. No one of these holds without the others: together they are
`CacheInv`. The exceptions are those of the properties, the marked objects.

`PreloadGateProofs`, for any folder, cache size and number of clicks, edits and auxiliary
loads (`SetsAssumption`, `BoundsAssumption`, `NoneAssumption`): `RawDecodesAreSerialized`.
The lease is followed through the three threads that may have it. The foreground thread
knows by the photo of its load whether it has it, so the invariant also says that this
photo does not change under it: a click takes a generation that no load has
(`LoadsAreOld`).

`OpeningProofs`, about `Gate` in `MCOpening`: `GateIsNotStranded`. `NoStrandedPause` needs
that a photo whose set-up is under way is open and that only the foreground pauses for
the foreground.

`OpeningProofs`, about `PhotoOpening`, for any set of photos, any finite set of connectors
and any number of clicks (`PhotosAssumption`, `ChoicesAssumption`, `BoundsAssumption`),
with photos that do not decode, covers that come late and dialogs left open:

* `OnlyTheAcceptedOpens` and `CallbacksFindTheirOwn`. The callback of a load takes the
  first entry with its photo (`EntryOf`), and two entries may
  have the same photo. That it finds its own is because loads pass in the order of
  `pendingLoads`: first those that have ended, then the one in hand, the queue, and the one
  that waits for its timer (`LoadsInLine`). Of them all but the newest are superseded, and
  the newest is for the photo accepted last (`NewestIsAccepted`).
* `PhotosAreHeld`. The references of a photo are at least its holders: each load and each
  dialog with that photo and the editor (`HeldWhileNeeded`); the lemmas on `Enough`
  and `Needs` count what `Take` and `Drop` do while one holder comes or goes. A dialog keeps
  a slot that is no longer in the list (`DialogsHold`), and the watchdog takes its reference
  for a photo that was clicked (`SomeWanted`). Counts above `MaxRefs` are not followed, as
  in the model.
* `NothingIsLeftMarked`: `MarkIsCleared` and `PauseHasAReason`. They are in no run:
  the theorem is all that is said about them.

Together these are `OpeningInv`, which was checked with TLC before it was proved.

`ServicesProofs`, about the folder (`LoaderAssumption`, `FolderAssumption`) and about `Mcp`
in `MCServices`:

* `QueuedFilesAreNotLost`. `NoFileLost` counts what a worker has in its hands, also what
  it is going to throw away, and is not inductive. `Covered` counts the jobs and batches
  of this generation, and those that no check can stop any more. It needs that jobs are
  of this generation (`JobsCurrent`) and that a worker that leaves has delivered
  (`EmptyHands`).
* `BrowserShowsTheFolder`: the section that adds an entry to the browser looks at its
  folder, and a folder that is selected empties the browser before it adds to it.
* `TimedOutIsHarmless`. A request that has been answered does nothing any more, because a
  task that can still run is the one its request waits for (`TasksAreAwaited`), no slot is
  used for two tasks (`SlotsAreFresh`), and what a request has done shows in how far it
  is (`EffectsShow`). For any set of requests.

`ServicesProofs`, about the export queue (`QueueAssumption`), for any photos, names,
threads and batches and any number of edits. `Batch` and `Crash` differ in three constants;
every step of either is a step of the instance `Exports`, whose constants are the unions of
theirs (`ExportStep`), so the invariants are shown once. The theorems hold until the
program dies (`crashes = 0`): after a crash the list is what the torn file gives, and
`DevelopedLeaves` is false for a longer list (section 5).

* `DevelopedOnce` and `NoneIsDropped`. The thread develops `processing` and removes
  the head of the list, while the user moves and cancels around it. `ListInv` says
  that `processing` is the head and the only flagged entry, but for the moment in
  which `error()` has given it back (`HeadInHand`); that one thread at a time has
  something to do (`OneExports`); that a job is listed once, and after it was
  developed only until its thread erases it (`ListedOnce`). The theorems have no
  hypothesis about the user. They hold until a thread has been created while another
  was finishing its photo ("start" in `mishaps`), after which two threads develop one
  photo (section 5); pressing the button otherwise, at any time, is in them.
  `NoneIsDropped` holds until a name is missing for an image.
* `ListIsDurable`. The thread and the GTK thread may write queue.csv at the same time,
  as `saveBatchQueue()` takes `entryRW` to read, each row by row through a descriptor
  of its own. `Written` says that, unless somebody is about to open the file
  (`Dirty`), each line of it is the right one or a hole, and each that is missing or a
  hole is still to be written by a thread that has the lock and whose file has not
  been deleted (`gone`). The list does not change while somebody writes, so at rest
  nothing is missing. `Owned` says that a parameter file is deleted only for a photo
  that has left for good, which covers the list of removals that is handed to the GTK
  thread. Nothing is assumed: photos are sent, moved and cancelled and the queue is
  started at any time, and parameters, images, names and the list itself may fail.
  What the theorem excepts is what has happened (`Kept`): queue.csv could not be
  opened, a photo was sent in the section in which the thread empties the directory, a
  thread was created while another was finishing, or two photos with one name were
  sent. After each of these the statement is false (section 5).

The lemmas on `AtPlaces` and `Without` (`Ranks`, `Joined`, `LeftOver`, ...) say what remains
of a sequence and in which order; they hold for every sequence and need no induction, as the
k-th remaining place is the one with k - 1 remaining places before it.

`ThumbnailsProofs`, about `Batch` in `MCThumbnails`: `UpdaterHasOneThread`, for any photos
and thread slots: `process()` starts a thread only on `stopped`, which the last thread sets
as it ends (`Alone`).

`ThumbnailsProofs`, about `Grid`: `CellsAreAnswered` and `CellsShowTheLastEdit`, for any set
of cells, workers and sizes and any number of operations, hovering and resizing included
(`CellsAssumption`). An entry is excepted from the moment two workers have met at it, and
from the second theorem also one that a resize has caught; for these both are false
(section 5). A picture on its way to a cell passes through a job, a worker and the queue,
and only the update of the last generation is painted. `Apart` says what keeps entries
sound one by one: until workers meet at it an entry has one of them (`Unshared`), and unless
a resize has caught it what is under way has its size (`Fitting`). On that rest, per entry,
`AskedFor`, which says where the picture is, and that its generation is the last one from the
moment it is stamped; and `UpToDate`: unless a rendering is still to come (`WillRender`) the
last of the pictures on their way, or else the one shown, is of the last edit
(`LastIsGood`). An entry under the pointer is excepted; it leaves that state only by a step
that asks for a rendering.

`ThumbnailsProofs`, about `Crowd`: `HelpersAreCounted`, for any set of cells and sizes, any
finite set of workers, and renderings that may fail. Each step is shown to move a
reference, or to take or give back exactly one (`CountedStep`); `CountPut` and
`CountRemoveAt` say what the queue operations do to the count. That an update that
displaces another gives the other's reference back needs that its own helper is alive,
and so that no callback is on its way to a deleted entry (`CallsTheOpen`): `removeJobs()`
waits for those.

**Only model-checked.** Everything under fairness, which the prover does not handle:
`ProgressEnds`, `ClosedIsFreed`, `ImplementsFairCanvas`, `Served`, `QueueDrains`,
`FolderFinishes`, `EveryJobLeaves`, `EveryRequestAnswered`, `AcceptedIsOpened`,
`ClickEnds`. `Durable` and `DevelopedLeaves` after a crash, which the runs check for two
photos. The action properties other than the refinements and `OldLoadNeverOpens`.
`OneTaskPerTarget`,
`ProgressBalanced`, `StopIsFinal` and the other definitions at the end of a module that no
run lists say more about its state; they are what the proofs and the remarks of section 5
refer to.

## 7. Known limits

* The hazards in `PROJECT.json` without a property are the two of detail windows that
  are closed while the worker is busy: the code does not guard against them.
* The instances of a composed run do not meet: the loads of `PhotoOpening` and the gate
  of `PreloadGate`, say, are not in one behaviour. Each of them abstracts the other by a
  choice (`Cached`, the answers of a rendering).
* Not modelled: `DetailWindows` leaves out the reallocation of `crops` while it is read
  and reopening the windows on the next photo. `EntryImages` leaves out that a refresh
  of a usable picture that fails is not tried again. `QueuePreviews` leaves out
  `terminate()`, which nothing calls. `PhotoOpening` and `PreloadGate` are the single
  editor, not the tabbed one; in `PhotoOpening` closing gives references back whether or
  not the file still exists. `PreloadGate` does not count bytes and leaves out the
  cache of recently open RAW photos, destruction at exit, thread priorities, the
  deferral that concerns .raf files only and the time limit of
  `waitForDifferentLoadToSettle`. `McpServer` leaves out what the other tools do, the
  protocol and the volume watcher. `BatchQueue` leaves out formats and the naming of
  outputs but for running out of names.
* Not modelled at all: dust scans, the settled refinement's timers, saving from the
  editor, the idle callback of the crop display, the AI mask cache, the partner stores;
  and the numerical code, which is most of the repository's lines and has no state
  machine to check.
* The proofs cover the model; that an action is what the code does is a matter
  of reading. `PROJECT.json` names for each definition the lines it stands for.
