-------------------------- MODULE ThumbImageUpdater --------------------------
(***************************************************************************)
(* The thumbnail workers of the file browser (rtgui/thumbimageupdater).    *)
(*                                                                         *)
(* The GTK thread queues jobs for the entries it shows, tells which of     *)
(* them are visible, pauses the pool while the editor needs the machine,   *)
(* and deletes entries.  Pool threads take the jobs, render, and call the  *)
(* entry back.  A FileBrowserEntry is at once the source of a job and its  *)
(* listener, and the updater knows it by its address: a new entry may be   *)
(* allocated where a deleted one was.                                      *)
(*                                                                         *)
(* One action is one section under mutex_, or what happens between two.    *)
(* Abstracted: the order of the job list within a class of the pick, and   *)
(* with it the flag cache_pixbuf, which only orders jobs; force_upgrade is *)
(* part of upgrade.                                                        *)
(***************************************************************************)
EXTENDS Integers, FiniteSets

CONSTANTS
    Entries,            \* addresses of FileBrowserEntry objects
    JpegEntries,        \* those that would hold a JPEG
    UpgradeEntries,     \* those that may want a processed preview
    Workers,            \* the threads of the pool
    BackgroundWorkers,  \* workers that may run when nothing visible is queued
    PausedWorkers,      \* kPausedVisibleWorkers
    MaxJpegJobs,        \* kMaxConcurrentBackgroundJpegJobs
    MaxUpgradeJobs      \* maxUpgradeJobs_

None == "none"

MaxThreadCount == Cardinality(Workers)

ASSUME UpdaterAssumption ==
    /\ IsFiniteSet(Entries)
    /\ JpegEntries \subseteq Entries
    /\ UpgradeEntries \subseteq Entries
    /\ None \notin Entries
    /\ IsFiniteSet(Workers)
    /\ BackgroundWorkers \in 1 .. MaxThreadCount
    /\ PausedWorkers \in 1 .. MaxThreadCount
    /\ MaxJpegJobs \in Nat \ {0}
    /\ MaxUpgradeJobs \in Nat \ {0}

Jobs == {j \in [entry : Entries, upgrade : BOOLEAN] :
            j.upgrade => j.entry \in UpgradeEntries}

NoJob == [entry |-> None, upgrade |-> FALSE]

VARIABLES
    jobs,               \* jobs_ with its index: at most one job per key
    cancelled,          \* cancelled_: listeners that have been removed
    callbacksInFlight,  \* callbacksInFlight_
    active,             \* active_
    queuedWorkers,      \* queuedWorkers_: pool tasks that have not started
    foregroundJobCount, \* foregroundJobCount_
    priorityScanNeeded, \* priorityScanNeeded_
    activeJpegJobs, activeUpgradeJobs,
    paused,             \* pauseDepth_ > 0 (the file panel pauses only once)
    worker,             \* pool threads: [pc, job, orphan]; orphan: the entry
                        \* was removed since the job was taken
    updatepriority,     \* the flag of each entry, written by the GTK thread
    life,               \* of each entry: "none", "shown", "doomed", "removing"
    gui                 \* the GTK thread: [pc, on, batch, changed]

countVars == <<active, activeJpegJobs, activeUpgradeJobs>>
browserVars == <<paused, updatepriority, life, gui>>
vars == <<jobs, cancelled, callbacksInFlight, queuedWorkers,
          foregroundJobCount, priorityScanNeeded, countVars, worker,
          browserVars>>

WorkerPCs == {"off", "take", "again", "process", "callback", "discard",
              "lease", "leave", "left"}

WorkerStates == [pc : WorkerPCs, job : Jobs \cup {NoJob}, orphan : BOOLEAN]

GuiStates == [pc : {"idle", "queue", "priorities", "resume", "close",
                    "remove"},
              on : Entries \cup {None}, batch : SUBSET Jobs,
              changed : BOOLEAN]

TypeOK ==
    /\ jobs \subseteq Jobs
    /\ cancelled \subseteq Entries
    /\ callbacksInFlight \in [Entries -> Nat]
    /\ active \in Nat
    /\ queuedWorkers \in Nat
    /\ foregroundJobCount \in Nat
    /\ priorityScanNeeded \in BOOLEAN
    /\ activeJpegJobs \in Nat
    /\ activeUpgradeJobs \in Nat
    /\ paused \in BOOLEAN
    /\ worker \in [Workers -> WorkerStates]
    /\ updatepriority \in [Entries -> BOOLEAN]
    /\ life \in [Entries -> {"none", "shown", "doomed", "removing"}]
    /\ gui \in GuiStates

Off == [pc |-> "off", job |-> NoJob, orphan |-> FALSE]

IdleGui == [pc |-> "idle", on |-> None, batch |-> {}, changed |-> FALSE]

Init ==
    /\ jobs = {}
    /\ cancelled = {}
    /\ callbacksInFlight = [e \in Entries |-> 0]
    /\ active = 0
    /\ queuedWorkers = 0
    /\ foregroundJobCount = 0
    /\ priorityScanNeeded = TRUE
    /\ activeJpegJobs = 0
    /\ activeUpgradeJobs = 0
    /\ paused = FALSE
    /\ worker = [w \in Workers |-> Off]
    /\ updatepriority = [e \in Entries |-> FALSE]
    /\ life = [e \in Entries |-> "none"]
    /\ gui = IdleGui

-----------------------------------------------------------------------------
(* The queue.                                                              *)

\* mutex_ is free: only a worker that discards jobs keeps it over a step.
Unlocked == \A w \in Workers : worker[w].pc # "again"

Smaller(a, b) == IF a < b THEN a ELSE b

Larger(a, b) == IF a > b THEN a ELSE b

Foreground(j) == updatepriority[j.entry]

Jpeg(j) == j.entry \in JpegEntries

Visible(js) == {j \in js : Foreground(j)}

\* The unpaused limit leaves threads for what becomes visible later.
WorkerLimit(visible) ==
    IF paused THEN PausedWorkers
    ELSE IF visible > 0 THEN MaxThreadCount
    ELSE BackgroundWorkers

\* Jobs of js that free slots of their kind would let run at once.
RunnableJobs(js) ==
    LET upgrades == {j \in js : j.upgrade}
        jpegs == {j \in js \ upgrades : Jpeg(j)}
    IN  Cardinality(js \ (upgrades \cup jpegs))
            + Smaller(Cardinality(upgrades),
                      Larger(0, MaxUpgradeJobs - activeUpgradeJobs))
            + Smaller(Cardinality(jpegs),
                      Larger(0, MaxJpegJobs - activeJpegJobs))

\* Mutant: workers that are queued do not count against the limit.
ScheduleWorkers_Overfull(js, visible) ==
    IF js = {} \/ (paused /\ visible = 0) THEN 0
    ELSE Larger(0, Smaller(WorkerLimit(visible) - active,
                           RunnableJobs(IF paused THEN Visible(js) ELSE js)
                               - queuedWorkers))

\* scheduleWorkersLocked_: how many more workers the jobs js can use.
ScheduleWorkers(js, visible) ==
    IF js = {} \/ (paused /\ visible = 0) THEN 0
    ELSE Larger(0, Smaller(WorkerLimit(visible) - active - queuedWorkers,
                           RunnableJobs(IF paused THEN Visible(js) ELSE js)
                               - queuedWorkers))

\* eraseJobLocked_: the flags may have changed since the jobs were counted.
Uncount(js) == Larger(0, foregroundJobCount - Cardinality(Visible(js)))

\* notifyInactiveLocked_: with no worker at all the list of removed listeners
\* has served its purpose.
NotifyInactive(running, queued, listeners) ==
    cancelled' = IF running = 0 /\ queued = 0 THEN {} ELSE listeners

\* Mutant: a listener that asks again is taken off the list of the removed.
StillCancelled_Forgiven(js) == cancelled \ {j.entry : j \in js}

\* A listener stays on that list, whatever is queued for its address.
StillCancelled(js) == cancelled

\* Mutant: visible jobs that come in are not counted.
CountVisible_None(js) == 0

CountVisible(js) == Cardinality(Visible(js))

\* add() and addBatch(): a job that is queued already is not queued again, and
\* workers are asked for only when something new came in.
AddJobs(js) ==
    LET added == js \ jobs
        visible == foregroundJobCount + CountVisible(added)
    IN  /\ Unlocked
        /\ jobs' = jobs \cup js
        /\ foregroundJobCount' = visible
        /\ priorityScanNeeded' = (priorityScanNeeded \/ Visible(js) # {})
        /\ queuedWorkers' =
              IF added = {} THEN queuedWorkers
              ELSE queuedWorkers + ScheduleWorkers(jobs \cup js, visible)
        /\ cancelled' = StillCancelled(js)
        /\ UNCHANGED <<callbacksInFlight, countVars, worker>>

-----------------------------------------------------------------------------
(* The GTK thread.                                                         *)

Shown == {e \in Entries : life[e] = "shown"}

queueVars == <<jobs, cancelled, callbacksInFlight, queuedWorkers,
               foregroundJobCount, priorityScanNeeded, countVars, worker>>

CreateEntry(e) ==
    /\ gui.pc = "idle"
    /\ life[e] = "none"
    /\ life' = [life EXCEPT ![e] = "shown"]
    /\ updatepriority' = [updatepriority EXCEPT ![e] = FALSE]
    /\ UNCHANGED <<queueVars, paused, gui>>

\* Drawing finds out which entries are visible and collects requests of these,
\* one each at most; then it queues them, and tells if any flag has changed.
Draw(visible, requests) ==
    /\ gui.pc = "idle"
    /\ updatepriority' = [e \in Entries |-> e \in visible]
    /\ LET changed == updatepriority' # updatepriority IN
       gui' = IF requests # {}
              THEN [gui EXCEPT !.pc = "queue", !.batch = requests,
                               !.changed = changed]
              ELSE [gui EXCEPT !.pc = IF changed THEN "priorities" ELSE "idle",
                               !.changed = changed]
    /\ UNCHANGED <<queueVars, paused, life>>

QueueVisible ==
    /\ gui.pc = "queue"
    /\ AddJobs(gui.batch)
    /\ gui' = [gui EXCEPT !.pc = IF gui.changed THEN "priorities" ELSE "idle",
                          !.batch = {}]
    /\ UNCHANGED <<paused, updatepriority, life>>

\* prioritiesChanged()
PrioritiesChanged ==
    /\ gui.pc = "priorities"
    /\ Unlocked
    /\ priorityScanNeeded' = TRUE
    /\ foregroundJobCount' = Cardinality(Visible(jobs))
    /\ queuedWorkers' =
          queuedWorkers + ScheduleWorkers(jobs, Cardinality(Visible(jobs)))
    /\ gui' = IdleGui
    /\ UNCHANGED <<jobs, cancelled, callbacksInFlight, countVars, worker,
                   paused, updatepriority, life>>

\* A refresh of any entry: new parameters, a retry, a batch in the background.
Refresh(j) ==
    /\ gui.pc = "idle"
    /\ life[j.entry] \in {"shown", "doomed"}
    /\ AddJobs({j})
    /\ UNCHANGED browserVars

Pause ==
    /\ gui.pc = "idle"
    /\ ~ paused
    /\ paused' = TRUE
    /\ UNCHANGED <<queueVars, updatepriority, life, gui>>

\* resume(): the depth without the lock, then the jobs that have waited.
Resume ==
    /\ gui.pc = "idle"
    /\ paused
    /\ paused' = FALSE
    /\ gui' = [gui EXCEPT !.pc = "resume"]
    /\ UNCHANGED <<queueVars, updatepriority, life>>

\* Mutant: nobody is woken.
ResumeWorkers_None == 0

ResumeWorkers == ScheduleWorkers(jobs, foregroundJobCount)

ResumeSchedule ==
    /\ gui.pc = "resume"
    /\ Unlocked
    /\ queuedWorkers' = queuedWorkers + ResumeWorkers
    /\ gui' = IdleGui
    /\ UNCHANGED <<jobs, cancelled, callbacksInFlight, foregroundJobCount,
                   priorityScanNeeded, countVars, worker, paused,
                   updatepriority, life>>

\* removeAllJobs(): the folder is left, or is to be read again by an idle call.
RemoveAllJobs ==
    /\ gui.pc = "idle"
    /\ Unlocked
    /\ jobs' = {}
    /\ foregroundJobCount' = 0
    /\ priorityScanNeeded' = FALSE
    /\ gui' \in {gui, [gui EXCEPT !.pc = "close"]}
    /\ UNCHANGED <<cancelled, callbacksInFlight, queuedWorkers, countVars,
                   worker, paused, updatepriority, life>>

\* FileBrowser::close() of a folder that is left: no entry is visible, all are to be deleted.
CloseBrowser ==
    /\ gui.pc = "close"
    /\ updatepriority' = [e \in Entries |-> FALSE]
    /\ life' = [e \in Entries |-> IF e \in Shown THEN "doomed" ELSE life[e]]
    /\ gui' = IdleGui
    /\ UNCHANGED <<queueVars, paused>>

JobsOf(e) == {j \in jobs : j.entry = e}

\* ~FileBrowserEntry(): removeJobs() ...
RemoveJobs(e) ==
    /\ gui.pc = "idle"
    /\ life[e] \in {"shown", "doomed"}
    /\ Unlocked
    /\ jobs' = jobs \ JobsOf(e)
    /\ foregroundJobCount' = Uncount(JobsOf(e))
    /\ NotifyInactive(active, queuedWorkers, cancelled \cup {e})
    /\ worker' = [w \in Workers |->
                     [worker[w] EXCEPT !.orphan = @ \/ worker[w].job.entry = e]]
    /\ life' = [life EXCEPT ![e] = "removing"]
    /\ gui' = [gui EXCEPT !.pc = "remove", !.on = e]
    /\ UNCHANGED <<callbacksInFlight, queuedWorkers, priorityScanNeeded,
                   countVars, paused, updatepriority>>

\* ... waits for callbacks in flight, and the memory is free.
RemoveDone(e) ==
    /\ gui.pc = "remove" /\ gui.on = e
    /\ Unlocked
    /\ callbacksInFlight[e] = 0
    /\ life' = [life EXCEPT ![e] = "none"]
    /\ gui' = IdleGui
    /\ UNCHANGED <<queueVars, paused, updatepriority>>

-----------------------------------------------------------------------------
(* A worker: processQueuedJobs_().                                         *)

At(w, pc) == worker[w].pc = pc

Goto(w, pc) == worker' = [worker EXCEPT ![w].pc = pc]

NothingToDo == jobs = {} \/ (paused /\ foregroundJobCount = 0)

StartWorker(w) ==
    /\ At(w, "off")
    /\ queuedWorkers > 0
    /\ Unlocked
    /\ queuedWorkers' = queuedWorkers - 1
    /\ IF NothingToDo
       THEN /\ NotifyInactive(active, queuedWorkers', cancelled)
            /\ UNCHANGED <<active, worker>>
       ELSE /\ active' = active + 1
            /\ Goto(w, "take")
            /\ UNCHANGED cancelled
    /\ UNCHANGED <<jobs, callbacksInFlight, foregroundJobCount,
                   priorityScanNeeded, activeJpegJobs, activeUpgradeJobs,
                   browserVars>>

\* The pool is to shrink: leave at once.
Shrink(w) ==
    /\ At(w, "take")
    /\ Unlocked
    /\ ~ (paused /\ foregroundJobCount = 0)
    /\ active > WorkerLimit(foregroundJobCount)
    /\ active' = active - 1
    /\ Goto(w, "left")
    /\ UNCHANGED <<jobs, cancelled, callbacksInFlight, queuedWorkers,
                   foregroundJobCount, priorityScanNeeded, activeJpegJobs,
                   activeUpgradeJobs, browserVars>>

CanRun(j) ==
    /\ Jpeg(j) => activeJpegJobs < MaxJpegJobs
    /\ j.upgrade => activeUpgradeJobs < MaxUpgradeJobs

\* The class the pick prefers: first passes before upgrades, and in either what
\* is visible, as long as a scan for it seems worth while.
Preferred ==
    LET visible == IF priorityScanNeeded THEN Visible(jobs) ELSE {}
        firstPass == {j \in jobs : ~ j.upgrade}
    IN  IF visible \cap firstPass # {} THEN visible \cap firstPass
        ELSE IF paused THEN visible
        ELSE IF firstPass # {} THEN firstPass
        ELSE IF visible # {} THEN visible
        ELSE jobs

\* pickBestJobLocked_ and pickBestVisibleJobLocked_: one of the class if it can
\* run, and otherwise anything that can.
Candidates ==
    LET runnable == {j \in (IF paused THEN Visible(jobs) ELSE jobs) : CanRun(j)}
    IN  IF Preferred # {} /\ Preferred \subseteq runnable THEN Preferred
        ELSE runnable

\* The scan found nothing visible: no need to scan again.
ScanAfter(found) ==
    (paused /\ found) \/ (priorityScanNeeded /\ Visible(jobs) # {})

\* takeNextJobLocked_ keeps the lock until it has a job or finds none.
MayTake(w) ==
    \/ /\ At(w, "take")
       /\ Unlocked
       /\ ~ (paused /\ foregroundJobCount = 0)
       /\ active <= WorkerLimit(foregroundJobCount)
    \/ At(w, "again")

TakeJob(w, j) ==
    /\ MayTake(w)
    /\ j \in Candidates
    /\ jobs' = jobs \ {j}
    /\ foregroundJobCount' = Uncount({j})
    /\ priorityScanNeeded' = ScanAfter(TRUE)
    /\ IF j.entry \in cancelled
       THEN /\ Goto(w, "again")
            /\ UNCHANGED <<activeJpegJobs, activeUpgradeJobs>>
       ELSE /\ worker' = [worker EXCEPT ![w] = [pc |-> "process", job |-> j,
                                                orphan |-> FALSE]]
            /\ activeJpegJobs' = activeJpegJobs + (IF Jpeg(j) THEN 1 ELSE 0)
            /\ activeUpgradeJobs' =
                  activeUpgradeJobs + (IF j.upgrade THEN 1 ELSE 0)
    /\ UNCHANGED <<cancelled, callbacksInFlight, queuedWorkers, active,
                   browserVars>>

\* No job can run: on the way the count of visible jobs may be put right.
TakeNothing(w) ==
    /\ MayTake(w)
    /\ Candidates = {}
    /\ IF jobs = {}
       THEN UNCHANGED <<foregroundJobCount, priorityScanNeeded>>
       ELSE /\ foregroundJobCount' = IF paused /\ Visible(jobs) = {} THEN 0
                                     ELSE foregroundJobCount
            /\ priorityScanNeeded' = ScanAfter(FALSE)
    /\ Goto(w, "leave")
    /\ UNCHANGED <<jobs, cancelled, callbacksInFlight, queuedWorkers,
                   countVars, browserVars>>

\* The pause lets nothing through any more.
GiveWay(w) ==
    /\ At(w, "take")
    /\ Unlocked
    /\ paused /\ foregroundJobCount = 0
    /\ Goto(w, "leave")
    /\ UNCHANGED <<jobs, cancelled, callbacksInFlight, queuedWorkers,
                   foregroundJobCount, priorityScanNeeded, countVars,
                   browserVars>>

\* The image is rendered; a listener that was removed is not called.
BeginCallback(w) ==
    /\ At(w, "process")
    /\ Unlocked
    /\ LET e == worker[w].job.entry IN
       IF e \in cancelled
       THEN /\ Goto(w, "discard")
            /\ UNCHANGED callbacksInFlight
       ELSE /\ Goto(w, "callback")
            /\ callbacksInFlight' = [callbacksInFlight EXCEPT ![e] = @ + 1]
    /\ UNCHANGED <<jobs, cancelled, queuedWorkers, foregroundJobCount,
                   priorityScanNeeded, countVars, browserVars>>

\* The call has returned, or was left out; the slots of the job are given back.
FinishJob(w) ==
    /\ At(w, "callback") \/ At(w, "discard")
    /\ Unlocked
    /\ LET j == worker[w].job IN
       /\ activeJpegJobs' = activeJpegJobs - (IF Jpeg(j) THEN 1 ELSE 0)
       /\ activeUpgradeJobs' =
             activeUpgradeJobs - (IF j.upgrade THEN 1 ELSE 0)
    /\ worker' = [worker EXCEPT ![w] =
                     IF At(w, "callback") THEN [@ EXCEPT !.pc = "lease"]
                     ELSE [Off EXCEPT !.pc = "take"]]
    /\ UNCHANGED <<jobs, cancelled, callbacksInFlight, queuedWorkers,
                   foregroundJobCount, priorityScanNeeded, active,
                   browserVars>>

Returned(e) == [callbacksInFlight EXCEPT ![e] = @ - 1]

\* finishCallback_: the lease ends with the scope of the loop.
EndLease(w) ==
    /\ At(w, "lease")
    /\ Unlocked
    /\ callbacksInFlight' = Returned(worker[w].job.entry)
    /\ worker' = [worker EXCEPT ![w] = [Off EXCEPT !.pc = "take"]]
    /\ UNCHANGED <<jobs, cancelled, queuedWorkers, foregroundJobCount,
                   priorityScanNeeded, countVars, browserVars>>

\* The atomic counter goes down without the lock ...
Leave(w) ==
    /\ At(w, "leave")
    /\ active' = active - 1
    /\ Goto(w, "left")
    /\ UNCHANGED <<jobs, cancelled, callbacksInFlight, queuedWorkers,
                   foregroundJobCount, priorityScanNeeded, activeJpegJobs,
                   activeUpgradeJobs, browserVars>>

\* Mutant: a worker that leaves does not look back at the queue.
Successors_None == 0

Successors == ScheduleWorkers(jobs, foregroundJobCount)

\* ... so what came in meanwhile gets its worker here.
LeaveSchedule(w) ==
    /\ At(w, "left")
    /\ Unlocked
    /\ queuedWorkers' = queuedWorkers + Successors
    /\ NotifyInactive(active, queuedWorkers', cancelled)
    /\ Goto(w, "off")
    /\ UNCHANGED <<jobs, callbacksInFlight, foregroundJobCount,
                   priorityScanNeeded, countVars, browserVars>>

-----------------------------------------------------------------------------

Requests(visible) ==
    {r \in SUBSET {j \in Jobs : j.entry \in visible} :
        \A i, j \in r : i.entry = j.entry => i = j}

UserStep ==
    \/ \E e \in Entries : CreateEntry(e) \/ RemoveJobs(e)
    \/ \E visible \in SUBSET Shown :
          \E requests \in Requests(visible) : Draw(visible, requests)
    \/ \E j \in Jobs : Refresh(j)
    \/ Pause \/ Resume \/ RemoveAllJobs

GuiStep ==
    \/ QueueVisible \/ PrioritiesChanged \/ ResumeSchedule \/ CloseBrowser
    \/ \E e \in Entries : RemoveDone(e)

WorkerStep(w) ==
    \/ StartWorker(w) \/ Shrink(w) \/ GiveWay(w) \/ TakeNothing(w)
    \/ \E j \in Jobs : TakeJob(w, j)
    \/ BeginCallback(w) \/ FinishJob(w) \/ EndLease(w)
    \/ Leave(w) \/ LeaveSchedule(w)

Next == UserStep \/ GuiStep \/ \E w \in Workers : WorkerStep(w)

Spec == Init /\ [][Next]_vars

\* Every thread runs: the GTK thread finishes what it has begun, rendering and
\* callbacks return, and the pool starts its tasks.
Fairness == WF_vars(GuiStep) /\ \A w \in Workers : WF_vars(WorkerStep(w))

FairSpec == Spec /\ Fairness

-----------------------------------------------------------------------------

\* A worker reads the entry of a job, and its flag, under the lock: what is
\* queued belongs to an entry that is not being deleted.
NoDanglingJob == \A j \in jobs : life[j.entry] \in {"shown", "doomed"}

\* The image a worker delivers goes to the entry that asked for it: not to a
\* deleted one, nor to a new one that was allocated in its place.
NoStaleCallback ==
    \A w \in Workers :
        At(w, "callback") =>
            /\ life[worker[w].job.entry] # "none"
            /\ worker[w].orphan => life[worker[w].job.entry] = "removing"

Rendering == {w \in Workers : worker[w].pc \in {"process", "callback",
                                                "discard"}}

Busy == {w \in Workers : worker[w].pc \notin {"off", "left"}}

\* The counters say what the threads do, and what they do keeps to the limits.
CountersAgree ==
    /\ active = Cardinality(Busy)
    /\ active + queuedWorkers <= MaxThreadCount
    /\ activeJpegJobs = Cardinality({w \in Rendering : Jpeg(worker[w].job)})
    /\ activeJpegJobs <= MaxJpegJobs
    /\ activeUpgradeJobs =
          Cardinality({w \in Rendering : worker[w].job.upgrade})
    /\ activeUpgradeJobs <= MaxUpgradeJobs

\* Jobs that are not held up by the pause.
Wanted == IF paused THEN Visible(jobs) ELSE jobs

\* No job is stranded: what may run has a worker that will look at the queue.
NoStrandedJob ==
    gui.pc = "idle" /\ Wanted # {} =>
        queuedWorkers > 0 \/ \E w \in Workers : ~ At(w, "off")

\* The hint that lets visible jobs through the pause may be too high, but is
\* never too low once drawing is done.
VisibleIsCounted ==
    ~ gui.changed => foregroundJobCount >= Cardinality(Visible(jobs))

Leased(e) == {w \in Workers : /\ worker[w].pc \in {"callback", "lease"}
                              /\ worker[w].job.entry = e}

\* The GTK thread, which waits for the callbacks in flight to an entry that it
\* deletes, waits for threads that are at it: for all of them and nobody else.
LeasesAgree ==
    \A e \in Entries : callbacksInFlight[e] = Cardinality(Leased(e))

\* Who has a job in hand, and what the GTK thread is at.
ThreadShape ==
    /\ \A w \in Workers :
          worker[w].pc \in {"process", "callback", "discard", "lease"} <=>
              worker[w].job # NoJob
    /\ \A j \in gui.batch : gui.pc = "queue" /\ life[j.entry] = "shown"
    /\ gui.changed => gui.pc \in {"queue", "priorities"}
    /\ \A e \in Entries :
          life[e] = "removing" <=> gui.pc = "remove" /\ gui.on = e

\* A worker is tied to an entry that lives, or knows that it was removed.
JobOwners ==
    \A w \in Workers :
        LET e == worker[w].job.entry IN
        /\ At(w, "process") /\ worker[w].orphan => e \in cancelled
        /\ worker[w].pc \in {"process", "callback", "lease"}
              /\ ~ worker[w].orphan
           => life[e] \in {"shown", "doomed"}
        /\ worker[w].pc \in {"callback", "lease"} /\ worker[w].orphan
           => life[e] = "removing"

\* The inductive invariant.
IInv ==
    /\ ThreadShape
    /\ NoDanglingJob
    /\ CountersAgree
    /\ LeasesAgree
    /\ JobOwners
    /\ VisibleIsCounted

\* What add() is documented to do: it "will add the request to the queue and, if
\* needed, start a pool thread to process it".  So a job leaves the queue to be
\* processed, unless its entry is deleted or all jobs are taken back.
AddedIsProcessed ==
    [][~ RemoveAllJobs =>
          \A j \in jobs \ jobs' :
              life'[j.entry] = "shown" =>
                  \E w \in Workers :
                      worker'[w].job = j /\ worker'[w].pc = "process"]_vars

\* What removeAllJobs() is documented to do: it "will not return till all
\* running jobs have completed".
RemovalIsComplete == [][RemoveAllJobs => Rendering = {}]_vars

\* The queue drains, unless the user keeps doing things: neither the pause, nor
\* workers that leave, nor full slots leave a job behind.
QueueDrains == []<>(Wanted = {}) \/ []<><<UserStep>>_vars

=============================================================================
