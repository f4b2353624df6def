----------------------------- MODULE EntryImages -----------------------------
(***************************************************************************)
(* How rendered thumbnails reach the cells of the file browser: the state  *)
(* of a FileBrowserEntry, the queue queuedImageUpdates between the thumb   *)
(* workers and the GTK thread, its drain, its pause, and the retries.      *)
(*                                                                         *)
(*   gtk      draws the cells and asks for what is missing, edits, shows   *)
(*            the picture of the editor or of a menu entry under the       *)
(*            pointer, changes the size of the cells, drains the queue;    *)
(*   workers  render and call updateImage() or updateImageFailed().        *)
(*                                                                         *)
(* ThumbImageUpdater models which job a worker takes and how removeJobs()  *)
(* waits; here any queued job may be next.  A picture is the number of the *)
(* edit it shows; Camera is the preview embedded in the file, Hovered the  *)
(* one of an edit under the pointer.                                       *)
(***************************************************************************)
EXTENDS Integers, Sequences, FiniteSets, SequencesExt

CONSTANTS
    Entries,        \* file browser entries
    RawEntries,     \* those that begin as a camera preview of an edited RAW
    Sizes,          \* sizes of a cell: of the grid, of the filmstrip
    Workers,        \* threads of the pool
    MaxRetries,     \* THUMBNAIL_MAX_RETRIES
    Acts,           \* what the user may do
    Faults,         \* may a rendering fail?
    MaxOps          \* bound: operations of the user

AllActs == {"edit", "editor", "hover", "resize", "scroll", "pause", "delete"}

EntryAssumption ==
    /\ Entries # {}
    /\ RawEntries \subseteq Entries
    /\ Sizes # {}
    /\ IsFiniteSet(Workers)
    /\ MaxRetries \in Nat
    /\ Acts \subseteq AllActs
    /\ Faults \in BOOLEAN
    /\ MaxOps \in Nat

Camera == 0
Hovered == MaxOps + 2
None == MaxOps + 3      \* no picture

Pictures == 0 .. MaxOps + 2
Edits == 1 .. MaxOps + 1

VARIABLES
    entry,              \* FileBrowserEntry, its Thumbnail and its helper
    jobs,               \* jobs of the updater: records [of, upgrade]
    worker,             \* what each worker is doing
    queue,              \* queuedImageUpdates
    idlePending,        \* queuedImageUpdateIdlePending
    paused,             \* queuedImageUpdatePauseDepth > 0
    timers,             \* retry timers: records [of, gen]
    dirty,              \* a redraw is due
    hover,              \* entries that show the edit under the pointer
    applying,           \* those whose chosen edit is being worked out
    ops,                \* operations of the user so far
    \* history: the entries
    met,                \* that two workers have been busy with at once
    caught              \* that a resize left with an outdated picture

past == <<met, caught>>
vars == <<entry, jobs, worker, queue, idlePending, paused, timers, dirty,
          hover, applying, ops, past>>

EntryStates ==
    [life : {"open", "deleted"},
     params : Edits,            \* processing parameters of the Thumbnail
     quick : BOOLEAN,           \* Thumbnail::isQuick()
     size : Sizes,              \* previewSize
     preview : [size : Sizes, pic : Pictures \cup {None}],
     slots : [Sizes -> Pictures \cup {None}],       \* previewSlots_
     lazy : BOOLEAN,            \* lazyThumbnailRequestPending
     live : BOOLEAN,            \* liveEditorPreview_
     gen : Nat,                 \* imageUpdateGeneration of the helper
     retries : Nat,             \* thumbnailRetryCount_
     retryGen : Nat,            \* thumbnailRetryGeneration_
     visible : BOOLEAN,         \* updatepriority
     redraws : Int,             \* redrawRequests
     pending : Nat,             \* pending of the helper
     helper : {"live", "destroyed", "freed"}]

Updates == [of : Entries, size : Sizes, pic : Pictures, gen : Nat,
            visible : BOOLEAN]

WorkerStates ==
    [pc : {"idle", "render", "call", "stamp", "queue"},
     of : Entries, upgrade : BOOLEAN, size : Sizes,
     pic : Pictures \cup {None}, gen : Nat]

TypeOK ==
    /\ entry \in [Entries -> EntryStates]
    /\ jobs \subseteq [of : Entries, upgrade : BOOLEAN]
    /\ worker \in [Workers -> WorkerStates]
    /\ queue \in Seq(Updates)
    /\ idlePending \in BOOLEAN
    /\ paused \in BOOLEAN
    /\ timers \in Seq([of : Entries, gen : Nat])
    /\ dirty \in BOOLEAN
    /\ hover \subseteq Entries
    /\ applying \subseteq Entries
    /\ ops \in 0 .. MaxOps
    /\ met \subseteq Entries
    /\ caught \subseteq Entries

First == CHOOSE s \in Sizes : TRUE

NoSlots == [s \in Sizes |-> None]

Init ==
    /\ \E seen \in SUBSET Entries :
          entry = [e \in Entries |->
            [life |-> "open", params |-> 1, quick |-> e \in RawEntries,
             size |-> First, preview |-> [size |-> First, pic |-> None],
             slots |-> NoSlots, lazy |-> FALSE, live |-> FALSE, gen |-> 0,
             retries |-> 0, retryGen |-> 0, visible |-> e \in seen,
             redraws |-> 0, pending |-> 0, helper |-> "live"]]
    /\ jobs = {}
    /\ worker = [w \in Workers |->
                    [pc |-> "idle", of |-> CHOOSE e \in Entries : TRUE,
                     upgrade |-> FALSE, size |-> First, pic |-> None,
                     gen |-> 0]]
    /\ queue = <<>>
    /\ idlePending = FALSE
    /\ paused = FALSE
    /\ timers = <<>>
    /\ dirty = TRUE
    /\ hover = {}
    /\ applying = {}
    /\ ops = 0
    /\ met = {}
    /\ caught = {}

-----------------------------------------------------------------------------
(* FileBrowserEntry: what its methods do to it.                            *)

Set(e, r) == entry' = [entry EXCEPT ![e] = r]

\* Is there something of e in s, the queue or the timers?
Waits(s, e) == \E i \in DOMAIN s : s[i].of = e

\* hasUsableThumbnailPreview()
Usable(r) == r.preview.pic # None /\ r.preview.size = r.size

\* imageUpdateMatchesCurrentPreview()
Matches(r, size) == r.size = size

\* invalidatePreviewSlots()
DropSlots(r) == [r EXCEPT !.slots = NoSlots]

\* _updateImage() of a queued update.
Paint(r, size, pic) ==
    IF r.size # size THEN [r EXCEPT !.redraws = @ - 1, !.lazy = FALSE]
    ELSE [r EXCEPT !.preview = [size |-> size, pic |-> pic], !.lazy = FALSE,
                   !.redraws = @ - 1, !.retries = 0, !.retryGen = @ + 1]

\* One reference less to the helper; the last one after the entry frees it.
Release(r) ==
    [r EXCEPT !.pending = @ - 1,
              !.helper = IF @ = "destroyed" /\ r.pending = 1 THEN "freed"
                         ELSE @]

\* discardQueuedImageUpdate()
Discard(r) ==
    IF r.helper = "destroyed" THEN Release(r)
    ELSE [Release(r) EXCEPT !.redraws = @ - 1]

\* An update takes the place of one of the same entry, or the last.
Put(u) ==
    queue' = IF Waits(queue, u.of)
             THEN [i \in DOMAIN queue |->
                      IF queue[i].of = u.of THEN u ELSE queue[i]]
             ELSE Append(queue, u)

\* resize() to a size that is not the present one: the pixels rendered for the
\* size that is left are kept, those kept for the new one are put back.
Resized(r, s) ==
    LET kept == IF Usable(r) THEN [r.slots EXCEPT ![r.size] = r.preview.pic]
                ELSE r.slots
        back == kept[s] IN
    [r EXCEPT !.size = s, !.live = FALSE, !.retries = 0,
              !.retryGen = @ + 1, !.lazy = FALSE,
              !.preview = IF back # None THEN [size |-> s, pic |-> back] ELSE @,
              !.slots = [kept EXCEPT ![s] = None]]

\* wantsProcessedPreview() and isQuick(): the cheap preview is shown first.
WantsUpgrade(r) == r.quick /\ Usable(r)

\* refreshQuickThumbnailImage() and refreshThumbnailImage(): their jobs.
QuickJobs(e, r) ==
    IF Usable(r) /\ ~ WantsUpgrade(r) THEN {}
    ELSE {[of |-> e, upgrade |-> WantsUpgrade(r)]}

RefreshJobs(e) == {[of |-> e, upgrade |-> FALSE]}

-----------------------------------------------------------------------------
(* The GTK thread: drawing, and what the user does.                        *)

\* appendQuickThumbnailJob()
Asks(r) ==
    /\ r.life = "open"
    /\ r.visible
    /\ r.retries <= MaxRetries
    /\ ~ r.lazy
    /\ ~ Usable(r) \/ WantsUpgrade(r)

\* on_draw() asks for every visible entry, then queues what was asked for.
Draw ==
    /\ dirty
    /\ dirty' = FALSE
    /\ entry' = [e \in Entries |-> [entry[e] EXCEPT
                    !.lazy = @ \/ Asks(entry[e])]]
    /\ jobs' = jobs \cup {[of |-> e, upgrade |-> WantsUpgrade(entry[e])] :
                              e \in {x \in Entries : Asks(entry[x])}}
    /\ UNCHANGED <<worker, queue, idlePending, paused, timers, hover, ops,
                   applying, past>>

Does(act) ==
    /\ act \in Acts
    /\ ops < MaxOps
    /\ ops' = ops + 1

\* procParamsChanged(), after the parameters have changed.
Edited(r) ==
    DropSlots([r EXCEPT !.params = @ + 1, !.live = FALSE])

\* Mutant: an edit asks only for what is missing.
EditJobs_OnlyMissing(e) == QuickJobs(e, entry[e])

\* An edit asks for the picture again, whatever is shown.
EditJobs(e) ==
    IF entry[e].quick THEN QuickJobs(e, entry[e]) ELSE RefreshJobs(e)

Edit(e) ==
    /\ Does("edit")
    /\ entry[e].life = "open"
    /\ Set(e, Edited(entry[e]))
    /\ jobs' = jobs \cup EditJobs(e)
    /\ hover' = hover \ {e}
    /\ UNCHANGED <<worker, queue, idlePending, paused, timers, dirty,
                   applying, past>>

\* procParamsChanged() from the editor leaves a live preview alone; the next
\* frame of the editor replaces it.
EditorEdit(e) ==
    /\ Does("editor")
    /\ entry[e].life = "open"
    /\ IF entry[e].live
       THEN /\ Set(e, [entry[e] EXCEPT !.params = @ + 1])
            /\ dirty' = TRUE
            /\ UNCHANGED jobs
       ELSE /\ Set(e, Edited(entry[e]))
            /\ jobs' = jobs \cup EditJobs(e)
            /\ UNCHANGED dirty
    /\ UNCHANGED <<worker, queue, idlePending, paused, timers, hover,
                   applying, past>>

\* setLiveEditorPreview()
LivePreview(e) ==
    /\ Does("editor")
    /\ entry[e].life = "open"
    /\ LET r == DropSlots([entry[e] EXCEPT !.live = TRUE, !.gen = @ + 1,
                              !.redraws = @ + 1]) IN
        Set(e, Paint(r, r.size, r.params))
    /\ dirty' = TRUE
    /\ UNCHANGED <<jobs, worker, queue, idlePending, paused, timers, hover,
                   applying, past>>

\* A menu entry under the pointer: updateImage() on the GTK thread.
HoverShow(e) ==
    /\ Does("hover")
    /\ entry[e].life = "open"
    /\ ~ entry[e].live
    /\ hover = {} /\ applying = {}
    /\ hover' = {e}
    /\ LET r == [entry[e] EXCEPT !.redraws = @ + 1, !.pending = @ + 1,
                                 !.gen = @ + 1]
           u == [of |-> e, size |-> r.size, pic |-> Hovered, gen |-> r.gen,
                 visible |-> r.visible] IN
        /\ Set(e, IF Waits(queue, e) THEN Discard(r) ELSE r)
        /\ Put(u)
    /\ idlePending' = (idlePending \/ entry[e].visible \/ ~ paused)
    /\ UNCHANGED <<jobs, worker, paused, timers, dirty, applying, past>>

\* invalidateTransientPreview(true): the pointer left the menu entry.
HoverEnd(e) ==
    /\ e \in hover
    /\ entry[e].life = "open"
    /\ hover' = {}
    /\ Set(e, DropSlots([entry[e] EXCEPT !.gen = @ + 1, !.live = FALSE]))
    /\ jobs' = jobs \cup RefreshJobs(e)
    /\ UNCHANGED <<worker, queue, idlePending, paused, timers, dirty, ops,
                   applying, past>>

\* The menu entry is chosen: invalidateTransientPreview(false), for the edit
\* will bring a picture of its own; a thread works it out.
HoverApply(e) ==
    /\ Does("hover")
    /\ e \in hover
    /\ entry[e].life = "open"
    /\ applying = {}
    /\ hover' = {}
    /\ applying' = {e}
    /\ Set(e, [entry[e] EXCEPT !.gen = @ + 1])
    /\ UNCHANGED <<jobs, worker, queue, idlePending, paused, timers, dirty, past>>

\* ... and the edit is made, if it could be worked out and the entry is there.
ApplyEdit(e) ==
    /\ e \in applying
    /\ applying' = {}
    /\ \/ /\ entry[e].life = "open"
          /\ Set(e, Edited(entry[e]))
          /\ jobs' = jobs \cup EditJobs(e)
          /\ hover' = hover \ {e}
       \/ /\ entry[e].life = "deleted" \/ Faults
          /\ UNCHANGED <<entry, jobs, hover>>
    /\ UNCHANGED <<worker, queue, idlePending, paused, timers, dirty, ops, past>>

\* Nothing is on its way to an entry.
Settled(e) ==
    /\ entry[e].life = "open"
    /\ \A j \in jobs : j.of # e
    /\ \A w \in Workers : worker[w].of = e => worker[w].pc = "idle"
    /\ ~ Waits(queue, e) /\ ~ Waits(timers, e)

\* The last edit is shown, or the camera preview of a file not yet processed.
Current(r) ==
    r.preview.pic = r.params \/ (r.preview.pic = Camera /\ r.quick)

\* What is on its way to e is of the size that is left, or the picture r gets
\* back is outdated.
Catches(e, r) == ~ Settled(e) \/ (Usable(r) /\ ~ Current(r))

\* The view changes between grid and filmstrip: every entry is resized.
Resize(s) ==
    /\ Does("resize")
    /\ \E e \in Entries : entry[e].size # s
    /\ entry' = [e \in Entries |->
                    IF entry[e].life = "open" /\ entry[e].size # s
                    THEN Resized(entry[e], s) ELSE entry[e]]
    /\ caught' = caught \cup {e \in Entries : entry'[e].size # entry[e].size
                                                 /\ Catches(e, entry'[e])}
    /\ dirty' = TRUE
    /\ UNCHANGED <<jobs, worker, queue, idlePending, paused, timers, hover,
                   applying, met>>

\* on_draw() sets updatepriority of what has come into view.
Scroll(e) ==
    /\ Does("scroll")
    /\ entry[e].life = "open"
    /\ Set(e, [entry[e] EXCEPT !.visible = ~ @])
    /\ dirty' = TRUE
    /\ UNCHANGED <<jobs, worker, queue, idlePending, paused, timers, hover,
                   applying, past>>

Pause ==
    /\ Does("pause")
    /\ ~ paused
    /\ paused' = TRUE
    /\ UNCHANGED <<entry, jobs, worker, queue, idlePending, timers, dirty,
                   hover, applying, past>>

\* resumeQueuedImageUpdates()
Resume ==
    /\ paused
    /\ paused' = FALSE
    /\ idlePending' = (idlePending \/ queue # <<>>)
    /\ UNCHANGED <<entry, jobs, worker, queue, timers, dirty, hover, ops,
                   applying, past>>

InCallback(e) ==
    \E w \in Workers : worker[w].of = e /\ worker[w].pc \in {"stamp", "queue"}

\* ~FileBrowserEntry: removeJobs() waits for the callbacks on the entry.
Delete(e) ==
    /\ Does("delete")
    /\ entry[e].life = "open"
    /\ ~ InCallback(e)
    /\ jobs' = {j \in jobs : j.of # e}
    /\ Set(e, [entry[e] EXCEPT !.life = "deleted",
                  !.helper = IF entry[e].pending > 0 THEN "destroyed"
                             ELSE "freed"])
    /\ hover' = hover \ {e}
    /\ UNCHANGED <<worker, queue, idlePending, paused, timers, dirty,
                   applying, past>>

-----------------------------------------------------------------------------
(* The GTK thread: the drain and the retry timers.                         *)

Deliverable == {i \in DOMAIN queue : ~ paused \/ queue[i].visible}

\* applyQueuedImageUpdate()
Applied(r, u) ==
    IF r.helper = "destroyed" THEN Release(r)
    ELSE IF u.gen # r.gen THEN Discard(r)
    ELSE Release(Paint(r, u.size, u.pic))

Redraws(r, u) ==
    /\ r.helper = "live" /\ u.gen = r.gen /\ u.size = r.size
    /\ Applied(r, u).redraws = 0

\* drainQueuedImageUpdates(): updates in order, those of visible cells only
\* while paused.
Drain ==
    /\ idlePending
    /\ IF Deliverable = {}
       THEN /\ idlePending' = FALSE
            /\ UNCHANGED <<entry, queue, dirty>>
       ELSE LET i == CHOOSE x \in Deliverable : \A y \in Deliverable : x <= y
                u == queue[i]
            IN /\ queue' = RemoveAt(queue, i)
               /\ Set(u.of, Applied(entry[u.of], u))
               /\ dirty' = (dirty \/ Redraws(entry[u.of], u))
               /\ UNCHANGED idlePending
    /\ UNCHANGED <<jobs, worker, paused, timers, hover, ops, applying, past>>

\* thumbnailRetryTimeout() and runThumbnailRetry()
Retry ==
    \E i \in DOMAIN timers :
        LET t == timers[i]
            r == entry[t.of]
            runs == r.helper = "live" /\ t.gen = r.retryGen /\ ~ Usable(r)
        IN /\ timers' = RemoveAt(timers, i)
           /\ Set(t.of, [Release(r) EXCEPT !.lazy = @ \/ runs])
           /\ jobs' = IF runs THEN jobs \cup QuickJobs(t.of, r) ELSE jobs
           /\ dirty' = (dirty \/ runs)
           /\ UNCHANGED <<worker, queue, idlePending, paused, hover, ops,
                          applying, past>>

-----------------------------------------------------------------------------
(* The thumbnail workers.                                                  *)

Become(w, r) == worker' = [worker EXCEPT ![w] = r]

Rest(w) == Become(w, [worker[w] EXCEPT !.pc = "idle", !.pic = None, !.gen = 0])

\* Another worker is busy with e.
IsBusyElsewhere(w, e) ==
    \E v \in Workers \ {w} : worker[v].of = e /\ worker[v].pc # "idle"

\* takeNextJobLocked_: the size is read when the job is taken.
TakeJob(w) ==
    /\ worker[w].pc = "idle"
    /\ \E j \in jobs :
          /\ paused => entry[j.of].visible
          /\ jobs' = jobs \ {j}
          /\ Become(w, [worker[w] EXCEPT !.pc = "render", !.of = j.of,
                          !.upgrade = j.upgrade, !.size = entry[j.of].size])
          /\ met' = met \cup {e \in {j.of} : IsBusyElsewhere(w, e)}
    /\ UNCHANGED <<entry, queue, idlePending, paused, timers, dirty, hover,
                   ops, applying, caught>>

\* processThumbImage() and upgradeThumbImage(), under Thumbnail::mutex.
Render(w) ==
    /\ worker[w].pc = "render"
    /\ LET e == worker[w].of
           r == entry[e]
           useless == worker[w].upgrade /\ ~ r.quick
           pic == IF r.quick /\ ~ worker[w].upgrade THEN Camera ELSE r.params
       IN \/ /\ ~ useless
             /\ Set(e, [r EXCEPT !.quick = @ /\ ~ worker[w].upgrade])
             /\ Become(w, [worker[w] EXCEPT !.pc = "call", !.pic = pic])
          \/ /\ useless \/ Faults
             /\ UNCHANGED entry
             /\ Become(w, [worker[w] EXCEPT !.pc = "call", !.pic = None])
    /\ UNCHANGED <<jobs, queue, idlePending, paused, timers, dirty, hover,
                   ops, applying, past>>

\* A removed listener is not called.
Skip(w) ==
    /\ worker[w].pc = "call"
    /\ entry[worker[w].of].life = "deleted"
    /\ Rest(w)
    /\ UNCHANGED <<entry, jobs, queue, idlePending, paused, timers, dirty,
                   hover, ops, applying, past>>

\* Mutant: a result that is turned down stays asked for.
TurnedDown_Lazy(r) == r

TurnedDown(r) == [r EXCEPT !.lazy = FALSE]

\* updateImage(): the picture of the editor wins, and a size nobody wants any
\* more is dropped.
Update(w) ==
    /\ worker[w].pc = "call"
    /\ worker[w].pic # None
    /\ LET e == worker[w].of
           r == entry[e]
       IN /\ r.life = "open"
          /\ IF r.live \/ ~ Matches(r, worker[w].size)
             THEN /\ Set(e, TurnedDown(r))
                  /\ Rest(w)
             ELSE /\ Become(w, [worker[w] EXCEPT !.pc = "stamp"])
                  /\ UNCHANGED entry
    /\ UNCHANGED <<jobs, queue, idlePending, paused, timers, dirty, hover,
                   ops, applying, past>>

\* ... counts it, and takes the next generation
Stamp(w) ==
    /\ worker[w].pc = "stamp"
    /\ LET e == worker[w].of
           r == [entry[e] EXCEPT !.redraws = @ + 1, !.pending = @ + 1,
                                 !.gen = @ + 1]
       IN /\ Set(e, r)
          /\ Become(w, [worker[w] EXCEPT !.pc = "queue", !.gen = r.gen])
    /\ UNCHANGED <<jobs, queue, idlePending, paused, timers, dirty, hover,
                   ops, applying, past>>

\* ... and queueImageUpdate(), under queuedImageUpdatesMutex: an update of the
\* same entry is replaced; a visible one starts the drain even when paused.
QueueUpdate(w) ==
    /\ worker[w].pc = "queue"
    /\ LET e == worker[w].of
           u == [of |-> e, size |-> worker[w].size, pic |-> worker[w].pic,
                 gen |-> worker[w].gen, visible |-> entry[e].visible]
       IN /\ Set(e, IF Waits(queue, e) THEN Discard(entry[e]) ELSE entry[e])
          /\ Put(u)
          /\ idlePending' = (idlePending \/ u.visible \/ ~ paused)
    /\ Rest(w)
    /\ UNCHANGED <<jobs, paused, timers, dirty, hover, ops, applying, past>>

\* Mutant: one attempt too many is followed by a timer that counts no reference.
RetryLater_Unheld(e, r) ==
    /\ Set(e, [r EXCEPT !.retries = @ + 1])
    /\ timers' = IF r.retries < MaxRetries
                 THEN Append(timers, [of |-> e, gen |-> r.retryGen])
                 ELSE timers

\* A failed render is tried again up to THUMBNAIL_MAX_RETRIES times.
RetryLater(e, r) ==
    IF r.retries < MaxRetries
    THEN /\ Set(e, [r EXCEPT !.retries = @ + 1, !.pending = @ + 1])
         /\ timers' = Append(timers, [of |-> e, gen |-> r.retryGen])
    ELSE /\ Set(e, [r EXCEPT !.retries = MaxRetries + 1])
         /\ UNCHANGED timers

\* updateImageFailed()
UpdateFailed(w) ==
    /\ worker[w].pc = "call"
    /\ worker[w].pic = None
    /\ LET e == worker[w].of
           r == TurnedDown(entry[e])
       IN /\ r.life = "open"
          /\ IF r.live \/ ~ Matches(r, worker[w].size)
             THEN Set(e, r) /\ UNCHANGED timers
             ELSE IF worker[w].upgrade /\ Usable(r)
                  THEN Set(e, [r EXCEPT !.retries = 0]) /\ UNCHANGED timers
                  ELSE RetryLater(e, r)
    /\ Rest(w)
    /\ UNCHANGED <<jobs, queue, idlePending, paused, dirty, hover, ops,
                   applying, past>>

-----------------------------------------------------------------------------

WorkerStep(w) ==
    \/ TakeJob(w) \/ Render(w) \/ Skip(w)
    \/ Update(w) \/ Stamp(w) \/ QueueUpdate(w) \/ UpdateFailed(w)

UserStep ==
    \/ \E e \in Entries :
          \/ Edit(e) \/ EditorEdit(e) \/ LivePreview(e)
          \/ HoverShow(e) \/ HoverApply(e) \/ Scroll(e) \/ Delete(e)
    \/ \E s \in Sizes : Resize(s)
    \/ Pause

Next ==
    \/ UserStep
    \/ Resume \/ Draw \/ Drain \/ Retry
    \/ \E e \in Entries : HoverEnd(e) \/ ApplyEdit(e)
    \/ \E w \in Workers : WorkerStep(w)

Spec == Init /\ [][Next]_vars

\* The GTK main loop draws, drains and fires timers, the pool runs its
\* workers, and the foreground gives the machine back.
FairSpec ==
    /\ Spec
    /\ WF_vars(Draw) /\ WF_vars(Drain) /\ WF_vars(Retry) /\ WF_vars(Resume)
    /\ \A e \in Entries : WF_vars(HoverEnd(e)) /\ WF_vars(ApplyEdit(e))
    /\ \A w \in Workers : WF_vars(WorkerStep(w))

-----------------------------------------------------------------------------
(* Properties.                                                             *)

CountOf(s, e) == Cardinality({i \in DOMAIN s : s[i].of = e})

Queueing(e) == {w \in Workers : worker[w].of = e /\ worker[w].pc = "queue"}

\* The helper's pending is the number of updates, timers and callbacks that
\* refer to it, and none refers to a helper that has been freed: it is freed
\* once, by the last of them, whoever deletes the entry and when.
HelperIsCounted ==
    \A e \in Entries :
        /\ entry[e].pending = CountOf(queue, e) + CountOf(timers, e)
                              + Cardinality(Queueing(e))
        /\ entry[e].life = "deleted" =>
               (entry[e].helper = "freed" <=> entry[e].pending = 0)

\* redrawRequests is the number of updates on their way: an entry redraws when
\* the last of them has been applied, however many were discarded.
RedrawsBalanced ==
    \A e \in Entries : entry[e].life = "open" =>
        entry[e].redraws = CountOf(queue, e) + Cardinality(Queueing(e))

\* What the entry believes to be asked for is on its way: lazyThumbnail-
\* RequestPending keeps the entry from asking again.  (When the pointer leaves
\* a menu entry, or its edit is made, the picture is asked for in any case.)  Two
\* workers that have met may have replaced the newer update by the older one.
AskedIsAnswered ==
    \A e \in Entries \ (hover \cup applying \cup met) :
      entry[e].life = "open" /\ entry[e].lazy =>
        \/ \E j \in jobs : j.of = e
        \/ \E w \in Workers : worker[w].of = e /\ worker[w].pc # "idle"
        \/ Waits(queue, e) \/ Waits(timers, e)

\* An update waits for a drain only while the drain is paused and its cell is
\* not on screen.
NoStrandedUpdate ==
    queue # <<>> /\ ~ idlePending =>
        paused /\ \A i \in DOMAIN queue : ~ queue[i].visible

\* When nothing is on its way to an entry, what it shows at the size of its
\* cell is the last edit, or the camera preview of a file not yet processed;
\* unless two workers have met at it, or a resize has caught it unfinished.
ShownIsCurrent ==
    \A e \in Entries \ (hover \cup applying \cup met \cup caught) :
        Settled(e) /\ Usable(entry[e]) /\ ~ entry[e].live => Current(entry[e])

\* A picture kept for the other size of the cells is of the last edit too, or
\* the camera preview: it comes back without being rendered again.
KeptIsCurrent ==
    \A e \in Entries : \A s \in Sizes :
        entry[e].life = "open" /\ ~ entry[e].live
        /\ entry[e].slots[s] # None =>
            entry[e].slots[s] \in {entry[e].params, Camera}

\* While the picture of the editor is shown, nothing a thumbnail worker
\* rendered replaces it: it changes to a later one only.
LiveIsKept ==
    [][\A e \in Entries :
          entry[e].live /\ entry'[e].live
          /\ entry'[e].preview # entry[e].preview =>
              entry'[e].gen > entry[e].gen]_vars

\* A cell that comes into view and stays is painted at its size.
VisibleIsPainted ==
    \A e \in Entries :
        entry[e].visible ~>
            (Usable(entry[e]) \/ ~ entry[e].visible
             \/ entry[e].life = "deleted")

\* A camera preview in view is replaced by the processed picture.
RawIsUpgraded ==
    \A e \in Entries :
        entry[e].quick /\ entry[e].visible ~>
            (~ entry[e].quick \/ ~ entry[e].visible
             \/ entry[e].life = "deleted" \/ entry[e].live)

=============================================================================
