---------------------------- MODULE PhotoOpening ----------------------------
(***************************************************************************)
(* Opening a photo in the single editor (src/rtgui/filepanel.cc,           *)
(* editorpanel.cc, progressconnector.h).                                   *)
(*                                                                         *)
(* A click on a photo takes a reference to its thumbnail and calls         *)
(* fileSelected() on the GUI thread.  A photo that was decoded ahead is    *)
(* opened at once.  Any other gets an entry in pendingLoads and a          *)
(* ProgressConnector; the decoding runs on one persistent thread, which    *)
(* posts the end callback imageLoaded() to the GUI loop.  A newer click    *)
(* marks the older entries as superseded.  Until the photo opens, its      *)
(* cached thumbnail covers the canvas; a watchdog looks after a cover that *)
(* stays.  open() leaves the slow half of its work to timers, which a      *)
(* cover for another photo cancels.                                        *)
(*                                                                         *)
(* A slot stands for a pendingLoad with its connector and its request; it  *)
(* is reused when none of the three is referred to.  One handler of the    *)
(* GUI loop is one step; the decoding thread interleaves with them.        *)
(***************************************************************************)
EXTENDS Naturals, FiniteSets, Sequences, SequencesExt, Places

CONSTANTS
    Photos,     \* the photos a user can click
    Broken,     \* photos whose decoding may fail
    Slots,      \* pending loads there can be at once
    None,       \* no photo, no slot
    Delays,     \* {TRUE} when a scrub delays the start of a load, else {FALSE}
    Cached,     \* {TRUE, FALSE} when a decoded photo may be at hand
    Covers,     \* what the cached thumbnail gives: see Cover
    MaxClicks,  \* bound: clicks of the user
    MaxRefs     \* bound: a reference count that reaches it is not followed further

\* The thumbnail covers the canvas, finds the handler busy, comes later, is missing.
Cover == {"shown", "busy", "late", "none"}

ASSUME PhotosAssumption ==
    /\ Broken \subseteq Photos /\ None \notin Photos \cup Slots
    /\ IsFiniteSet(Slots)
ASSUME ChoicesAssumption ==
    Delays \subseteq BOOLEAN /\ Cached \subseteq BOOLEAN /\ Covers \subseteq Cover
ASSUME BoundsAssumption == MaxClicks \in Nat /\ MaxRefs \in Nat \ {0}

VARIABLES
    pending,     \* pendingLoads: the slots of the loads, oldest first
    photo,       \* pendingLoad::thm of each slot, None for a free slot
    superseded,  \* slots with pendingLoad::superseded
    skipped,     \* slots with pendingLoad::staleSkipped
    asked,       \* slots whose thumbnail is still looked up for a cover
    delayed,     \* slots whose delayedStartConn is connected
    queue,       \* SharedProgressWorker::queue_
    worker,      \* the worker thread: where it is, its slot and its result
    ended,       \* end callbacks in the GUI loop: slot and result, oldest first
    loading,     \* photos with Thumbnail::imageLoading
    refs,        \* references to each thumbnail taken for opening it
    editor,      \* EditorPanel::openThm
    setup,       \* how far the deferred half of open() has come
    attached,    \* the processor of the open photo has its preview listener
    cover,       \* ImageArea::getQuickPreviewFit()
    coverOf,     \* quickPreviewFileName_
    attempts,    \* quickPreviewRecoverAttempts_, None while no watchdog runs
    dialogs,     \* the slots whose error dialogs are open, the newest last
    paused,      \* foregroundWorkActive_: background work waits for a load
    wanted,      \* ghost: the photo clicked last (the browser's selection)
    accepted,    \* ghost: the photo of the newest load
    clicks       \* bounds Click

vars == <<pending, photo, superseded, skipped, asked, delayed, queue, worker, ended,
          loading, refs, editor, setup, attached, cover, coverOf, attempts, dialogs,
          paused, wanted, accepted, clicks>>

loads == <<pending, photo, superseded, skipped, asked, delayed>>
thread == <<queue, worker, ended>>
screen == <<setup, attached, cover, coverOf, attempts>>

Elements(s) == {s[i] : i \in DOMAIN s}

Idle == [at |-> "idle", slot |-> None, image |-> FALSE]

\* A slot is free when its entry is deleted and the thread is done with it.
Free == {s \in Slots : photo[s] = None /\ worker.slot # s}

-----------------------------------------------------------------------------
Init ==
    /\ pending = <<>>
    /\ photo = [s \in Slots |-> None]
    /\ superseded = {} /\ skipped = {} /\ asked = {} /\ delayed = {}
    /\ queue = <<>> /\ worker = Idle /\ ended = <<>>
    /\ loading = {}
    /\ refs = [p \in Photos |-> 0]
    /\ editor = None
    /\ setup = "none" /\ attached = FALSE
    /\ cover = FALSE /\ coverOf = None /\ attempts = None
    /\ dialogs = <<>>
    /\ paused = FALSE
    /\ wanted = None /\ accepted = None /\ clicks = 0

-----------------------------------------------------------------------------
(* Thumbnail::increaseRef() and decreaseRef().                             *)

Take(r, p, n) == [r EXCEPT ![p] = IF @ + n < MaxRefs THEN @ + n ELSE MaxRefs]
Drop(r, p, n) == [r EXCEPT ![p] = IF @ = MaxRefs THEN @ ELSE @ - n]

-----------------------------------------------------------------------------
(* The editor's half.                                                      *)

\* EditorPanel::setQuickPreview() for photo p: nothing for the open photo;
\* otherwise the timers of a photo that is not set up are cancelled, its
\* processor loses its listener, and the cover appears unless the preview
\* handler is busy.  A cover that appears starts the watchdog anew; n is its
\* count without one.
SetQuickPreview(p, shown, n) ==
    IF p = editor
    THEN /\ attempts' = n
         /\ UNCHANGED <<setup, attached, cover, coverOf>>
    ELSE /\ setup' = IF setup \in {"deferred", "waiting"} THEN "cancelled" ELSE setup
         /\ attached' = FALSE
         /\ cover' = (cover \/ shown)
         /\ coverOf' = IF shown THEN p ELSE coverOf
         /\ attempts' = IF shown THEN 0 ELSE n

\* Only the handler of an open photo is ever busy.
Shown == IF editor = None THEN {TRUE} ELSE BOOLEAN

\* EditorPanel::open(): close() releases the photo that was open and stops the
\* watchdog; the cover of the new photo stays until its first crop.
OpenInEditor(p, r) ==
    /\ editor' = p
    /\ refs' = IF editor = None THEN r ELSE Drop(r, editor, 1)
    /\ setup' = "deferred"
    /\ attached' = TRUE
    /\ cover' = TRUE
    /\ coverOf' = None
    /\ attempts' = None

\* openPhaseB(): the tools and the profile of the photo; its crop waits.
OpenPhaseB ==
    /\ setup = "deferred"
    /\ setup' = "waiting"
    /\ UNCHANGED <<loads, thread, loading, refs, editor, attached, cover, coverOf, attempts,
                   dialogs, paused, wanted, accepted, clicks>>

\* enableDeferredCropWindow(): by the first preview frame or by the timer.
EnableCrop ==
    /\ setup = "waiting"
    /\ setup' = "enabled"
    /\ UNCHANGED <<loads, thread, loading, refs, editor, attached, cover, coverOf, attempts,
                   dialogs, paused, wanted, accepted, clicks>>

\* ImageArea::initialImageArrived(): the first crop replaces the cover.
InitialImageArrived ==
    /\ setup = "enabled"
    /\ setup' = "painted"
    /\ cover' = FALSE
    /\ UNCHANGED <<loads, thread, loading, refs, editor, attached, coverOf, attempts,
                   dialogs, paused, wanted, accepted, clicks>>

-----------------------------------------------------------------------------
(* FilePanel::fileSelected().                                              *)

\* The loads that are not superseded, and those of them that wait for a timer.
Current == {s \in Elements(pending) : s \notin superseded}
Unstarted == Current \cap delayed

\* supersedePendingSingleEditorLoads().  An unstarted load is deleted with its
\* reference, a started one is marked; their photos may be asked for again.

\* The loads that are marked.
Superseded == (superseded \cup Current) \ Unstarted

\* The loads that stay in the list.
Remaining == Without(pending, Unstarted)

PhotosRemaining == [s \in Slots |-> IF s \in Unstarted THEN None ELSE photo[s]]

\* The photos that stay marked as being opened, of those in marked.
LoadingRemaining(marked) == marked \ {photo[s] : s \in Current}

\* Mutant: the reference of a load that was started is released too.
RefsRemaining_Started(r) ==
    [p \in Photos |-> IF \E s \in Current : photo[s] = p THEN Drop(r, p, 1)[p] ELSE r[p]]

\* The references that stay, of r.
RefsRemaining(r) ==
    [p \in Photos |-> IF \E s \in Unstarted : photo[s] = p THEN Drop(r, p, 1)[p] ELSE r[p]]

\* A photo decoded ahead is opened within the click.
OpenCached(p, r) ==
    /\ superseded' = Superseded
    /\ delayed' = delayed \ Unstarted
    /\ pending' = Remaining
    /\ photo' = PhotosRemaining
    /\ asked' = asked \ Current
    /\ loading' = LoadingRemaining(loading)
    /\ OpenInEditor(p, RefsRemaining(r))
    /\ paused' = (Remaining # <<>>)
    /\ UNCHANGED <<skipped, thread>>

\* Any other photo gets an entry; its load starts at once or by a timer.  Its
\* mark comes first, and goes with that of a load of the same photo that is
\* superseded (whose mark had been cleared by the end of an older one).
StartLoad(p, r, n, delays) ==
    /\ Free # {}
    /\ LET s == CHOOSE f \in Free : TRUE IN
       \E later \in delays, c \in Covers :
            /\ pending' = Append(Remaining, s)
            /\ photo' = [PhotosRemaining EXCEPT ![s] = p]
            /\ superseded' = Superseded
            /\ delayed' = (delayed \ Unstarted) \cup (IF later THEN {s} ELSE {})
            /\ queue' = IF later THEN queue ELSE Append(queue, s)
            /\ asked' = (asked \ Current) \cup (IF c = "late" THEN {s} ELSE {})
            /\ \/ c = "shown" /\ SetQuickPreview(p, TRUE, n)
               \/ c = "busy" /\ FALSE \in Shown /\ SetQuickPreview(p, FALSE, n)
               \/ /\ c \in {"late", "none"}
                  /\ attempts' = n
                  /\ UNCHANGED <<setup, attached, cover, coverOf>>
    /\ loading' = LoadingRemaining(loading \cup {p})
    /\ refs' = RefsRemaining(r)
    /\ paused' = TRUE
    /\ UNCHANGED <<skipped, worker, ended, editor>>

\* Nothing starts for the open photo, nor for one whose load is under way:
\* the reference of the call is given back.
StaysAsItIs(p) == p = editor \/ p \in loading

\* fileSelected() for photo p by openRequested(), where r counts the references
\* of the callers, n the attempts of the watchdog and delays the choice to wait.
FileSelected(p, r, n, delays) ==
    \/ /\ StaysAsItIs(p)
       /\ refs' = r
       /\ attempts' = n
       /\ UNCHANGED <<loads, thread, loading, editor, setup, attached, cover, coverOf,
                      paused, accepted>>
    \/ /\ ~StaysAsItIs(p)
       /\ accepted' = p
       /\ \/ TRUE \in Cached /\ OpenCached(p, Take(r, p, 1))
          \/ FALSE \in Cached /\ StartLoad(p, Take(r, p, 1), n, delays)

\* The user clicks a photo; a modal error dialog keeps clicks away.
Click(p) ==
    /\ clicks < MaxClicks
    /\ dialogs = <<>>
    /\ clicks' = clicks + 1
    /\ wanted' = p
    /\ FileSelected(p, refs, attempts, Delays)
    /\ UNCHANGED dialogs

\* The delayed start of a load (markPendingLoadStarted).
DelayedStart(s) ==
    /\ s \in delayed
    /\ delayed' = delayed \ {s}
    /\ queue' = IF s \in superseded THEN queue ELSE Append(queue, s)
    /\ UNCHANGED <<pending, photo, superseded, skipped, asked, worker, ended, loading, refs,
                   editor, screen, dialogs, paused, wanted, accepted, clicks>>

\* The thumbnail that was looked up for the cover arrives, unless the load has
\* ended or was superseded meanwhile.
LateCover(s) ==
    /\ s \in asked
    /\ asked' = asked \ {s}
    /\ \E shown \in Shown : SetQuickPreview(photo[s], shown, attempts)
    /\ UNCHANGED <<pending, photo, superseded, skipped, delayed, thread, loading, refs,
                   editor, dialogs, paused, wanted, accepted, clicks>>

-----------------------------------------------------------------------------
(* The decoding thread: SharedProgressWorker::run(),                       *)
(* ProgressConnector::workingThread() and loadInitialImageSerialized().    *)

TakeLoad ==
    /\ worker.at = "idle"
    /\ queue # <<>>
    /\ worker' = [at |-> "decoding", slot |-> Head(queue), image |-> FALSE]
    /\ queue' = Tail(queue)
    /\ UNCHANGED <<loads, ended, loading, refs, editor, screen, dialogs, paused,
                   wanted, accepted, clicks>>

\* A superseded request may be noticed (before, during or after the decoding,
\* when its image is kept by the preloader) or not.
Decode ==
    LET s == worker.slot IN
    /\ worker.at = "decoding"
    /\ \/ /\ s \in superseded
          /\ skipped' = skipped \cup {s}
          /\ worker' = [worker EXCEPT !.at = "done"]
       \/ /\ \E image \in (IF photo[s] \in Broken THEN BOOLEAN ELSE {TRUE}) :
                worker' = [worker EXCEPT !.at = "done", !.image = image]
          /\ UNCHANGED skipped
    /\ UNCHANGED <<pending, photo, superseded, asked, delayed, queue, ended, loading, refs,
                   editor, screen, dialogs, paused, wanted, accepted, clicks>>

\* The end callback is posted first, and the connector written afterwards.
PostEnd ==
    /\ worker.at = "done"
    /\ ended' = Append(ended, [slot |-> worker.slot, image |-> worker.image])
    /\ worker' = [worker EXCEPT !.at = "posted"]
    /\ UNCHANGED <<loads, queue, loading, refs, editor, screen, dialogs, paused,
                   wanted, accepted, clicks>>

FinishConnector ==
    /\ worker.at = "posted"
    /\ worker' = Idle
    /\ UNCHANGED <<loads, queue, ended, loading, refs, editor, screen, dialogs, paused,
                   wanted, accepted, clicks>>

-----------------------------------------------------------------------------
(* FilePanel::imageLoaded().                                               *)

\* The entry an end callback finds: the first one of its photo.
EntryOf(c) ==
    pending[CHOOSE i \in DOMAIN pending :
                /\ photo[pending[i]] = photo[c.slot]
                /\ \A j \in 1 .. i - 1 : photo[pending[j]] # photo[c.slot]]

\* Mutant: a new load starts with the skipped flag of an old one.
Forget_Skipped(e) ==
    /\ pending' = Without(pending, {e})
    /\ superseded' = superseded \ {e}
    /\ asked' = asked \ {e}
    /\ UNCHANGED <<skipped, delayed>>

\* The entry is taken out of pendingLoads, and its preview is no longer allowed.
Forget(e) ==
    /\ pending' = Without(pending, {e})
    /\ superseded' = superseded \ {e}
    /\ skipped' = skipped \ {e}
    /\ asked' = asked \ {e}
    /\ UNCHANGED delayed

\* The result of a load that was superseded is thrown away.
DiscardImage(e) ==
    /\ e \in superseded \cup skipped
    /\ photo' = [photo EXCEPT ![e] = None]
    /\ loading' = loading \ {photo[e]}
    /\ paused' = (pending' # <<>>)
    /\ UNCHANGED <<refs, editor, screen, dialogs>>

\* Mutant: a load that was superseded opens as well.
OpenImage_Superseded(e, c) ==
    /\ c.image
    /\ photo' = [photo EXCEPT ![e] = None]
    /\ loading' = loading \ {photo[e]}
    /\ OpenInEditor(photo[e], refs)
    /\ paused' = (pending' # <<>>)
    /\ UNCHANGED dialogs

OpenImage(e, c) ==
    /\ e \notin superseded \cup skipped
    /\ c.image
    /\ photo' = [photo EXCEPT ![e] = None]
    /\ loading' = loading \ {photo[e]}
    /\ OpenInEditor(photo[e], refs)
    /\ paused' = (pending' # <<>>)
    /\ UNCHANGED dialogs

\* Without an image a dialog is run, above one that is open; the rest of
\* imageLoaded() waits for it.
ShowError(e, c) ==
    /\ e \notin superseded \cup skipped
    /\ ~c.image
    /\ dialogs' = Append(dialogs, e)
    /\ UNCHANGED <<photo, loading, refs, editor, screen, paused>>

ImageLoaded ==
    /\ ended # <<>>
    /\ ended' = Tail(ended)
    /\ LET c == Head(ended)
           e == EntryOf(c) IN
       /\ Forget(e)
       /\ DiscardImage(e) \/ OpenImage(e, c) \/ ShowError(e, c)
    /\ UNCHANGED <<queue, worker, wanted, accepted, clicks>>

\* The user closes the newest dialog and its imageLoaded() goes on.
CloseDialog ==
    /\ dialogs # <<>>
    /\ dialogs' = Front(dialogs)
    /\ LET e == Last(dialogs) IN
       /\ photo' = [photo EXCEPT ![e] = None]
       /\ loading' = loading \ {photo[e]}
       /\ refs' = Drop(refs, photo[e], 1)
    /\ paused' = (pending # <<>>)
    /\ UNCHANGED <<pending, superseded, skipped, asked, delayed, thread, editor, screen,
                   wanted, accepted, clicks>>

-----------------------------------------------------------------------------
(* EditorPanel::armQuickPreviewWatchdog().                                 *)

\* The cover went away by itself.
WatchdogEnds ==
    /\ attempts # None
    /\ ~cover
    /\ attempts' = None
    /\ UNCHANGED <<loads, thread, loading, refs, editor, setup, attached, cover, coverOf,
                   dialogs, paused, wanted, accepted, clicks>>

\* openSelectedInEditor(): a second reference for a photo that is not open.
RefsToReopen == IF wanted = editor THEN refs ELSE Take(refs, wanted, 1)

\* The photo of the cover did not open: twice, the browser's selection is opened
\* again.  (The cover is never of the open photo, as setQuickPreview() refuses
\* one, so the branch that renders that photo again is not reached.)
WatchdogRetries ==
    /\ attempts # None /\ attempts < 2
    /\ cover
    /\ FileSelected(wanted, RefsToReopen, attempts + 1, {FALSE})
    /\ UNCHANGED <<dialogs, wanted, clicks>>

\* Then it only counts, and at the fourth time takes the cover away.
WatchdogGivesUp ==
    /\ attempts # None /\ attempts >= 2
    /\ cover
    /\ attempts' = IF attempts = 3 THEN None ELSE attempts + 1
    /\ cover' = (attempts # 3)
    /\ coverOf' = IF attempts = 3 THEN None ELSE coverOf
    /\ UNCHANGED <<loads, thread, loading, refs, editor, setup, attached, dialogs, paused,
                   wanted, accepted, clicks>>

-----------------------------------------------------------------------------
ThreadStep == TakeLoad \/ Decode \/ PostEnd \/ FinishConnector

Watchdog == WatchdogEnds \/ WatchdogRetries \/ WatchdogGivesUp

SetupStep == OpenPhaseB \/ EnableCrop \/ InitialImageArrived

Next ==
    \/ \E p \in Photos : Click(p)
    \/ \E s \in Slots : DelayedStart(s) \/ LateCover(s)
    \/ ThreadStep
    \/ ImageLoaded
    \/ CloseDialog
    \/ SetupStep
    \/ Watchdog

Spec == Init /\ [][Next]_vars

\* The decoding thread runs, the GUI loop delivers its callbacks and timers,
\* the deferred half of an opening proceeds, and a dialog is closed in the end.
Fairness ==
    /\ WF_vars(ThreadStep)
    /\ WF_vars(ImageLoaded)
    /\ \A s \in Slots : WF_vars(DelayedStart(s))
    /\ WF_vars(SetupStep)
    /\ WF_vars(CloseDialog)
    /\ WF_vars(Watchdog)

FairSpec == Spec /\ Fairness

-----------------------------------------------------------------------------
\* The variables keep their types.
TypeOK ==
    /\ pending \in Seq(Slots) /\ IsInjective(pending)
    /\ photo \in [Slots -> Photos \cup {None}]
    /\ superseded \cup skipped \cup asked \cup delayed \subseteq {s \in Slots : photo[s] # None}
    /\ delayed \subseteq Current
    /\ queue \in Seq(Slots)
    /\ worker \in [at : {"idle", "decoding", "done", "posted"}, slot : Slots \cup {None},
                   image : BOOLEAN]
    /\ ended \in Seq([slot : Slots, image : BOOLEAN])
    /\ loading \subseteq Photos
    /\ refs \in [Photos -> 0 .. MaxRefs]
    /\ editor \in Photos \cup {None}
    /\ setup \in {"none", "deferred", "waiting", "enabled", "painted", "cancelled"}
    /\ attached \in BOOLEAN /\ cover \in BOOLEAN /\ paused \in BOOLEAN
    /\ coverOf \in Photos \cup {None}
    /\ attempts \in 0 .. 3 \cup {None}
    /\ dialogs \in Seq(Slots)
    /\ {wanted, accepted} \subseteq Photos \cup {None}
    /\ clicks \in 0 .. MaxClicks

\* imageLoaded() looks its entry up by the photo: it finds the entry its own
\* connector was made for, although a photo can have several.
CallbackFindsItsOwn ==
    ended # <<>> =>
        /\ \E i \in DOMAIN pending : photo[pending[i]] = photo[Head(ended).slot]
        /\ EntryOf(Head(ended)) = Head(ended).slot

\* Only the newest load can still open: at most one is not superseded, and it
\* is the last of the list.
OnlyNewestIsLive == Current \subseteq (IF pending = <<>> THEN {} ELSE {Last(pending)})

\* The editor only ever opens the photo that fileSelected() accepted last: a
\* load a newer one superseded does not open, whenever it ends.
OldLoadNeverOpens == [][editor' # editor => editor' = accepted']_vars

\* A photo that is refused as "being opened" has a load that will clear the
\* mark, or an error dialog on the screen.
MarkIsCleared ==
    \A p \in loading : \E s \in Current \cup Elements(dialogs) : photo[s] = p

\* Every load and the editor hold a reference to their thumbnail: none is
\* released early, whatever was superseded or failed.
HeldWhileNeeded ==
    \A p \in Photos :
        LET holders == {s \in Slots : photo[s] = p}
            needed == Cardinality(holders) + (IF editor = p THEN 1 ELSE 0) IN
        refs[p] = MaxRefs \/ refs[p] >= needed

\* Background work waits only while a load is pending or its error is shown.
PauseHasAReason == paused => pending # <<>> \/ dialogs # <<>>

\* A photo that is being opened is marked so, and not loaded a second time.
OpeningIsMarked == \A s \in Current : photo[s] \in loading

\* A photo whose load was accepted is open in the end, unless it fails to
\* decode, another one is accepted, or its mark is lost: then the watchdog may
\* replace its load again and again.
AcceptedIsOpened ==
    \A p \in Photos \ Broken :
        (accepted = p) ~> (accepted # p \/ editor = p \/ ~OpeningIsMarked)

\* "The thumbnail placeholder must always be a short-lived transition state"
\* (src/rtgui/editorpanel.cc:5114): a cover goes away.
CoverGoesAway == cover ~> ~cover

\* So it does while every photo can be decoded and no mark is lost.
CoverGoesAwayIfMarked == cover ~> (~cover \/ ~OpeningIsMarked)

AtRest ==
    /\ pending = <<>> /\ ended = <<>> /\ worker.at = "idle" /\ dialogs = <<>>
    /\ attempts = None
    /\ setup \notin {"deferred", "waiting", "enabled"}

\* The photo clicked last is the one that stays open.
LastSelectionWins == AtRest => editor = wanted

\* A photo that stays open has been set up, shows its image and follows its edits.
OpenIsLive == AtRest /\ editor # None => setup = "painted" /\ attached

\* Once everything is at rest, the references taken for opening photos are the
\* editor's.
RefsAreReturned ==
    AtRest => \A p \in Photos : refs[p] = (IF editor = p THEN 1 ELSE 0)

\* The decoding thread writes to a connector only while it exists.
ConnectorIsThere == worker.at = "posted" => photo[worker.slot] # None
=============================================================================
