---------------------------- MODULE PreloadGate ----------------------------
(***************************************************************************)
(* Decoding ahead: the photos next to the open one are decoded by a        *)
(* preload thread, the clicked photo by the foreground thread, and a       *)
(* comparison view may decode a photo on a thread of its own               *)
(* (src/rtgui/filepanel.cc: RawLoadGate, PreloadManager, fileSelected(),   *)
(* loadInitialImageSerialized(), preloadAdjacent(), imageLoaded()).        *)
(*                                                                         *)
(* Two mutexes: the gate lets one RAW decode at a time and prefers the     *)
(* foreground; the manager holds the decoded photos, what is being decoded *)
(* and the marks by which a foreground load waits for a result instead of  *)
(* decoding again.  A section under one of the mutexes is one step, so the *)
(* threads interleave between the sections, inside fileSelected() too.     *)
(*                                                                         *)
(* A load is known by its generation; it is stale as soon as a newer click *)
(* is accepted.  Bytes are not counted: the cache holds MaxEntries photos, *)
(* and a photo of Oversize turns out too large for it once decoded.        *)
(***************************************************************************)
EXTENDS Naturals, Sequences, FiniteSets, SequencesExt

CONSTANTS
    Photos,      \* the photos of the folder
    Raw,         \* the RAW photos: their decoding is serialized
    Broken,      \* photos whose decoding may fail
    Oversize,    \* photos larger than PreloadManager::kMaxBytes when decoded
    Plans,       \* per photo, what getAdjacentEntriesAndRefresh() may plan around it
    Keeps,       \* may a retarget keep decoded photos that are wanted but not hot
    Delays,      \* {TRUE, FALSE} when a scrub may delay the start of a load
    None,        \* no photo, no load
    MaxEntries,  \* PreloadManager::kMaxEntries
    MaxClicks,   \* bound: clicks
    MaxEdits,    \* bound: edits of the open photo and its processings
    MaxAux       \* bound: loads on a thread of their own

ASSUME SetsAssumption ==
    /\ Raw \subseteq Photos /\ Broken \subseteq Photos /\ Oversize \subseteq Photos
    /\ None \notin Photos /\ Keeps \subseteq BOOLEAN /\ Delays \subseteq BOOLEAN
ASSUME BoundsAssumption ==
    /\ MaxEntries \in Nat \ {0}
    /\ {MaxClicks, MaxEdits, MaxAux} \subseteq Nat

Loads == 1 .. MaxClicks

ASSUME NoneAssumption == None \notin Loads

VARIABLES
    \* RawLoadGate
    owner,       \* activeOwner
    waiting,     \* foregroundWaiting
    first,       \* firstFramePendingFiles
    active,      \* editorActiveFiles
    lastFile,    \* lastForegroundFile
    quiet,       \* lastForegroundActivity is long enough ago
    since,       \* lastForegroundActivity is after the worker's gateCandidateStart
    deferred,    \* deferredForegroundFile until deferredForegroundUntil, else None
    \* PreloadManager
    plan,        \* wanted, hotWantedSet, hotWantedEntries, rawStrideMode,
                 \* rawStrideCanBypassDeferredForeground
    cache,       \* decoded photos
    loading,     \* the photo the worker is about to decode or decodes
    handoff,     \* foregroundHandoffSet
    recycle,     \* foregroundRecycleWantedSet
    held,        \* foregroundPendingSet
    worker,      \* the preload job: where it is and its photo
    retry,       \* rawGateDeferredUntil: RAW photos that wait for their retry
    \* FilePanel and the editor
    gui,         \* where fileSelected() is, its photo, was it being preloaded
    generation,  \* foregroundLoadGeneration_
    photo,       \* pendingLoad::thm of each load
    pending,     \* pendingLoads
    delayed,     \* loads whose delayedStartConn is connected
    queue,       \* loads that wait for the foreground thread
    fg,          \* the foreground thread: where it is, its load, its result
    ended,       \* end callbacks in the GUI loop: load and result
    marked,      \* photos with Thumbnail::imageLoading
    editor,      \* the open photo
    opening,     \* its openPhaseB() is still to come (deferredOpenConn_)
    anchor,      \* the photo of the idle that calls preloadAdjacent(), or None
    aux,         \* loadAuxiliaryInitialImage(): where its thread is
    clicks, edits, views  \* bound Click, Edit and EditorStarts, AuxAsks

gate == <<owner, waiting, first, active, lastFile, quiet, since, deferred>>
manager == <<plan, cache, loading, handoff, recycle, held>>
preloader == <<worker, retry>>
panel == <<gui, generation, photo, pending, delayed, ended, marked,
           editor, opening, anchor>>
thread == <<queue, fg>>
others == <<aux, clicks, edits, views>>
vars == <<gate, manager, preloader, panel, thread, others>>

NoPlan ==
    [wanted |-> <<>>, hot |-> {}, entries |-> <<>>, stride |-> FALSE, bypass |-> FALSE]
Off == [at |-> "off", photo |-> None]
IdleThread == [at |-> "idle", load |-> None, image |-> FALSE]
IdleGui == [at |-> "idle", photo |-> None, preloading |-> FALSE]

-----------------------------------------------------------------------------
Init ==
    /\ owner = "None" /\ waiting = 0 /\ first = {} /\ active = {}
    /\ lastFile = None /\ quiet = TRUE /\ since = FALSE /\ deferred = None
    /\ plan = NoPlan /\ cache = {} /\ loading = None
    /\ handoff = {} /\ recycle = {} /\ held = {}
    /\ worker = Off /\ retry = {}
    /\ gui = IdleGui /\ generation = 0 /\ photo = [l \in Loads |-> None]
    /\ pending = {} /\ delayed = {} /\ queue = <<>> /\ fg = IdleThread /\ ended = <<>>
    /\ marked = {} /\ editor = None /\ opening = FALSE /\ anchor = None
    /\ aux = "idle" /\ clicks = 0 /\ edits = 0 /\ views = 0

-----------------------------------------------------------------------------
(* The gate.                                                               *)

\* lastForegroundActivity = now()
Activity == quiet' = FALSE /\ since' = TRUE

\* RawLoadGate::noteForegroundIntent()
NoteIntent(p) == Activity /\ lastFile' = p /\ deferred' = None

\* preloadReadinessLocked(): neither busy nor too soon.
Ready(withEditor) ==
    /\ owner = "None" /\ waiting = 0 /\ first = {}
    /\ withEditor => active = {}
    /\ quiet

\* foregroundPressureSince(): the preload of p has to make way for another photo.
Pressed(p) ==
    /\ \/ waiting > 0 \/ owner = "Foreground" \/ first # {}
       \/ (p \in Raw /\ active # {})
       \/ since
    /\ lastFile # p

\* release(): the end of a foreground lease counts as activity.
Release(foreground) ==
    /\ owner' = "None"
    /\ IF foreground THEN Activity ELSE UNCHANGED <<quiet, since>>

-----------------------------------------------------------------------------
(* The manager.                                                            *)

Without(s, p) == SelectSeq(s, LAMBDA q : q # p)

\* forgetWantedLocked()
Forget(p) ==
    [plan EXCEPT !.wanted = Without(@, p), !.hot = @ \ {p}, !.entries = Without(@, p)]

\* keepOnlyForegroundWantedLocked()
KeepOnly(p) ==
    [plan EXCEPT !.wanted = <<p>>, !.hot = {p},
                 !.entries = SelectSeq(@, LAMBDA q : q = p)]

\* priorityIndexLocked(): a photo that is not wanted comes last.
Priority(p) ==
    IF p \in ToSet(plan.wanted)
    THEN CHOOSE i \in DOMAIN plan.wanted : plan.wanted[i] = p
    ELSE Len(plan.wanted) + 1

Lower(p) == {q \in cache : Priority(q) > Priority(p)}

\* hasRoomForLocked(), with the estimate that the plan was made of.
HasRoom(p) ==
    /\ p \in ToSet(plan.wanted)
    /\ Cardinality(cache) - Cardinality(Lower(p)) < MaxEntries

\* The caches after p comes in and the last of victims goes when it is full; none
\* when there is no room.
Admit(p, victims) ==
    IF p \in Oversize THEN {}
    ELSE IF Cardinality(cache) < MaxEntries THEN {cache \cup {p}}
    ELSE {(cache \ {v}) \cup {p} :
            v \in {v \in victims : \A q \in victims : Priority(q) <= Priority(v)}}

\* take(), and the end of takeOrWaitForLoading() that finds the photo.
TakeCached(p) ==
    /\ cache' = cache \ {p}
    /\ plan' = Forget(p)
    /\ handoff' = handoff \ {p}
    /\ recycle' = recycle \ {p}

\* cacheDecodedIfHotWanted(): the caches it may leave, none when it refuses.
Recycled(p) ==
    IF p \in cache \/ p \notin plan.hot \cup recycle THEN {}
    ELSE IF p \in recycle THEN Admit(p, cache)
    ELSE IF HasRoom(p) THEN Admit(p, Lower(p)) ELSE {}

Stale(l) == l # generation

-----------------------------------------------------------------------------
(* The preload job, on the one thread of AdjacentPreloadExecutor.          *)

At(where) == worker' = [worker EXCEPT !.at = where]

\* The photos of the plan that the worker may decode now, and those that it may
\* decode when their retry has come.
Wanted(p) == p \in plan.hot /\ p \notin cache \cup held
Candidates(S) == SelectSeq(plan.entries, LAMBDA p : p \in S /\ Wanted(p) /\ p \notin retry)
Waits(p) == p \in Raw /\ p \in retry /\ Wanted(p) /\ HasRoom(p)
SomeWaits == \E p \in ToSet(plan.entries) : Waits(p)

\* The first of the plan goes first; then RAW before the others.
HeadWaits == plan.entries # <<>> /\ Waits(Head(plan.entries))
Candidate ==
    LET all == Candidates(Photos)  raws == Candidates(Raw)  rest == Candidates(Photos \ Raw)
    IN  IF all # <<>> /\ Head(all) = Head(plan.entries) THEN Head(all)
        ELSE IF raws # <<>> THEN Head(raws)
        ELSE IF rest # <<>> /\ ~(plan.stride /\ SomeWaits) THEN Head(rest)
        ELSE None

\* What an earlier pass left in `loading` is cleared first.
ClearLeft == loading' = IF loading \in plan.hot \ cache THEN loading ELSE None

\* The candidate, dropped when there is no room for it.
Pick ==
    /\ worker.at \in {"start", "pick"} /\ ~HeadWaits /\ Candidate # None
    /\ ClearLeft
    /\ IF HasRoom(Candidate)
       THEN worker' = [at |-> "check", photo |-> Candidate] /\ UNCHANGED plan
       ELSE At("pick") /\ plan' = Forget(Candidate)
    /\ UNCHANGED <<gate, cache, handoff, recycle, held, retry, panel, thread, others>>

\* Nothing to decode now or later: the job ends.
Finish ==
    /\ worker.at \in {"start", "pick"} /\ Candidate = None /\ ~SomeWaits
    /\ loading' = None /\ worker' = Off /\ retry' = {}
    /\ UNCHANGED <<gate, plan, cache, handoff, recycle, held, panel, thread, others>>

\* gateCandidateStart; a RAW makes way for a delayed foreground load of another
\* photo unless the plan may go ahead of it, the others for the foreground.
Check ==
    LET p == worker.photo
        bypass == plan.bypass /\ plan.entries # <<>> /\ Head(plan.entries) = p
    IN  /\ worker.at = "check"
        /\ since' = FALSE
        /\ IF p \in Raw
           THEN IF deferred \notin {None, p} /\ ~bypass
                THEN At("pick") /\ retry' = retry \cup {p}
                ELSE At("acquire") /\ UNCHANGED retry
           ELSE At(IF Ready(FALSE) THEN "pressure" ELSE "rest") /\ UNCHANGED retry
        /\ UNCHANGED <<owner, waiting, first, active, lastFile, quiet, deferred, manager,
                       panel, thread, others>>

\* tryAcquirePreload()
Acquire ==
    /\ worker.at = "acquire"
    /\ IF Ready(TRUE)
       THEN owner' = "Preload" /\ At("pressure") /\ UNCHANGED retry
       ELSE At("pick") /\ retry' = retry \cup {worker.photo} /\ UNCHANGED owner
    /\ UNCHANGED <<waiting, first, active, lastFile, quiet, since, deferred, manager,
                   panel, thread, others>>

\* The two looks at the foreground, before and after `loading` is set.
Pressure ==
    /\ \/ worker.at = "pressure" /\ At(IF Pressed(worker.photo) THEN "release" ELSE "advertise")
       \/ worker.at = "again" /\ At(IF Pressed(worker.photo) THEN "retract" ELSE "decode")
    /\ UNCHANGED <<gate, manager, retry, panel, thread, others>>

\* From here a foreground load of the photo waits for this one.
Advertise ==
    LET p == worker.photo
    IN  /\ worker.at = "advertise"
        /\ IF p \in plan.hot \ cache
           THEN loading' = p /\ At("again")
           ELSE At("release") /\ UNCHANGED loading
        /\ UNCHANGED <<gate, plan, cache, handoff, recycle, held, retry, panel, thread, others>>

Retract ==
    /\ worker.at = "retract"
    /\ loading' = IF loading = worker.photo THEN None ELSE loading
    /\ At("release")
    /\ UNCHANGED <<gate, plan, cache, handoff, recycle, held, retry, panel, thread, others>>

\* The lease goes; waitForPreloadWake().
Yield ==
    /\ worker.at = "release"
    /\ owner' = IF worker.photo \in Raw THEN "None" ELSE owner
    /\ At("rest")
    /\ UNCHANGED <<waiting, first, active, lastFile, quiet, since, deferred, manager, retry,
                   panel, thread, others>>

\* InitialImage::load() returns, and the lease goes.
Decode ==
    /\ worker.at = "decode"
    /\ \/ At("store")
       \/ worker.photo \in Broken /\ At("failed")
    /\ owner' = IF worker.photo \in Raw THEN "None" ELSE owner
    /\ UNCHANGED <<waiting, first, active, lastFile, quiet, since, deferred, manager, retry,
                   panel, thread, others>>

Failed ==
    /\ worker.at = "failed"
    /\ plan' = Forget(worker.photo)
    /\ loading' = IF loading = worker.photo THEN None ELSE loading
    /\ At("pick")
    /\ UNCHANGED <<gate, cache, handoff, recycle, held, retry, panel, thread, others>>

\* Mutant: whether a foreground load waits is not asked.
Store_Unasked ==
    LET p == worker.photo
        room == IF p \in plan.hot \ cache THEN Admit(p, Lower(p)) ELSE {}
    IN  /\ worker.at = "store"
        /\ loading' = IF loading = p THEN None ELSE loading
        /\ \/ /\ room = {}
              /\ plan' = Forget(p) /\ handoff' = handoff \ {p} /\ At("pick")
              /\ UNCHANGED cache
           \/ /\ cache' \in room
              /\ At("rest")
              /\ UNCHANGED <<plan, handoff>>
        /\ UNCHANGED <<gate, recycle, held, retry, panel, thread, others>>

\* The decoded photo goes to the cache, unless nobody wants it or it has no room.
Store ==
    LET p == worker.photo
        awaited == p \in handoff
        unwanted == p \in cache \/ (~awaited /\ p \notin plan.hot)
        room == IF awaited THEN Admit(p, cache)
                ELSE IF p \in ToSet(plan.wanted) THEN Admit(p, Lower(p)) ELSE {}
    IN  /\ worker.at = "store"
        /\ loading' = IF loading = p THEN None ELSE loading
        /\ \/ /\ unwanted
              /\ handoff' = handoff \ {p} /\ At("pick")
              /\ UNCHANGED <<plan, cache>>
           \/ /\ ~unwanted /\ room = {}
              /\ plan' = Forget(p) /\ handoff' = handoff \ {p} /\ At("pick")
              /\ UNCHANGED cache
           \/ /\ ~unwanted /\ cache' \in room
              /\ At("rest")
              /\ UNCHANGED <<plan, handoff>>
        /\ UNCHANGED <<gate, recycle, held, retry, panel, thread, others>>

Rest ==
    /\ worker.at = "rest" /\ At("pick")
    /\ UNCHANGED <<gate, manager, retry, panel, thread, others>>

-----------------------------------------------------------------------------
(* The foreground thread: loadInitialImageSerialized().                    *)

Photo == photo[fg.load]
FgAt(where) == fg' = [fg EXCEPT !.at = where]
Leased ==
    /\ fg.load # None /\ Photo \in Raw
    /\ fg.at \in {"gated", "asks again", "claim", "decode", "decoded"}

\* Mutant: the lease stays.
EndLoad_Leased(image, clear) ==
    /\ fg' = IdleThread
    /\ ended' = Append(ended, [load |-> fg.load, image |-> image])
    /\ recycle' = IF clear THEN recycle \ {Photo} ELSE recycle
    /\ UNCHANGED <<owner, quiet, since>>

\* The load ends with or without an image; its lease goes, and the end callback is
\* posted.  A stale load without an image takes its recycle target back.
EndLoad(image, clear) ==
    /\ fg' = IdleThread
    /\ ended' = Append(ended, [load |-> fg.load, image |-> image])
    /\ recycle' = IF clear THEN recycle \ {Photo} ELSE recycle
    /\ IF Leased THEN Release(TRUE) ELSE UNCHANGED <<owner, quiet, since>>

TakeLoad ==
    /\ fg.at = "idle" /\ queue # <<>>
    /\ fg' = [at |-> "enter", load |-> Head(queue), image |-> FALSE]
    /\ queue' = Tail(queue)
    /\ UNCHANGED <<gate, manager, preloader, panel, others>>

\* Mutant: it leaves the gate without being counted out.
GiveUp_Counted ==
    /\ fg.at \in {"enter", "gate", "waiting", "gated", "claim"} /\ Stale(fg.load)
    /\ EndLoad(FALSE, TRUE)
    /\ UNCHANGED <<waiting, first, active, lastFile, deferred, plan, cache, loading, handoff,
                   held, preloader, gui, generation, photo, pending, delayed, marked, editor,
                   opening, anchor, queue, others>>

\* A stale load is given up at any of the points that ask.
GiveUp ==
    /\ fg.at \in {"enter", "gate", "waiting", "gated", "claim"} /\ Stale(fg.load)
    /\ EndLoad(FALSE, TRUE)
    /\ waiting' = IF fg.at = "waiting" THEN waiting - 1 ELSE waiting
    /\ UNCHANGED <<first, active, lastFile, deferred, plan, cache, loading, handoff, held,
                   preloader, gui, generation, photo, pending, delayed, marked, editor, opening,
                   anchor, queue, others>>

\* takeOrWaitForLoading(), before and after the gate: take the photo from the cache,
BeforeGate == fg.at \in {"enter", "asks"}
AfterGate == fg.at \in {"gated", "asks again"}
HandOver ==
    /\ BeforeGate \/ AfterGate
    /\ Photo \in cache /\ TakeCached(Photo)
    /\ fg' = IdleThread
    /\ ended' = Append(ended, [load |-> fg.load, image |-> TRUE])
    /\ IF Leased THEN Release(TRUE) ELSE UNCHANGED <<owner, quiet, since>>
    /\ UNCHANGED <<waiting, first, active, lastFile, deferred, loading, held, preloader, gui,
                   generation, photo, pending, delayed, marked, editor, opening, anchor, queue, others>>

\* or wait while it is being decoded, which it marks, or is to be handed on,
AskHandOver ==
    /\ BeforeGate \/ AfterGate
    /\ Photo \notin cache
    /\ loading = Photo \/ Photo \in recycle
    /\ ~Stale(fg.load)
    /\ FgAt(IF BeforeGate THEN "asks" ELSE "asks again")
    /\ handoff' = IF loading = Photo THEN handoff \cup {Photo} ELSE handoff
    /\ UNCHANGED <<gate, plan, cache, loading, recycle, held, preloader, panel, queue, others>>

\* or go on without it.
NoHandOver ==
    /\ BeforeGate \/ AfterGate
    /\ Photo \notin cache
    /\ (loading # Photo /\ Photo \notin recycle) \/ Stale(fg.load)
    /\ handoff' = handoff \ {Photo}
    /\ FgAt(IF BeforeGate THEN "gate" ELSE "claim")
    /\ UNCHANGED <<gate, plan, cache, loading, recycle, held, preloader, panel, queue, others>>

\* acquireForeground(): a RAW waits for the gate, the others need none.
AskGate ==
    /\ fg.at = "gate" /\ ~Stale(fg.load)
    /\ IF Photo \in Raw
       THEN FgAt("waiting") /\ waiting' = waiting + 1 /\ Activity
       ELSE FgAt("gated") /\ UNCHANGED <<waiting, quiet, since>>
    /\ UNCHANGED <<owner, first, active, lastFile, deferred, manager, preloader, panel, queue,
                   others>>

EnterGate ==
    /\ fg.at = "waiting" /\ owner = "None" /\ ~Stale(fg.load)
    /\ owner' = "Foreground" /\ waiting' = waiting - 1 /\ deferred' = None
    /\ FgAt("gated")
    /\ UNCHANGED <<first, active, lastFile, quiet, since, manager, preloader, panel, queue,
                   others>>

Claim ==
    /\ fg.at = "claim" /\ ~Stale(fg.load) /\ FgAt("decode")
    /\ UNCHANGED <<gate, manager, preloader, panel, queue, others>>

DecodeLoad ==
    /\ fg.at = "decode"
    /\ \E image \in {TRUE} \cup (IF Photo \in Broken THEN {FALSE} ELSE {}) :
         fg' = [fg EXCEPT !.at = "decoded", !.image = image]
    /\ UNCHANGED <<gate, manager, preloader, panel, queue, others>>

\* A result that came too late goes to the cache when somebody wants it there.
Decoded ==
    /\ fg.at = "decoded"
    /\ \/ /\ fg.image /\ Stale(fg.load)
          /\ \/ cache' \in Recycled(Photo) /\ EndLoad(FALSE, TRUE)
             \/ Recycled(Photo) = {} /\ EndLoad(TRUE, TRUE) /\ UNCHANGED cache
       \/ /\ ~(fg.image /\ Stale(fg.load))
          /\ EndLoad(fg.image, FALSE) /\ UNCHANGED cache
    /\ UNCHANGED <<waiting, first, active, lastFile, deferred, plan, loading, handoff, held,
                   preloader, gui, generation, photo, pending, delayed, marked, editor, opening,
                   anchor, queue, others>>

-----------------------------------------------------------------------------
(* The GUI thread.                                                         *)

GuiIdle == gui.at = "idle"

\* EditorPanel::open() with the close() of the photo before: the RAW gate hears that
\* the old photo is no longer processed and that the new one waits for its first frame.
Open(p) ==
    /\ editor' = p /\ opening' = TRUE
    /\ active' = active \ {editor}
    /\ first' = (first \ {editor}) \cup ({p} \cap Raw)
    /\ Activity /\ deferred' = None
    /\ lastFile' = IF p \in Raw \/ editor = None THEN p ELSE editor

byOpen == <<first, active, lastFile, quiet, since, deferred, editor, opening>>

\* fileSelected() up to the new generation.
Click(p) ==
    LET again == \E l \in pending : photo[l] = p /\ Stale(l)
        accepted == editor # p /\ p \notin marked
    IN  /\ GuiIdle /\ clicks < MaxClicks /\ clicks' = clicks + 1
        /\ NoteIntent(p)
        /\ recycle' = IF editor # p /\ p \in Raw /\ again THEN recycle \cup {p} ELSE recycle
        /\ IF accepted
           THEN /\ marked' = marked \cup {p}
                /\ generation' = generation + 1
                /\ gui' = [at |-> "prioritize", photo |-> p, preloading |-> FALSE]
           ELSE UNCHANGED <<marked, generation, gui>>
        /\ UNCHANGED <<owner, waiting, first, active, plan, cache, loading, handoff, held,
                       preloader, photo, pending, delayed, ended, editor, opening, anchor, thread, aux, edits, views>>

\* prioritizeForeground(): keep a running preload of the photo, drop a planned one.
Prioritize ==
    LET p == gui.photo
    IN  /\ gui.at = "prioritize"
        /\ gui' = [gui EXCEPT !.at = "take", !.preloading = loading = p]
        /\ plan' = IF loading = p THEN KeepOnly(p) ELSE Forget(p)
        /\ handoff' = IF loading = p THEN handoff \cup {p} ELSE handoff
        /\ UNCHANGED <<gate, cache, loading, recycle, held, preloader, generation, photo,
                       pending, delayed, ended, marked, editor, opening, anchor, thread, others>>

TakeDecoded ==
    /\ gui.at = "take"
    /\ IF gui.photo \in cache
       THEN TakeCached(gui.photo) /\ gui' = [gui EXCEPT !.at = "open"]
       ELSE gui' = [gui EXCEPT !.at = "enqueue"] /\ UNCHANGED <<plan, cache, handoff, recycle>>
    /\ UNCHANGED <<gate, loading, held, preloader, generation, photo, pending, delayed, ended,
                   marked, editor, opening, anchor, thread, others>>

\* supersedePendingSingleEditorLoads(): the load before loses the mark of its photo, and
\* a load that did not start is deleted.
Previous == {l \in pending : l = generation - 1}
Unstarted == {photo[l] : l \in delayed}

OpenDecoded ==
    LET p == gui.photo
    IN  /\ gui.at = "open"
        /\ pending' = pending \ delayed /\ held' = held \ Unstarted /\ delayed' = {}
        /\ marked' = marked \ ({photo[l] : l \in Previous} \cup {p})
        /\ Open(p)
        /\ anchor' = p /\ gui' = IdleGui
        /\ UNCHANGED <<owner, waiting, plan, cache, loading, handoff, recycle,
                       preloader, generation, photo, ended, thread, others>>

\* The new entry of pendingLoads.  In a scrub a RAW keeps the preloads of others off.
Enqueue ==
    LET p == gui.photo
    IN  /\ gui.at = "enqueue"
        /\ \E delay \in Delays :
             /\ deferred' = IF p \notin Raw THEN deferred ELSE IF delay THEN p ELSE None
             /\ gui' = [gui EXCEPT !.at = IF delay THEN "delay" ELSE "start"]
        /\ photo' = [photo EXCEPT ![generation] = p]
        /\ pending' = (pending \ delayed) \cup {generation}
        /\ held' = (held \ Unstarted) \cup {p}
        /\ delayed' = {}
        /\ marked' = marked \ {photo[l] : l \in Previous}
        /\ UNCHANGED <<owner, waiting, first, active, lastFile, quiet, since, plan, cache,
                       loading, handoff, recycle, preloader, generation, ended, editor, opening, anchor,
                       thread, others>>

\* Its load starts now, or after a delay unless its photo is already being preloaded.
Start ==
    LET p == gui.photo
        now == gui.at = "start" \/ (p \in Raw /\ (p \in cache \/ loading = p))
    IN  /\ gui.at \in {"start", "delay"}
        /\ IF now
           THEN queue' = Append(queue, generation) /\ UNCHANGED delayed
           ELSE delayed' = {generation} /\ UNCHANGED queue
        /\ anchor' = IF gui.preloading \/ loading = p THEN anchor ELSE p
        /\ gui' = IdleGui
        /\ UNCHANGED <<gate, manager, preloader, generation, photo, pending, ended, marked,
                       editor, opening, fg, others>>

\* The timer of a delayed load: the time is over, or the photo is being preloaded.
StartDelayed(l) ==
    LET p == photo[l]
    IN  /\ GuiIdle /\ l \in delayed
        /\ \/ p \in Raw /\ NoteIntent(p)
           \/ /\ p \notin Raw \/ p \in cache \/ loading = p
              /\ UNCHANGED <<quiet, since, lastFile, deferred>>
        /\ delayed' = delayed \ {l} /\ queue' = Append(queue, l)
        /\ UNCHANGED <<owner, waiting, first, active, manager, preloader, gui, generation,
                       photo, pending, ended, marked, editor, opening, anchor, fg, others>>

\* imageLoaded(): open the photo, report that it cannot be loaded, or put the result
\* of a superseded load by.
ImageLoaded ==
    LET l == Head(ended).load  image == Head(ended).image  p == photo[l]
    IN  /\ GuiIdle /\ ended # <<>>
        /\ ended' = Tail(ended)
        /\ pending' = pending \ {l} /\ held' = held \ {p} /\ marked' = marked \ {p}
        /\ \/ /\ Stale(l)
              /\ \/ image /\ cache' \in Recycled(p) /\ recycle' = recycle \ {p}
                 \/ (~image \/ Recycled(p) = {}) /\ UNCHANGED <<cache, recycle>>
              /\ UNCHANGED <<byOpen, anchor>>
           \/ /\ ~Stale(l) /\ image
              /\ Open(p) /\ recycle' = recycle \ {p} /\ anchor' = p
              /\ UNCHANGED cache
           \/ /\ ~Stale(l) /\ ~image
              /\ UNCHANGED <<byOpen, anchor, cache, recycle>>
        /\ UNCHANGED <<owner, waiting, plan, loading, handoff, preloader, gui,
                       generation, photo, delayed, thread, others>>

\* preloadAdjacent(): decoded photos outside the new plan go, and a job starts when
\* there is something to decode.
PreloadAdjacent ==
    /\ GuiIdle /\ anchor # None /\ anchor' = None
    /\ \E new \in Plans[anchor], keep \in Keeps :
         /\ plan' = new
         /\ cache' = IF new = plan THEN cache
                     ELSE cache \cap (new.hot \cup (IF keep THEN ToSet(new.wanted) ELSE {}))
    /\ worker' = IF worker = Off /\ \E p \in ToSet(plan'.entries) :
                        p \in plan'.hot \ cache' /\ HasRoom(p)'
                 THEN [at |-> "start", photo |-> None] ELSE worker
    /\ UNCHANGED <<gate, loading, handoff, recycle, held, retry, gui, generation, photo,
                   pending, delayed, ended, marked, editor, opening, thread, others>>

\* setRawLoadFirstFramePending() from the first preview frame.
FirstFrame ==
    /\ GuiIdle /\ editor \in first
    /\ first' = first \ {editor}
    /\ UNCHANGED <<owner, waiting, active, lastFile, quiet, since, deferred, manager, preloader,
                   panel, thread, others>>

\* The second half of the opening: it reports the photo to the gate once more.
OpenPhaseB ==
    /\ GuiIdle /\ opening /\ opening' = FALSE
    /\ NoteIntent(editor)
    /\ UNCHANGED <<owner, waiting, first, active, manager, preloader, gui, generation, photo,
                   pending, delayed, ended, marked, editor, anchor, thread, others>>

\* panelChanged(): an edit is reported without the name of the photo.
Edit ==
    /\ GuiIdle /\ editor # None /\ edits < MaxEdits /\ edits' = edits + 1
    /\ NoteIntent(None)
    /\ UNCHANGED <<owner, waiting, first, active, manager, preloader, panel, thread, aux,
                   clicks, views>>

\* setProgressState() of its processing thread: setRawLoadEditorActivity().
EditorStarts ==
    /\ editor # None /\ editor \notin active /\ edits < MaxEdits
    /\ active' = active \cup {editor} /\ edits' = edits + 1
    /\ Activity /\ lastFile' = editor
    /\ UNCHANGED <<owner, waiting, first, deferred, manager, preloader, panel, thread, aux, clicks, views>>

EditorSettles ==
    /\ editor \in active
    /\ active' = active \ {editor}
    /\ Activity /\ lastFile' = editor
    /\ UNCHANGED <<owner, waiting, first, deferred, manager, preloader, panel, thread, others>>

-----------------------------------------------------------------------------
(* loadAuxiliaryInitialImage() of a RAW, on a thread of its own: the       *)
(* comparison view of the editor, or the levelling of the filmstrip.       *)

AuxAsks ==
    /\ aux = "idle" /\ views < MaxAux
    /\ aux' = "waiting" /\ views' = views + 1 /\ waiting' = waiting + 1 /\ Activity
    /\ UNCHANGED <<owner, first, active, lastFile, deferred, manager, preloader, panel, thread,
                   clicks, edits>>

\* It was canceled meanwhile.
AuxCanceled ==
    /\ aux = "waiting" /\ aux' = "idle" /\ waiting' = waiting - 1
    /\ UNCHANGED <<owner, first, active, lastFile, quiet, since, deferred, manager, preloader,
                   panel, thread, clicks, edits, views>>

AuxEnters ==
    /\ aux = "waiting" /\ owner = "None"
    /\ owner' = "Foreground" /\ waiting' = waiting - 1 /\ deferred' = None /\ aux' = "decode"
    /\ UNCHANGED <<first, active, lastFile, quiet, since, manager, preloader, panel, thread,
                   clicks, edits, views>>

AuxEnds ==
    /\ aux = "decode" /\ aux' = "idle" /\ Release(TRUE)
    /\ UNCHANGED <<waiting, first, active, lastFile, deferred, manager, preloader, panel,
                   thread, clicks, edits, views>>

-----------------------------------------------------------------------------
(* Time.                                                                   *)

QuietComes ==
    /\ ~quiet /\ quiet' = TRUE
    /\ UNCHANGED <<owner, waiting, first, active, lastFile, since, deferred, manager, preloader,
                   panel, thread, others>>

DeferralEnds ==
    /\ deferred # None /\ deferred' = None
    /\ UNCHANGED <<owner, waiting, first, active, lastFile, quiet, since, manager, preloader,
                   panel, thread, others>>

RetryComes ==
    /\ retry # {} /\ retry' = {}
    /\ UNCHANGED <<gate, manager, worker, panel, thread, others>>

-----------------------------------------------------------------------------
WorkerStep ==
    \/ Pick \/ Finish \/ Check \/ Acquire \/ Pressure \/ Advertise \/ Retract \/ Yield
    \/ Decode \/ Failed \/ Store \/ Rest

ThreadStep ==
    \/ TakeLoad \/ GiveUp \/ HandOver \/ AskHandOver \/ NoHandOver \/ AskGate \/ EnterGate
    \/ Claim \/ DecodeLoad \/ Decoded

SelectStep == Prioritize \/ TakeDecoded \/ OpenDecoded \/ Enqueue \/ Start
GuiStep ==
    \/ SelectStep \/ ImageLoaded \/ PreloadAdjacent \/ FirstFrame \/ OpenPhaseB \/ Edit
    \/ \E l \in Loads : StartDelayed(l)

EditorStep == EditorStarts \/ EditorSettles
AuxStep == AuxAsks \/ AuxCanceled \/ AuxEnters \/ AuxEnds
Time == QuietComes \/ DeferralEnds \/ RetryComes

Next ==
    \/ \E p \in Photos : Click(p)
    \/ WorkerStep \/ ThreadStep \/ GuiStep \/ EditorStep \/ AuxStep \/ Time

Spec == Init /\ [][Next]_vars

\* Threads and the GUI loop go on, decoding and processing end, and time passes.  Nothing
\* obliges the user to click, to edit or to compare.
Fairness ==
    /\ WF_vars(WorkerStep) /\ WF_vars(ThreadStep)
    /\ WF_vars(SelectStep) /\ WF_vars(ImageLoaded) /\ WF_vars(PreloadAdjacent)
    /\ WF_vars(FirstFrame) /\ WF_vars(OpenPhaseB) /\ WF_vars(EditorSettles)
    /\ \A l \in Loads : WF_vars(StartDelayed(l))
    /\ WF_vars(AuxEnters) /\ WF_vars(AuxEnds)
    /\ WF_vars(QuietComes) /\ WF_vars(DeferralEnds) /\ WF_vars(RetryComes)

FairSpec == Spec /\ Fairness

-----------------------------------------------------------------------------
TypeOK ==
    /\ owner \in {"None", "Preload", "Foreground"} /\ waiting \in 0 .. 2
    /\ first \subseteq Raw /\ active \subseteq Photos
    /\ lastFile \in Photos \cup {None} /\ deferred \in Raw \cup {None}
    /\ {quiet, since, opening} \subseteq BOOLEAN
    /\ ToSet(plan.wanted) \subseteq Photos /\ plan.hot \subseteq Photos
    /\ ToSet(plan.entries) \subseteq plan.hot
    /\ cache \subseteq Photos /\ Cardinality(cache) <= MaxEntries
    /\ loading \in Photos \cup {None}
    /\ handoff \subseteq Photos /\ recycle \subseteq Raw /\ held \subseteq Photos
    /\ retry \subseteq Raw
    /\ generation \in 0 .. MaxClicks
    /\ pending \subseteq 1 .. generation /\ delayed \subseteq pending
    /\ marked \subseteq Photos
    /\ editor \in Photos \cup {None} /\ anchor \in Photos \cup {None}

\* The threads that hold a lease of the gate, and those in acquireForeground().
Holders ==
    {w \in {"worker"} : worker.photo \in Raw /\ worker.at \in
        {"pressure", "advertise", "again", "retract", "release", "decode"}}
    \cup {w \in {"foreground"} : Leased}
    \cup {w \in {"aux"} : aux = "decode"}
Waiters ==
    {w \in {"foreground"} : fg.at = "waiting"} \cup {w \in {"aux"} : aux = "waiting"}

\* RAW decodes are serialized, and the gate never keeps a lease or a waiting
\* foreground load that nobody has: either would keep everybody out for ever.
GateAgrees ==
    /\ Cardinality(Holders) = (IF owner = "None" THEN 0 ELSE 1)
    /\ waiting = Cardinality(Waiters)

\* `loading` names a photo only while the worker is on its way through the decoding of
\* that photo: a foreground load waits as long as it does.
LoadingIsDecoded ==
    loading # None =>
        worker.photo = loading /\ worker.at \in {"again", "retract", "decode", "store", "failed"}

\* The photo clicked last is never decoded by both threads at once, whatever way the
\* preload of it began.
ClickedIsDecodedOnce ==
    ~(/\ fg.at = "decode" /\ worker.at = "decode" /\ Photo = worker.photo
      /\ ~Stale(fg.load))

\* A RAW photo that its preload has decoded, in the cache or on the way to it, is not
\* decoded again by the load of the newest click: the worker gives the gate back before it
\* stores the result, so only `loading` holds the load in between.
RawIsDecodedOnce ==
    /\ fg.at = "decode" /\ Photo \in Raw /\ ~Stale(fg.load)
    => Photo \notin cache /\ ~(worker.photo = Photo /\ worker.at \in {"decode", "store"})

\* A foreground load that waits for a preload gets the result: a preload that was decoded
\* without error, and is not too large, goes to the cache as long as the load is the newest.
AwaitedIsKept ==
    [][ /\ worker.at = "store" /\ worker'.at # "store"
        /\ fg.at \in {"asks", "asks again"} /\ Photo = worker.photo /\ Photo \in handoff
        /\ ~Stale(fg.load) /\ Photo \notin Oversize
        => worker.photo \in cache' ]_vars

\* Every load that was accepted ends, with its photo or without: neither the wait for the
\* gate nor the wait for a preload of the photo goes on for ever.  A photo that a
\* superseded load was to hand on is the exception that the next property shows.
LoadEnds == \A l \in Loads : l \in pending ~> l \notin pending \/ photo[l] \in recycle

\* The same without the exception: whatever a load waits for comes or is given up.
WaitIsAnswered == \A l \in Loads : l \in pending ~> l \notin pending

\* The preload job ends: the photos it has to wait with get their turn once the editor
\* has painted, or nobody wants them any more.
PreloaderRests == worker.at # "off" ~> worker.at = "off"

\* No preload starts its RAW decoding while the newest click waits, for a RAW photo of
\* its own, behind a load that still runs.
QueuedGoesFirst ==
    [][ owner' = "Preload" /\ owner = "None" /\ fg.at # "idle"
        => \A i \in DOMAIN queue : Stale(queue[i]) \/ photo[queue[i]] \notin Raw ]_vars
=============================================================================
