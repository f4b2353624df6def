----------------------------- MODULE MCThumbnails -----------------------------
(***************************************************************************)
(* Thumbnails: the table of ThumbnailCache, the cells of EntryImages (Grid, *)
(* and Crowd with renderings that fail) and the previews of QueuePreviews. *)
(* They share nothing; a behaviour is one of one of them, so that their    *)
(* states add up and are not multiplied.                                   *)
(***************************************************************************)
EXTENDS ThumbnailCache, TLC

CONSTANTS
    browser, deleter, photo, small,
    Cells, RawCells, Sizes, Workers, MaxRetries,
    Acts, CrowdActs, MaxOps, MaxCrowdOps,
    Photos, Threads, Overlap, MaxResizes

VARIABLES
    entry, renderings, worker, images, idlePending, paused, timers, dirty,
    hover, applying, ops, met, caught,                  \* EntryImages
    life, size, preview, jobs, thread, stopped, starting, resizes,
                                                        \* QueuePreviews
    acts                                                \* which of them acts

cellVars == <<entry, renderings, worker, images, idlePending, paused, timers,
              dirty, hover, applying, ops, met, caught>>

previewVars == <<life, size, preview, jobs, thread, stopped, starting, resizes>>

Grid == INSTANCE EntryImages WITH
    Entries <- Cells, RawEntries <- RawCells, Faults <- FALSE,
    jobs <- renderings, queue <- images

Crowd == INSTANCE EntryImages WITH
    Entries <- Cells, RawEntries <- RawCells, Acts <- CrowdActs, Faults <- TRUE,
    MaxOps <- MaxCrowdOps, jobs <- renderings, queue <- images

Batch == INSTANCE QueuePreviews WITH Entries <- Photos, Faults <- TRUE

ASSUME CellsAssumed ==
    /\ Grid!EntryAssumption /\ Crowd!EntryAssumption
    /\ Batch!PreviewAssumption

\* Addresses are alike, and so are the users beside the browser and the
\* deleter, the photos of the batch queue, and the thumbnail workers.
Symmetric ==
    Permutations(Objects) \cup Permutations(Users \ {browser, deleter})
    \cup Permutations(Photos) \cup Permutations(Workers)

\* Most of what the cells promise is over for a cell where two workers have met,
\* and some of it for one that a resize has caught.
NotDisturbed ==
    acts = "grid" => met = {} /\ (caught # {} => ops < MaxOps)

AllInit ==
    /\ Init /\ Batch!Init
    /\ \/ acts \in {"table", "grid", "batch"} /\ Grid!Init
       \/ acts = "crowd" /\ Crowd!Init
    /\ acts \in {"table", "batch"} => \A c \in Cells : entry[c].visible
    /\ acts # "batch" =>
           /\ \A p \in Photos : size[p] = small
           /\ \A t \in Threads : thread[t].job = [of |-> photo, size |-> small]

AllNext ==
    \/ acts = "table" /\ Next /\ UNCHANGED <<acts, cellVars, previewVars>>
    \/ acts = "grid" /\ Grid!Next /\ UNCHANGED <<acts, vars, previewVars>>
    \/ acts = "crowd" /\ Crowd!Next /\ UNCHANGED <<acts, vars, previewVars>>
    \/ acts = "batch" /\ Batch!Next /\ UNCHANGED <<acts, vars, cellVars>>
    \/ acts # "table" /\ UNCHANGED <<acts, vars, cellVars, previewVars>>

AllSpec == AllInit /\ [][AllNext]_<<acts, vars, cellVars, previewVars>>

\* What a cell believes to be asked for is on its way.
AskedIsAnswered == acts = "grid" => Grid!AskedIsAnswered

\* At rest a cell shows the last edit.
ShownIsCurrent == acts = "grid" => Grid!ShownIsCurrent

\* The helper of a cell is freed once, by the last who refers to it.
HelperIsCounted == acts = "crowd" => Crowd!HelperIsCounted

\* The updater of the batch queue has one thread.
OneThread == acts = "batch" => Batch!OneThread

=============================================================================
