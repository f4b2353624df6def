---------------------------- MODULE QueuePreviews ----------------------------
(***************************************************************************)
(* The previews of the batch queue: BatchQueueEntryUpdater, its list of    *)
(* jobs and the thread that is started when there is one and ends when     *)
(* there is none, and the entries it renders for.                          *)
(*                                                                         *)
(*   gtk      adds entries, changes their size, deletes them: process()    *)
(*            and removeJobs();                                            *)
(*   threads  processThread().                                             *)
(*                                                                         *)
(* process() appends under qMutex and looks at stopped after it; the       *)
(* thread looks at the list under qMutex and sets stopped after it.        *)
(***************************************************************************)
EXTENDS Integers, Sequences, FiniteSets, SequencesExt

CONSTANTS
    Entries,        \* batch queue entries
    Sizes,          \* heights of a thumbnail
    Threads,        \* threads the updater may have started
    Overlap,        \* what the user may do meanwhile: "ending", "rendering"
    Faults,         \* may a rendering fail?
    MaxResizes      \* bound: changes of size

PreviewAssumption ==
    /\ Sizes # {}
    /\ Overlap \subseteq {"ending", "rendering"}
    /\ Faults \in BOOLEAN
    /\ MaxResizes \in Nat

None == "none"

VARIABLES
    life,           \* of each entry
    size,           \* previewSize of each entry
    preview,        \* size of the pixels an entry has, or None
    jobs,           \* jqueue: records [of, size]
    thread,         \* what each thread is doing
    stopped,
    starting,       \* process() has appended and not yet looked at stopped
    resizes         \* changes of size so far

vars == <<life, size, preview, jobs, thread, stopped, starting, resizes>>

Job == [of : Entries, size : Sizes]

TypeOK ==
    /\ life \in [Entries -> {"new", "open", "deleted"}]
    /\ size \in [Entries -> Sizes]
    /\ preview \in [Entries -> Sizes \cup {None}]
    /\ jobs \in Seq(Job)
    /\ thread \in [Threads ->
          [pc : {"none", "look", "render", "deliver", "end"}, job : Job]]
    /\ stopped \in BOOLEAN
    /\ starting \in BOOLEAN
    /\ resizes \in 0 .. MaxResizes

Init ==
    /\ life = [e \in Entries |-> "new"]
    /\ size \in {[e \in Entries |-> s] : s \in Sizes}
    /\ preview = [e \in Entries |-> None]
    /\ jobs = <<>>
    /\ \E j \in Job : thread = [t \in Threads |-> [pc |-> "none", job |-> j]]
    /\ stopped = TRUE
    /\ starting = FALSE
    /\ resizes = 0

Running == {t \in Threads : thread[t].pc # "none"}

-----------------------------------------------------------------------------
(* The GTK thread.                                                         *)

\* The user acts between two handlers; what may meet the thread, Overlap says.
GtkIsFree ==
    /\ ~ starting
    /\ "ending" \in Overlap \/ \A t \in Threads : thread[t].pc # "end"

\* process(), under qMutex: an older job of the entry is changed in place.
Process(e, s) ==
    /\ jobs' = IF \E i \in DOMAIN jobs : jobs[i].of = e
               THEN [i \in DOMAIN jobs |->
                        IF jobs[i].of = e THEN [of |-> e, size |-> s]
                        ELSE jobs[i]]
               ELSE Append(jobs, [of |-> e, size |-> s])
    /\ starting' = TRUE

\* Mutant: the flag is left to the thread.
StartThread_Late ==
    /\ starting
    /\ starting' = FALSE
    /\ UNCHANGED stopped
    /\ IF stopped
       THEN \E t \in Threads \ Running :
                thread' = [thread EXCEPT ![t].pc = "look"]
       ELSE UNCHANGED thread
    /\ UNCHANGED <<life, size, preview, jobs, resizes>>

\* ... and after it: a thread is started if none is running.
StartThread ==
    /\ starting
    /\ starting' = FALSE
    /\ stopped' = FALSE
    /\ IF stopped
       THEN \E t \in Threads \ Running :
                thread' = [thread EXCEPT ![t].pc = "look"]
       ELSE UNCHANGED thread
    /\ UNCHANGED <<life, size, preview, jobs, resizes>>

\* A new entry is given the height of the queue: resize(), calcThumbnailSize()
\* and, for it has no preview, refreshThumbnailImage().
Add(e) ==
    /\ GtkIsFree
    /\ life[e] = "new"
    /\ life' = [life EXCEPT ![e] = "open"]
    /\ Process(e, size[e])
    /\ UNCHANGED <<size, preview, thread, stopped, resizes>>

\* The thumbnails change their height; what is still blank is asked for again.
Resize(e, s) ==
    /\ GtkIsFree
    /\ life[e] = "open"
    /\ s # size[e]
    /\ resizes < MaxResizes
    /\ resizes' = resizes + 1
    /\ size' = [size EXCEPT ![e] = s]
    /\ IF preview[e] = None THEN Process(e, s) ELSE UNCHANGED <<jobs, starting>>
    /\ UNCHANGED <<life, preview, thread, stopped>>

\* removeJobs(), under qMutex: it does not wait for the thread.
RemoveJobs(e) == SelectSeq(jobs, LAMBDA j : j.of # e)

Rendering(e) ==
    \E t \in Threads : thread[t].pc \in {"render", "deliver"}
                       /\ thread[t].job.of = e

\* ~BatchQueueEntry: the parameters go with it.
Delete(e) ==
    /\ GtkIsFree
    /\ "rendering" \in Overlap \/ ~ Rendering(e)
    /\ life[e] = "open"
    /\ life' = [life EXCEPT ![e] = "deleted"]
    /\ jobs' = RemoveJobs(e)
    /\ UNCHANGED <<size, preview, thread, stopped, starting, resizes>>

-----------------------------------------------------------------------------
(* processThread()                                                         *)

\* stopped = true, after the loop.
Finish(t) ==
    /\ thread[t].pc = "end"
    /\ thread' = [thread EXCEPT ![t].pc = "none"]
    /\ stopped' = TRUE
    /\ UNCHANGED <<life, size, preview, jobs, starting, resizes>>

\* The first job is taken, under qMutex; an empty list ends the loop.
Look(t) ==
    /\ thread[t].pc = "look"
    /\ IF jobs = <<>>
       THEN /\ thread' = [thread EXCEPT ![t].pc = "end"]
            /\ UNCHANGED jobs
       ELSE /\ thread' = [thread EXCEPT ![t] =
                            [pc |-> "render", job |-> Head(jobs)]]
            /\ jobs' = Tail(jobs)
    /\ UNCHANGED <<life, size, preview, stopped, starting, resizes>>

\* processThumbImage() with the parameters of the entry.
Render(t) ==
    /\ thread[t].pc = "render"
    /\ \E next \in {"deliver"} \cup (IF Faults THEN {"look"} ELSE {}) :
          thread' = [thread EXCEPT ![t].pc = next]
    /\ UNCHANGED <<life, size, preview, jobs, stopped, starting, resizes>>

\* updateImage() under the GTK lock: pixels of another height are dropped.
Deliver(t) ==
    /\ thread[t].pc = "deliver"
    /\ ~ starting
    /\ LET j == thread[t].job IN
        preview' = IF size[j.of] = j.size
                   THEN [preview EXCEPT ![j.of] = j.size] ELSE preview
    /\ thread' = [thread EXCEPT ![t].pc = "look"]
    /\ UNCHANGED <<life, size, jobs, stopped, starting, resizes>>

-----------------------------------------------------------------------------

ThreadStep(t) == Look(t) \/ Render(t) \/ Deliver(t) \/ Finish(t)

Next ==
    \/ StartThread
    \/ \E e \in Entries : Add(e) \/ Delete(e) \/ \E s \in Sizes : Resize(e, s)
    \/ \E t \in Threads : ThreadStep(t)

Spec == Init /\ [][Next]_vars

\* The GTK thread finishes its handlers, and started threads run.
FairSpec ==
    /\ Spec
    /\ WF_vars(StartThread)
    /\ \A t \in Threads : WF_vars(ThreadStep(t))

-----------------------------------------------------------------------------
(* Properties.                                                             *)

\* The updater has one thread, whenever it is found stopped.
OneThread == Cardinality(Running) <= 1

\* Work in the list has a thread that will come to it: process() may rely on
\* stopped to know that the thread will look again.
NoStrandedJob ==
    jobs # <<>> /\ ~ starting => \E t \in Running : thread[t].pc # "end"

\* The thread reads the parameters of an entry, and calls it, only while the
\* entry is there.
EntryIsThere ==
    /\ \A e \in Entries : Rendering(e) => life[e] = "open"
    /\ \A i \in DOMAIN jobs : life[jobs[i].of] = "open"

\* An entry is not rendered twice for the same size while it waits.
AskedOnce ==
    \A i, j \in DOMAIN jobs : jobs[i].of = jobs[j].of => i = j

\* Every entry gets its preview, whatever the order in which sizes change and
\* renderings end, unless it is deleted.
EveryEntryIsPainted ==
    \A e \in Entries :
        life[e] = "open" ~> preview[e] # None \/ life[e] = "deleted"

=============================================================================
