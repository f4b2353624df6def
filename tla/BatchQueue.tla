------------------------------ MODULE BatchQueue -------------------------------
(***************************************************************************)
(* The export queue: BatchQueue and its panel (src/rtgui/batchqueue.cc,    *)
(* batchqueuepanel.cc) with the thread that develops its photos            *)
(* (batchProcessingThread in src/rtengine/simpleprocess.cc).               *)
(*                                                                         *)
(* The GUI thread changes the list fd; the thread develops its head, then  *)
(* removes it and takes the next.  Both write queue.csv, the list that a   *)
(* restart reads back, and the parameter files it refers to.  What the     *)
(* thread has to tell the GUI it posts as idle callbacks.                  *)
(***************************************************************************)
EXTENDS Naturals, Sequences, FiniteSets, SequencesExt, Places

CONSTANTS
    Jobs,           \* the photos a user may send to the queue
    Names,          \* the names getTempFilenameForParams() can form
    Workers,        \* slots for the threads startBatchProcessing() creates
    Gui,            \* the GUI thread
    None,           \* nullptr, or an empty file name
    Header, Hole,   \* in queue.csv: the first line, bytes never written
    NameOf(_),      \* the name a job's parameter file gets
    Batches,        \* the selections a user sends to the queue
    Ticked,         \* the auto-start box is ticked
    Overlap,        \* what the GUI may do while a photo is being finished
    Faults,         \* which file operations may fail
    MaxEdits, MaxPresses, MaxCrashes    \* bounds on the user and on crashes

ConstantsOK ==
    /\ Gui \notin Workers /\ None \notin Jobs \cup Names
    /\ \A j \in Jobs : NameOf(j) \in Names
    /\ \A batch \in Batches : batch \in Seq(Jobs) /\ IsInjective(batch)
    /\ {Header, Hole} \cap (Jobs \X (Names \cup {None})) = {} /\ Header # Hole
    /\ Ticked \in BOOLEAN /\ Overlap \subseteq {"add", "start", "edit", "notify", "early"}
    /\ Faults \subseteq {"params", "open", "image", "name"}

Actors == Workers \cup {Gui}

VARIABLES
    fd,             \* the list of entries
    processing,     \* the entry BatchQueue holds as the one being developed
    flagged,        \* the entries whose own processing flag is set
    paramsOf,       \* an entry's savedParamsFile
    shouldRun,      \* BatchQueuePanel::queueShouldRun
    isRunning,      \* BatchQueuePanel::isQueueRunning_
    idles,          \* the callbacks posted to the GUI loop, oldest first
    csv,            \* the rows of queue.csv
    files,          \* the parameter files: whose parameters each name holds
    fate,           \* what became of each job, as its user sees it
    pc, todo,       \* where an actor is; what the GUI's handler has left to do
    pos,            \* the rows an actor has written to queue.csv
    gone,           \* the actors whose open queue.csv has been deleted
    seen,           \* what notifyListener() read of processing
    job, old,       \* a thread's job; the parameter file it is to delete
    edits, presses, crashes,
    mishaps         \* history: what has happened that the code does not guard against

queue == <<fd, processing, flagged, paramsOf>>
panel == <<shouldRun, isRunning, idles>>
disk == <<csv, files, fate>>
control == <<pc, todo, pos, gone, seen, job, old>>
counts == <<edits, presses, crashes, mishaps>>
vars == <<queue, panel, disk, control, counts>>

Rows == {Header, Hole} \cup (Jobs \X (Names \cup {None}))
Idles ==
    [kind : {"size"}, size : Nat, running : BOOLEAN] \cup
    [kind : {"remove"}, entries : SUBSET Jobs]

\* Every variable has its type.
TypeOK ==
    /\ fd \in Seq(Jobs) /\ processing \in Jobs \cup {None} /\ flagged \subseteq Jobs
    /\ paramsOf \in [Jobs -> Names \cup {None}]
    /\ shouldRun \in BOOLEAN /\ isRunning \in BOOLEAN
    /\ idles \in Seq(Idles)
    /\ csv \in Seq(Rows) /\ files \in [Names -> Jobs \cup {None}]
    /\ fate \in [Jobs -> {"new", "queued", "developed", "cancelled"}]
    /\ pc \in [Actors -> {"none", "idle", "develop", "save", "erase", "button", "open",
                          "lock", "rows", "unlink", "check", "clean", "tell", "post",
                          "return", "err", "err2", "err3", "auto", "off"}]
    /\ todo \in Seq({"open", "tell", "auto"})
    /\ pos \in [Actors -> Nat] /\ gone \subseteq Actors /\ seen \in [Actors -> BOOLEAN]
    /\ job \in [Workers -> Jobs \cup {None}] /\ old \in [Workers -> Names \cup {None}]
    /\ edits \in 0 .. MaxEdits /\ presses \in 0 .. MaxPresses /\ crashes \in 0 .. MaxCrashes
    /\ mishaps \subseteq {"start", "add", "open", "name"}

Init ==
    /\ fd = <<>> /\ processing = None /\ flagged = {} /\ paramsOf = [j \in Jobs |-> None]
    /\ shouldRun = FALSE /\ isRunning = FALSE /\ idles = <<>>
    /\ csv = <<>> /\ files = [n \in Names |-> None] /\ fate = [j \in Jobs |-> "new"]
    /\ pc = [a \in Actors |-> IF a = Gui THEN "idle" ELSE "none"] /\ todo = <<>>
    /\ pos = [a \in Actors |-> 0] /\ gone = {} /\ seen = [a \in Actors |-> FALSE]
    /\ job = [w \in Workers |-> None] /\ old = [w \in Workers |-> None]
    /\ edits = 0 /\ presses = 0 /\ crashes = 0 /\ mishaps = {}

-----------------------------------------------------------------------------
(* The lock, the window in which a photo is finished, and the list. *)

\* entryRW can be taken for writing: nobody holds it to read the list.
CanWrite == \A a \in Actors : pc[a] # "rows"

\* The thread is in imageReady() past the lock, or in error().
Finishing(w) == pc[w] \notin {"none", "develop", "save", "erase"}

\* The user does k: always, or only when no photo is being finished; early, or
\* only when the GUI has heard what it was told.
May(k) ==
    /\ pc[Gui] = "idle"
    /\ k \in Overlap \/ \A w \in Workers : ~Finishing(w)
    /\ "early" \in Overlap \/ idles = <<>>

\* It happens now, or had happened.
Mishap(k, now) == mishaps' = IF now THEN mishaps \cup {k} ELSE mishaps

\* q with j where addEntries() and headItems() put it at the head: before the
\* first entry that is not being developed.
ToHead(q, j) ==
    LET waiting == {i \in DOMAIN q : q[i] \notin flagged}
    IN  IF waiting = {} THEN Append(q, j) ELSE InsertAt(q, Min(waiting), j)

\* The handler, or imageReady(), goes on: a thread at the given place, the GUI
\* with what its handler has left to do.
GoOn(a, at) ==
    /\ pc' = [pc EXCEPT ![a] = IF a # Gui THEN at
                               ELSE IF todo = <<>> THEN "idle" ELSE Head(todo)]
    /\ todo' = IF a = Gui /\ todo # <<>> THEN Tail(todo) ELSE todo

\* The GUI's handler has changed the list: it goes on with what it calls next.
Handler(calls) ==
    /\ pc' = [pc EXCEPT ![Gui] = Head(calls)]
    /\ todo' = Tail(calls)

-----------------------------------------------------------------------------
(* saveBatchQueue(): the file is emptied when it is opened, then written row *)
(* by row under the reader lock.                                             *)

\* file with row in its place i: the bytes before it that nobody wrote since
\* the file was emptied are a hole.
PutRow(file, i, row) ==
    [k \in 1 .. (IF i > Len(file) THEN i ELSE Len(file)) |->
        IF k = i THEN row ELSE IF k <= Len(file) THEN file[k] ELSE Hole]

SaveOpen(a) ==
    /\ pc[a] = "open"
    /\ \/ /\ csv' = <<>>
          /\ pos' = [pos EXCEPT ![a] = 0]
          /\ gone' = gone \ {a}
          /\ pc' = [pc EXCEPT ![a] = "lock"]
          /\ UNCHANGED <<todo, mishaps>>
       \/ /\ "open" \in Faults
          /\ GoOn(a, "tell")
          /\ Mishap("open", TRUE)
          /\ UNCHANGED <<csv, pos, gone>>
    /\ UNCHANGED <<queue, panel, files, fate, seen, job, old, edits, presses, crashes>>

SaveLock(a) ==
    /\ pc[a] = "lock"
    /\ IF fd = <<>>
       THEN GoOn(a, "unlink")
       ELSE pc' = [pc EXCEPT ![a] = "rows"] /\ UNCHANGED todo
    /\ UNCHANGED <<queue, panel, disk, pos, gone, seen, job, old, counts>>

SaveRow(a) ==
    /\ pc[a] = "rows"
    /\ LET row == IF pos[a] = 0 THEN Header ELSE <<fd[pos[a]], paramsOf[fd[pos[a]]]>>
       IN  csv' = IF a \in gone THEN csv ELSE PutRow(csv, pos[a] + 1, row)
    /\ pos' = [pos EXCEPT ![a] = @ + 1]
    /\ IF pos[a] = Len(fd) THEN GoOn(a, "unlink") ELSE UNCHANGED <<pc, todo>>
    /\ UNCHANGED <<queue, panel, files, fate, gone, seen, job, old, counts>>

-----------------------------------------------------------------------------
(* notifyListener(): processing is read first, the length of the list under  *)
(* the reader lock after it.                                                 *)

TellRead(a) ==
    /\ pc[a] = "tell"
    /\ seen' = [seen EXCEPT ![a] = processing # None]
    /\ pc' = [pc EXCEPT ![a] = "post"]
    /\ UNCHANGED <<queue, panel, disk, todo, pos, gone, job, old, counts>>

TellPost(a) ==
    /\ pc[a] = "post"
    /\ a = Gui \/ "notify" \in Overlap \/ pc[Gui] # "post"
    /\ idles' = Append(idles, [kind |-> "size", size |-> Len(fd), running |-> seen[a]])
    /\ GoOn(a, "return")
    /\ UNCHANGED <<queue, shouldRun, isRunning, disk, pos, gone, seen, job, old, counts>>

-----------------------------------------------------------------------------
(* The user: the handlers of the GUI thread.                                 *)

\* addBatchQueueJobs() with addEntries(): the parameters are saved and the
\* entries put in the list under the lock; then the list is saved, the panel
\* told, and the queue started if the box is ticked.  Only a single photo, from
\* the editor, can be sent to the head.
AddEntries(batch, head) ==
    /\ May("add") /\ CanWrite
    /\ \A i \in 1 .. Len(batch) : fate[batch[i]] = "new"
    /\ \E saved \in SUBSET ToSet(batch) :
          /\ "params" \in Faults \/ saved = ToSet(batch)
          /\ paramsOf' = [j \in Jobs |-> IF j \in ToSet(batch)
                                         THEN IF j \in saved THEN NameOf(j) ELSE None
                                         ELSE paramsOf[j]]
          /\ files' = [n \in Names |->
                LET named == {i \in DOMAIN batch : batch[i] \in saved /\ NameOf(batch[i]) = n}
                IN  IF named = {} THEN files[n] ELSE batch[Max(named)]]
    /\ fd' = IF head THEN ToHead(fd, batch[1]) ELSE fd \o batch
    /\ fate' = [j \in Jobs |-> IF j \in ToSet(batch) THEN "queued" ELSE fate[j]]
    /\ Handler(<<"open", "tell", "auto">>)
    /\ Mishap("add", \E w \in Workers : pc[w] = "clean")
    /\ UNCHANGED <<processing, flagged, panel, csv, pos, gone, seen, job, old, edits,
                   presses, crashes>>

\* Mutant: the list without the cancelled entries is not saved.
CancelItems_NoSave(items) ==
    /\ May("edit") /\ CanWrite /\ edits < MaxEdits
    /\ LET out == {j \in items : j \notin flagged /\ Contains(fd, j)}
       IN  /\ fd' = Without(fd, out)
           /\ fate' = [j \in Jobs |-> IF j \in out THEN "cancelled" ELSE fate[j]]
           /\ idles' = IF out = {} THEN idles
                       ELSE Append(idles, [kind |-> "remove", entries |-> out])
    /\ edits' = edits + 1
    /\ Handler(<<"tell">>)
    /\ UNCHANGED <<processing, flagged, paramsOf, shouldRun, isRunning, csv, files, pos, gone,
                   seen, job, old, presses, crashes, mishaps>>

\* cancelItems(): not the one being developed; an idle callback deletes the
\* entries and their parameter files.
CancelItems(items) ==
    /\ May("edit") /\ CanWrite /\ edits < MaxEdits
    /\ LET out == {j \in items : j \notin flagged /\ Contains(fd, j)}
       IN  /\ fd' = Without(fd, out)
           /\ fate' = [j \in Jobs |-> IF j \in out THEN "cancelled" ELSE fate[j]]
           /\ idles' = IF out = {} THEN idles
                       ELSE Append(idles, [kind |-> "remove", entries |-> out])
    /\ edits' = edits + 1
    /\ Handler(<<"open", "tell">>)
    /\ UNCHANGED <<processing, flagged, paramsOf, shouldRun, isRunning, csv, files, pos, gone,
                   seen, job, old, presses, crashes, mishaps>>

\* headItems() of one entry; the button of an entry and the Home key.
HeadItem(j) ==
    /\ May("edit") /\ CanWrite /\ edits < MaxEdits
    /\ fd' = IF j \in flagged \/ ~Contains(fd, j) \/ fd[1] = j THEN fd
             ELSE ToHead(Without(fd, {j}), j)
    /\ edits' = edits + 1
    /\ Handler(<<"open">>)
    /\ UNCHANGED <<processing, flagged, paramsOf, panel, disk, pos, gone, seen, job, old,
                   presses, crashes, mishaps>>

\* tailItems() of one entry.
TailItem(j) ==
    /\ May("edit") /\ CanWrite /\ edits < MaxEdits
    /\ fd' = IF j \in flagged \/ ~Contains(fd, j) THEN fd ELSE Append(Without(fd, {j}), j)
    /\ edits' = edits + 1
    /\ Handler(<<"open">>)
    /\ UNCHANGED <<processing, flagged, paramsOf, panel, disk, pos, gone, seen, job, old,
                   presses, crashes, mishaps>>

\* startBatchProc() with startProcessing(): the head of the list is flagged
\* and a thread created for it, unless an entry is being developed.  A handler
\* that calls it goes on as GoOn(Gui) or, when a thread was created, notifies.
StartBatchProc ==
    /\ CanWrite
    /\ shouldRun' = (shouldRun \/ fd # <<>>)
    /\ IF fd # <<>> /\ processing = None
       THEN \E w \in Workers :
              /\ pc[w] = "none"
              /\ processing' = fd[1]
              /\ flagged' = flagged \cup {fd[1]}
              /\ job' = [job EXCEPT ![w] = fd[1]]
              /\ pc' = [pc EXCEPT ![w] = "develop", ![Gui] = "tell"]
              /\ Mishap("start", \E v \in Workers : Finishing(v))
       ELSE /\ pc' = [pc EXCEPT ![Gui] = "idle"]
            /\ UNCHANGED <<processing, flagged, job, mishaps>>
    /\ UNCHANGED <<fd, paramsOf, isRunning, idles, disk, todo, pos, gone, seen, old>>

\* The end of addBatchQueueJobs().
AutoStart ==
    /\ pc[Gui] = "auto"
    /\ IF ~isRunning /\ Ticked
       THEN /\ "start" \in Overlap \/ \A w \in Workers : ~Finishing(w)
            /\ StartBatchProc
       ELSE /\ GoOn(Gui, "idle")
            /\ UNCHANGED <<queue, panel, disk, pos, gone, seen, job, old, mishaps>>
    /\ UNCHANGED <<edits, presses, crashes>>

\* startOrStopBatchProc(): the button and Ctrl+S.
StartOrStop ==
    /\ May("start") /\ presses < MaxPresses
    /\ presses' = presses + 1
    /\ IF isRunning
       THEN /\ shouldRun' = FALSE
            /\ UNCHANGED <<queue, isRunning, idles, disk, control, mishaps>>
       ELSE StartBatchProc
    /\ UNCHANGED <<edits, crashes>>

-----------------------------------------------------------------------------
(* The GUI loop: the callbacks that were posted.                             *)

Due(kind) == pc[Gui] = "idle" /\ idles # <<>> /\ idles[1].kind = kind

\* queueSizeChanged(): nothing left and nothing running means all is done.
QueueSizeChanged ==
    /\ Due("size")
    /\ isRunning' = idles[1].running
    /\ shouldRun' = (shouldRun /\ (idles[1].running \/ idles[1].size > 0))
    /\ idles' = Tail(idles)
    /\ UNCHANGED <<queue, disk, control, counts>>

\* The callback cancelItems() posted: the parameter files and the entries go.
RemoveCancelled ==
    /\ Due("remove")
    /\ files' = [n \in Names |-> IF \E j \in idles[1].entries : paramsOf[j] = n
                                 THEN None ELSE files[n]]
    /\ idles' = Tail(idles)
    /\ UNCHANGED <<queue, shouldRun, isRunning, csv, fate, control, counts>>

-----------------------------------------------------------------------------
(* The thread: batchProcessingThread(), imageReady() and error().            *)

Moves(w, from, to) == pc[w] = from /\ pc' = [pc EXCEPT ![w] = to]

\* processImage(): errorCode, or an image.
Develop(w) ==
    /\ \/ Moves(w, "develop", "save")
       \/ "image" \in Faults /\ Moves(w, "develop", "err")
    /\ UNCHANGED <<queue, panel, disk, todo, pos, gone, seen, job, old, counts>>

\* imageReady() up to the lock.  An image that cannot be written ends in
\* error(); one that no name is left for is not written at all.  A thread that
\* finds processing null here or in Erase takes the program down with it: it
\* has no step.
SaveImage(w) ==
    /\ processing # None
    /\ \/ /\ Moves(w, "save", "erase") /\ UNCHANGED mishaps
          /\ fate' = [fate EXCEPT ![processing] = "developed"]
       \/ "name" \in Faults /\ Moves(w, "save", "erase") /\ Mishap("name", TRUE) /\ UNCHANGED fate
       \/ "image" \in Faults /\ Moves(w, "save", "err") /\ UNCHANGED <<fate, mishaps>>
    /\ UNCHANGED <<queue, panel, csv, files, todo, pos, gone, seen, job, old, edits, presses,
                   crashes>>

\* Mutant: the last entry of the list is removed, not the first.
Erase_Last(w) ==
    /\ pc[w] = "erase" /\ processing # None /\ fd # <<>> /\ CanWrite
    /\ old' = [old EXCEPT ![w] = paramsOf[processing]]
    /\ fd' = Front(fd)
    /\ processing' = IF Len(fd) > 1 /\ shouldRun THEN fd[1] ELSE None
    /\ flagged' = (flagged \ {processing}) \cup ({processing'} \ {None})
    /\ pc' = [pc EXCEPT ![w] = IF processing' = None THEN "open" ELSE "button"]
    /\ UNCHANGED <<paramsOf, panel, disk, todo, pos, gone, seen, job, counts>>

\* Under the lock the entry is deleted, the head of the list removed and the
\* next head taken, when the user did not stop the queue.
Erase(w) ==
    /\ pc[w] = "erase" /\ processing # None /\ fd # <<>> /\ CanWrite
    /\ old' = [old EXCEPT ![w] = paramsOf[processing]]
    /\ fd' = Tail(fd)
    /\ IF Tail(fd) # <<>> /\ shouldRun
       THEN /\ processing' = fd[2]
            /\ flagged' = (flagged \ {processing}) \cup {fd[2]}
            /\ pc' = [pc EXCEPT ![w] = "button"]
       ELSE /\ processing' = None
            /\ flagged' = flagged \ {processing}
            /\ pc' = [pc EXCEPT ![w] = "open"]
    /\ UNCHANGED <<paramsOf, panel, disk, todo, pos, gone, seen, job, counts>>

\* The next entry's buttons go, under the GUI's lock.
RemoveButtons(w) ==
    /\ pc[Gui] = "idle" /\ Moves(w, "button", "open")
    /\ UNCHANGED <<queue, panel, disk, todo, pos, gone, seen, job, old, counts>>

\* The saved list no longer names the parameter file, so that it can go.
Unlink(w) ==
    /\ Moves(w, "unlink", "check")
    /\ files' = [n \in Names |-> IF n = old[w] THEN None ELSE files[n]]
    /\ UNCHANGED <<queue, panel, csv, fate, todo, pos, gone, seen, job, old, counts>>

CheckEmpty(w) ==
    /\ Moves(w, "check", IF fd = <<>> THEN "clean" ELSE "tell")
    /\ UNCHANGED <<queue, panel, disk, todo, pos, gone, seen, job, old, counts>>

\* Every file of the directory "batch" is deleted, queue.csv with the rest.
Clean(w) ==
    /\ Moves(w, "clean", "tell")
    /\ files' = [n \in Names |-> None]
    /\ csv' = <<>>
    /\ gone' = gone \cup {a \in Actors : pc[a] \in {"lock", "rows"}}
    /\ UNCHANGED <<queue, panel, fate, todo, pos, seen, job, old, counts>>

\* Mutant: the thread ends although there is a next job.
Return_Ends(w) ==
    /\ Moves(w, "return", "none")
    /\ job' = [job EXCEPT ![w] = None]
    /\ UNCHANGED <<queue, panel, disk, todo, pos, gone, seen, old, counts>>

\* imageReady() reads processing once more for what it returns.
Return(w) ==
    /\ Moves(w, "return", IF processing = None THEN "none" ELSE "develop")
    /\ job' = [job EXCEPT ![w] = processing]
    /\ UNCHANGED <<queue, panel, disk, todo, pos, gone, seen, old, counts>>

\* error(), without the lock: the entry can be worked with again, then
\* nothing is being developed; the panel hears of an empty queue.
ErrorFlag(w) ==
    /\ Moves(w, "err", IF processing \in flagged THEN "err2" ELSE "err3")
    /\ flagged' = flagged \ {processing}
    /\ UNCHANGED <<fd, processing, paramsOf, panel, disk, todo, pos, gone, seen, job, old, counts>>

ErrorClear(w) ==
    /\ Moves(w, "err2", "err3")
    /\ processing' = None
    /\ UNCHANGED <<fd, flagged, paramsOf, panel, disk, todo, pos, gone, seen, job, old, counts>>

ErrorTell(w) ==
    /\ Moves(w, "err3", "none")
    /\ job' = [job EXCEPT ![w] = None]
    /\ idles' = Append(idles, [kind |-> "size", size |-> 0, running |-> FALSE])
    /\ UNCHANGED <<queue, shouldRun, isRunning, disk, todo, pos, gone, seen, old, counts>>

-----------------------------------------------------------------------------
(* The program dies and is started again.                                    *)

Crash ==
    /\ pc[Gui] # "off" /\ crashes < MaxCrashes
    /\ crashes' = crashes + 1
    /\ fd' = <<>> /\ processing' = None /\ flagged' = {} /\ paramsOf' = [j \in Jobs |-> None]
    /\ shouldRun' = FALSE /\ isRunning' = FALSE /\ idles' = <<>>
    /\ pc' = [a \in Actors |-> IF a = Gui THEN "off" ELSE "none"] /\ todo' = <<>>
    /\ pos' = [a \in Actors |-> 0] /\ gone' = {} /\ seen' = [a \in Actors |-> FALSE]
    /\ job' = [w \in Workers |-> None] /\ old' = [w \in Workers |-> None]
    /\ UNCHANGED <<disk, edits, presses, mishaps>>

\* The rows loadBatchQueue() takes: whole lines after the first whose
\* parameter file can be loaded.
Recovered ==
    LET whole(k) == k > 1 /\ csv[k] \notin {Header, Hole} /\ csv[k - 1] # Hole
        loads(k) == csv[k][2] # None /\ files[csv[k][2]] # None
    IN  AtPlaces(csv, {k \in DOMAIN csv : whole(k) /\ loads(k)})

\* loadBatchQueue(), from the panel's constructor.
Restart ==
    /\ pc[Gui] = "off"
    /\ fd' = [i \in 1 .. Len(Recovered) |-> Recovered[i][1]]
    /\ paramsOf' = [j \in Jobs |->
                       IF \E i \in 1 .. Len(Recovered) : Recovered[i][1] = j
                       THEN Recovered[CHOOSE i \in 1 .. Len(Recovered) : Recovered[i][1] = j][2]
                       ELSE None]
    /\ Handler(<<"tell">>)
    /\ UNCHANGED <<processing, flagged, panel, disk, pos, gone, seen, job, old, counts>>

-----------------------------------------------------------------------------
\* A step of imageReady(), of a handler or of a callback that has begun.
Saves(a) == SaveOpen(a) \/ SaveLock(a) \/ SaveRow(a) \/ TellRead(a) \/ TellPost(a)

WorkerStep(w) ==
    \/ Develop(w) \/ SaveImage(w) \/ Erase(w) \/ RemoveButtons(w) \/ Saves(w) \/ Unlink(w)
    \/ CheckEmpty(w) \/ Clean(w) \/ Return(w) \/ ErrorFlag(w) \/ ErrorClear(w) \/ ErrorTell(w)

GuiStep == Saves(Gui) \/ AutoStart \/ QueueSizeChanged \/ RemoveCancelled

UserStep ==
    \/ \E batch \in Batches, head \in BOOLEAN :
          (head => Len(batch) = 1) /\ AddEntries(batch, head)
    \/ \E items \in SUBSET Jobs : items # {} /\ CancelItems(items)
    \/ \E j \in Jobs : HeadItem(j) \/ TailItem(j)
    \/ StartOrStop

Next ==
    \/ \E w \in Workers : WorkerStep(w)
    \/ GuiStep \/ UserStep
    \/ Crash \/ Restart

Spec == Init /\ [][Next]_vars

\* Threads run and the GUI loop turns; the user need not do anything.
Fairness == WF_vars(GuiStep) /\ \A w \in Workers : WF_vars(WorkerStep(w))

FairSpec == Spec /\ Fairness

-----------------------------------------------------------------------------
(* Properties.                                                               *)

\* A thread develops, and imageReady() removes from the head of the list, the
\* entry that processing holds: batchqueue.h:109.
ProcessingHolds ==
    \A w \in Workers : pc[w] \in {"develop", "save", "erase"} => job[w] = processing

\* The entry being developed is the head of the list and the only one the user
\* cannot cancel or move, whatever is moved, cancelled, added or fails
\* meanwhile: imageReady() deletes one and removes the other.
ProcessingIsHead ==
    /\ processing # None => fd # <<>> /\ fd[1] = processing
    /\ flagged \subseteq {processing}
    /\ ProcessingHolds

\* Nobody is between a change of the list and the end of its saving.
AtRest ==
    /\ pc[Gui] = "idle"
    /\ \A w \in Workers : pc[w] \in {"none", "develop", "save", "erase"}

\* No two of the photos that were sent have the same name for their parameters.
OwnNames ==
    \A i, j \in Jobs : fate[i] # "new" /\ fate[j] # "new" /\ NameOf(i) = NameOf(j) => i = j

\* Queue.csv could be opened whenever it was to be saved, and no photo was sent
\* while the directory was emptied or started while one was being finished.
Kept == mishaps \cap {"start", "add", "open"} = {} /\ OwnNames

\* When nothing is being saved, a restart would find the list as it is, every
\* entry with its own parameters, as long as nothing has happened that the code
\* does not guard against.
Durable ==
    AtRest /\ Kept =>
              LET kept == {i \in DOMAIN fd : paramsOf[fd[i]] # None}
              IN  /\ Recovered = AtPlaces([i \in DOMAIN fd |-> <<fd[i], paramsOf[fd[i]]>>], kept)
                  /\ \A i \in kept : files[paramsOf[fd[i]]] = fd[i]

\* What was developed is not developed again: it has left the list, or is the
\* head its thread is about to remove; and no job is in the list twice; as long as
\* no thread was created while another finished a photo.
DevelopedLeaves == "start" \notin mishaps =>
    /\ IsInjective(fd)
    /\ crashes = 0 =>
          \A j \in Jobs : fate[j] = "developed" /\ Contains(fd, j) => processing = j

\* A job that was neither developed nor cancelled stays in the list: one that
\* fails, one that is passed over, one that is moved; as long as a name was left
\* for every image and no thread was created while another finished a photo.
NothingDropped ==
    mishaps \cap {"start", "name"} = {} /\ pc[Gui] # "off" => \A j \in Jobs : fate[j] = "queued" => Contains(fd, j)

\* A job in the list that a restart would find stays one that it would find:
\* the "recovery save" (batchqueue.cc:280).
StaysRecoverable ==
    [][\A j \in Jobs :
          /\ Contains(fd, j) /\ Contains(fd', j)
          /\ \E i \in 1 .. Len(Recovered) : Recovered[i][1] = j
          => \E i \in 1 .. Len(Recovered') : Recovered'[i][1] = j]_vars

\* "There was work, but it is all done now" (batchqueuepanel.cc:395).
DoneIsDone ==
    [][QueueSizeChanged /\ shouldRun /\ ~shouldRun' => fd = <<>>]_vars

\* With the box ticked a job that arrives is developed, or the user meddles.
EveryJobLeaves ==
    \A j \in Jobs : fate[j] = "queued" ~> ~Contains(fd, j) \/ presses > 0

\* The panel hears that the thread has ended: "It will notify
\* queueSizeChanged() when it stops" (batchqueuepanel.cc:432).
PanelHears == processing = None ~> ~isRunning \/ processing # None

=============================================================================
