----------------------------- MODULE PreviewLoader -----------------------------
(***************************************************************************)
(* The loader of folder previews (rtgui/previewloader): a set of jobs, a   *)
(* thread pool and the workers that drain the set.                         *)
(*                                                                         *)
(* A job is a file of a directory, stamped with the generation in which it *)
(* was queued.  A worker is a task of the pool; it takes jobs one after    *)
(* the other, collects the entries and hands them to the catalog in        *)
(* batches of one, then of two.  FolderPreviews composes the loader with   *)
(* its catalog.                                                            *)
(*                                                                         *)
(* An action of a worker is a section under mutex_ or the code between two *)
(* reads of an atomic.  pushWorkers_ follows the section that counted the  *)
(* tasks at once: until it does, nothing but the start of these tasks      *)
(* could tell.  Abstracted: which job is the best one, and the measures    *)
(* the number of threads is derived from (any of Targets will do).         *)
(***************************************************************************)
EXTENDS Integers, FiniteSets, FiniteSetsExt

CONSTANTS
    Workers,        \* threads of the pool
    Targets,        \* the results of targetThreadCountLocked_
    Files,
    MaxDirs         \* bound: directories selected in a run

ASSUME LoaderAssumption ==
    /\ "none" \notin Files
    /\ IsFiniteSet(Workers) /\ IsFiniteSet(Files)
    /\ Targets \subseteq Nat \ {0} /\ Targets # {}
    /\ MaxDirs \in Nat \ {0}

VARIABLES
    jobs,           \* jobs_
    generation,     \* generation_
    queued,         \* queuedWorkers_
    tasks,          \* tasks of the pool no thread has started
    running,        \* nConcurrentThreads
    paused,         \* pauseDepth_ > 0
    worker          \* the locals of processNextJob

loader == <<jobs, generation, queued, tasks, running, paused, worker>>

Dirs == 0 .. MaxDirs        \* 0: none

Entries == Dirs \X Files    \* a file of a directory, and what was made of it

Jobs == [entry : Entries, gen : Nat]

NoJob == [entry |-> <<0, "none">>, gen |-> 0]

PCs == {"idle", "pick", "check", "load", "account",
        "flush", "filter", "append", "leave", "tail"}

Idle == [pc |-> "idle", job |-> NoJob, batch |-> {}, gen |-> 0,
         first |-> TRUE, lastDir |-> 0, leaving |-> FALSE]

LoaderTypeOK ==
    /\ jobs \subseteq Jobs
    /\ generation \in Nat
    /\ queued \in Nat /\ tasks \in Nat /\ running \in Nat
    /\ paused \in BOOLEAN
    /\ worker \in [Workers -> [pc : PCs, job : Jobs \cup {NoJob}, batch : SUBSET Entries,
                               gen : Nat, first : BOOLEAN, lastDir : Dirs,
                               leaving : BOOLEAN]]

LoaderInit ==
    /\ jobs = {}
    /\ generation = 0
    /\ queued = 0 /\ tasks = 0 /\ running = 0
    /\ paused = FALSE
    /\ worker = [w \in Workers |-> Idle]

-----------------------------------------------------------------------------

\* The set is keyed by directory and file: a second job for one is dropped.
Insert(new) ==
    jobs \cup {j \in new : \A k \in jobs : k.entry # j.entry}

\* How many workers are wanted for the jobs js.
Wanted(js, run, q, target, isPaused) ==
    IF isPaused \/ js = {} THEN 0
    ELSE Max({0, Min({target - run - q, Cardinality(js) - q})})

\* scheduleWorkersLocked_ and pushWorkers_, in a section that leaves q
\* workers queued.
Schedule(js, run, q, isPaused) ==
    \E target \in Targets :
        LET n == Wanted(js, run, q, target, isPaused) IN
        /\ queued' = q + n
        /\ tasks' = tasks + n

HasPendingWork == jobs # {} \/ queued > 0 \/ running > 0

(* What the GUI thread calls. *)

AddJobs(dir, fs) ==
    /\ jobs' = Insert([entry : {dir} \X fs, gen : {generation}])
    /\ IF jobs' = jobs THEN UNCHANGED <<queued, tasks>>
       ELSE Schedule(jobs', running, queued, paused)
    /\ UNCHANGED <<generation, running, paused, worker>>

\* It does not wait for the workers, and their tasks stay in the pool.
RemoveAllJobs ==
    /\ jobs' = {}
    /\ queued' = 0
    /\ generation' = generation + 1
    /\ UNCHANGED <<tasks, running, paused, worker>>

WakePendingWorkers ==
    /\ Schedule(jobs, running, queued, paused)
    /\ UNCHANGED <<jobs, generation, running, paused, worker>>

\* FilePanel pauses once; only resume is called without a pause before it.
PauseLoader ==
    /\ paused' = TRUE
    /\ UNCHANGED <<jobs, generation, queued, tasks, running, worker>>

ResumeLoader ==
    /\ paused' = FALSE
    /\ Schedule(jobs, running, queued, FALSE)
    /\ UNCHANGED <<jobs, generation, running, worker>>

-----------------------------------------------------------------------------
(* processNextJob. *)

\* The peek: a task that finds nothing to do leaves no trace.
Start(w) ==
    /\ worker[w].pc = "idle" /\ tasks > 0
    /\ tasks' = tasks - 1
    /\ queued' = Max({0, queued - 1})
    /\ IF jobs = {} \/ paused
       THEN UNCHANGED <<running, worker>>
       ELSE /\ running' = running + 1
            /\ worker' = [worker EXCEPT ![w].pc = "pick"]
    /\ UNCHANGED <<jobs, generation, paused>>

Pick(w) ==
    /\ worker[w].pc = "pick"
    /\ IF jobs = {} \/ paused
       THEN /\ worker' = [worker EXCEPT ![w].pc = "flush", ![w].leaving = TRUE]
            /\ UNCHANGED jobs
       ELSE \E j \in jobs :
            /\ jobs' = jobs \ {j}
            /\ worker' = [worker EXCEPT ![w].pc = "check", ![w].job = j]
    /\ UNCHANGED <<generation, queued, tasks, running, paused>>

\* The first check: jobs of a directory left behind are not loaded.
CheckJob(w) ==
    /\ worker[w].pc = "check"
    /\ worker' = [worker EXCEPT ![w] =
            IF @.job.gen = generation THEN [@ EXCEPT !.pc = "load"]
            ELSE [@ EXCEPT !.pc = "pick", !.job = NoJob]]
    /\ UNCHANGED <<jobs, generation, queued, tasks, running, paused>>

\* getEntry, the second check and the batch.  A batch of another generation
\* is stale, and deleted when it is flushed to make room.
Load(w, onDisk) ==
    /\ worker[w].pc = "load"
    /\ LET me == worker[w]
           old == IF me.gen = me.job.gen THEN me.batch ELSE {}
           new == old \cup {me.job.entry}
           full == Cardinality(new) >= IF me.first THEN 1 ELSE 2
       IN worker' = [worker EXCEPT ![w] =
            IF me.job.entry[2] \notin onDisk
                THEN [me EXCEPT !.pc = "account"]
            ELSE IF me.job.gen # generation
                THEN [me EXCEPT !.pc = "pick", !.job = NoJob]
            ELSE [me EXCEPT !.pc = IF full THEN "flush" ELSE "account",
                            !.batch = new, !.gen = me.job.gen]]
    /\ UNCHANGED <<jobs, generation, queued, tasks, running, paused>>

AfterFlush(w) == IF worker[w].leaving THEN "leave" ELSE "account"

\* flushReadyBatch: a batch of the current generation goes to the catalog.
Flush(w) ==
    /\ worker[w].pc = "flush"
    /\ worker' = [worker EXCEPT ![w] =
            IF @.batch # {} /\ @.gen = generation
            THEN [@ EXCEPT !.pc = "filter"]
            ELSE [@ EXCEPT !.pc = AfterFlush(w), !.batch = {}, !.gen = 0]]
    /\ UNCHANGED <<jobs, generation, queued, tasks, running, paused>>

\* The catalog has the batch now.
Delivered(w) ==
    worker' = [worker EXCEPT ![w].pc = AfterFlush(w), ![w].batch = {},
                             ![w].gen = 0, ![w].first = FALSE]

\* After a job: too many workers, or too few?
Account(w) ==
    /\ worker[w].pc = "account"
    /\ \E target \in Targets :
        LET retire == running > target
            n == IF retire THEN 0
                 ELSE Wanted(jobs, running, queued, target, paused)
        IN /\ queued' = queued + n
           /\ tasks' = tasks + n
           /\ worker' = [worker EXCEPT
                    ![w].pc = IF retire THEN "flush" ELSE "pick",
                    ![w].leaving = retire,
                    ![w].lastDir = worker[w].job.entry[1],
                    ![w].job = NoJob]
    /\ UNCHANGED <<jobs, generation, running, paused>>

\* The worker stops counting; lastDir stays, and whether it was the last.
Leave(w) ==
    /\ worker[w].pc = "leave"
    /\ running' = running - 1
    /\ worker' = [worker EXCEPT ![w] =
            [Idle EXCEPT !.pc = "tail", !.leaving = running = 1,
                         !.lastDir = worker[w].lastDir]]
    /\ UNCHANGED <<jobs, generation, queued, tasks, paused>>

\* Jobs that are left get workers.
Exit(w) ==
    /\ worker[w].pc = "tail"
    /\ IF jobs = {} THEN UNCHANGED <<queued, tasks>>
       ELSE Schedule(jobs, running, queued, paused)
    /\ worker' = [worker EXCEPT ![w] = Idle]
    /\ UNCHANGED <<jobs, generation, running, paused>>

\* Without jobs, the last worker to leave announces the directory of the last
\* job it has done itself, if it has done any.
Announces(w) ==
    jobs = {} /\ queued = 0 /\ worker[w].leaving /\ worker[w].lastDir # 0

=============================================================================
