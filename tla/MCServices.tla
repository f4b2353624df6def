----------------------------- MODULE MCServices ------------------------------
(***************************************************************************)
(* What works beside the editor: the previews of a folder (FolderPreviews, *)
(* one folder after another, or one whose files come and go), the export   *)
(* queue (BatchQueue, with and without a crash) and the MCP server         *)
(* (McpServer).  They share nothing; a behaviour is one of one of them, so *)
(* that their states add up and are not multiplied.                        *)
(***************************************************************************)
EXTENDS FolderPreviews, TLC

CONSTANTS
    Parts,              \* which of them may act
    OneDir, TwoFiles, AnyFiles, Edits, MaxChanges,      \* of Edited
    j1, j2, j3, n1, n2, n3,
    Photos, Names, Threads, Gui, None, Header, Hole, Batches, CrashBatches, Ticked,
    Overlap, Faults, CrashOverlap, CrashFaults,
    MaxEdits, MaxPresses, NoCrash, MaxCrashes,          \* of Batch and Crash
    Requests                                            \* of Mcp

VARIABLES
    fd, processing, flagged, paramsOf, shouldRun, isRunning, bIdles, csv, files,
    fate, pc, todo, pos, gone, seen, job, old, edits, presses, crashes, mishaps,
    gtk, mRunning, thread, request, idles, mTasks, done, held, acted, reply,
    acts                \* which of them acts

batchVars ==
    <<fd, processing, flagged, paramsOf, shouldRun, isRunning, bIdles, csv, files,
      fate, pc, todo, pos, gone, seen, job, old, edits, presses, crashes, mishaps>>

mcpVars ==
    <<gtk, mRunning, thread, request, idles, mTasks, done, held, acted, reply>>

all == <<acts, vars, batchVars, mcpVars>>

\* Every job has a name for its parameter file of its own.
OwnName(j) == CASE j = j1 -> n1 [] j = j2 -> n2 [] OTHER -> n3

\* What a user sends to the queue: a photo, or two.
Singles == {<<j>> : j \in Photos}
OnePair == {<<j1, j2>>}
PairAndOne == OnePair \cup {<<j3>>}

Edited == INSTANCE FolderPreviews WITH
    Files <- TwoFiles, MaxDirs <- OneDir, InitialFiles <- AnyFiles,
    Disturbances <- Edits, MaxDisturbances <- MaxChanges

Batch == INSTANCE BatchQueue WITH
    Jobs <- Photos, Workers <- Threads, NameOf <- OwnName,
    MaxCrashes <- NoCrash, idles <- bIdles

Crash == INSTANCE BatchQueue WITH
    Jobs <- Photos, Workers <- Threads, NameOf <- OwnName,
    Batches <- CrashBatches, Overlap <- CrashOverlap, Faults <- CrashFaults,
    idles <- bIdles

Mcp == INSTANCE McpServer WITH running <- mRunning, tasks <- mTasks

ASSUME QueueAssumption == Batch!ConstantsOK /\ Crash!ConstantsOK

\* Files are alike, and so are workers and requests.
Symmetric ==
    Permutations(Workers) \cup Permutations(TwoFiles) \cup Permutations(Requests)

AllInit ==
    /\ acts \in Parts
    /\ IF acts = "edited" THEN Edited!Init ELSE Init
    /\ acts \notin {"folder", "edited"} => onDisk = CHOOSE fs \in InitialFiles : TRUE
    /\ Batch!Init
    /\ Mcp!Init

\* One of them acts, and the others stay as they are.
FolderActs(action) ==
    acts = "folder" /\ action /\ UNCHANGED <<acts, batchVars, mcpVars>>
EditedActs(action) ==
    acts = "edited" /\ action /\ UNCHANGED <<acts, batchVars, mcpVars>>
BatchActs(action) == acts = "batch" /\ action /\ UNCHANGED <<acts, vars, mcpVars>>
CrashActs(action) == acts = "crash" /\ action /\ UNCHANGED <<acts, vars, mcpVars>>
McpActs(action) == acts = "mcp" /\ action /\ UNCHANGED <<acts, vars, batchVars>>

AllNext ==
    \/ FolderActs(Next)
    \/ EditedActs(Edited!Next)
    \/ BatchActs(Batch!Next)
    \/ CrashActs(Crash!Next)
    \/ McpActs(Mcp!Next)

AllSpec == AllInit /\ [][AllNext]_all

-----------------------------------------------------------------------------
(* The fairness of each, while it acts. *)

FolderFair ==
    /\ \A w \in Workers : WF_all(FolderActs(WorkerStep(w)))
    /\ WF_all(FolderActs(ScanSome)) /\ WF_all(FolderActs(ScanEnds))
    /\ WF_all(FolderActs(StopLoading \/ StartScan \/ FinishFolder))
    /\ SF_all(FolderActs(RunPost)) /\ SF_all(FolderActs(Drain))
    /\ \A d \in 1 .. MaxDirs :
          SF_all(FolderActs(RunFinIdle(d))) /\ SF_all(FolderActs(Timer(d)))
    /\ SF_all(FolderActs(ResumeWork)) /\ SF_all(FolderActs(Reparse))

BatchFair ==
    /\ WF_all(BatchActs(Batch!GuiStep))
    /\ \A t \in Threads : WF_all(BatchActs(Batch!WorkerStep(t)))

McpFair ==
    /\ WF_all(McpActs(Mcp!GtkStep)) /\ WF_all(McpActs(Mcp!ServerStep))
    /\ \A r \in Requests : WF_all(McpActs(Mcp!RequestStep(r)))

AllFairSpec == AllSpec /\ FolderFair /\ BatchFair /\ McpFair

-----------------------------------------------------------------------------
(* What is checked, beside the properties of FolderPreviews. *)

\* A restart would find the list of exports as it is.
Durable == IF acts = "crash" THEN Crash!Durable ELSE Batch!Durable

\* What was developed is not developed again.
DevelopedLeaves ==
    IF acts = "crash" THEN Crash!DevelopedLeaves ELSE Batch!DevelopedLeaves

\* A job in the queue is developed, or the user meddles.
EveryJobLeaves == Batch!EveryJobLeaves

\* A request that was told of a time-out has done nothing, and never will.
TimedOutDidNothing == Mcp!TimedOutDidNothing

\* Every request is answered.
EveryRequestAnswered == Mcp!EveryRequestAnswered

=============================================================================
