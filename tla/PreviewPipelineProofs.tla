----------------------- MODULE PreviewPipelineProofs -----------------------
(* What TLAPS proves about PreviewPipeline, for any number of photos and    *)
(* crops and any number of user operations.                                *)
EXTENDS PreviewPipeline, TLAPS

-----------------------------------------------------------------------------
(* Type lemmas about the records of the threads.                           *)

LEMMA Domains ==
    /\ None \notin Coords /\ None \notin Crops
    /\ Coords \subseteq Targets /\ Crops \subseteq Targets
    /\ \A k \in Crops : CoordOf[k] \in Coords
    /\ \A t \in Targets : Coord(t) \in Coords
    /\ Versions \subseteq Nat /\ 0 \in Versions /\ 1 \in Versions
    /\ \A n \in 0 .. MaxOps : n \in Versions /\ n + 1 \in Versions
    /\ \A n \in 0 .. MaxOps : n < MaxOps =>
          n + 1 \in 0 .. MaxOps /\ n + 2 \in Versions
BY PipelineAssumption DEF Targets, Coord, Versions

LEMMA GotoType ==
    ASSUME worker \in WorkerStates, NEW pc \in WorkerPCs, Goto(pc)
    PROVE  worker' \in WorkerStates
BY DEF Goto, WorkerStates

LEMMA LeaveType ==
    ASSUME worker \in WorkerStates PROVE LeavePass \in WorkerStates
BY Domains DEF LeavePass, WorkerStates, WorkerPCs

LEMMA RestingType == Resting \in WorkerStates
BY Domains DEF Resting, WorkerStates, WorkerPCs

LEMMA GuiGotoType ==
    ASSUME gui \in GuiStates, NEW pc \in GuiPCs
    PROVE  [gui EXCEPT !.pc = pc] \in GuiStates
BY DEF GuiStates

LEMMA GuiAtType ==
    ASSUME NEW pc \in GuiPCs, NEW t \in Targets
    PROVE  [pc |-> pc, on |-> t] \in GuiStates
BY DEF GuiStates

LEMMA IdleType == Idle \in GuiStates /\ Idle \in CleanupStates
BY DEF Idle, GuiStates, CleanupStates, GuiPCs, CleanupPCs

LEMMA CleanupGotoType ==
    ASSUME cleanup \in CleanupStates, NEW pc \in CleanupPCs
    PROVE  [cleanup EXCEPT !.pc = pc] \in CleanupStates
BY DEF CleanupStates

LEMMA AwayType ==
    ASSUME worker \in WorkerStates, NEW pc \in WorkerPCs,
           NEW g \in Versions, NEW k \in Crops \cup {None},
           NEW todo \in SUBSET Crops
    PROVE  [worker EXCEPT !.pc = pc, !.crop = k, !.geometry = g, !.todo = todo]
              \in WorkerStates
BY DEF WorkerStates

LEMMA EnqueueType ==
    ASSUME TypeOK, NEW t \in Targets, Enqueue(t)
    PROVE  tasks' \subseteq TaskRecords
<1>1. [at |-> ops, of |-> t, claimed |-> FALSE] \in TaskRecords
  BY Domains DEF TypeOK, TaskRecords
<1>2. Live \subseteq TaskRecords
  BY DEF Live, TypeOK
<1>3. QED
  BY <1>1, <1>2 DEF Enqueue

LEMMA CancelType ==
    ASSUME TypeOK, NEW handles, Cancel(handles)
    PROVE  tasks' \subseteq TaskRecords
<1>1. \A x \in TaskRecords :
          [x EXCEPT !.claimed = @ \/ x.of \in handles] \in TaskRecords
  BY DEF TaskRecords
<1>2. QED
  BY <1>1 DEF Cancel, TypeOK

LEMMA RememberType ==
    ASSUME TypeOK, NEW t \in Targets, Remember(t)
    PROVE  processingTasks' \in [Coords -> SUBSET Targets]
BY Domains DEF Remember, TypeOK

-----------------------------------------------------------------------------
(* Type correctness, thread by thread.                                     *)

\* The user's operations and what the GUI thread does for them keep the types.
LEMMA GuiKeepsTypes == ASSUME TypeOK, UserStep \/ GuiStep PROVE TypeOK'
<1> USE Domains, IdleType, GuiAtType, GuiGotoType, PipelineAssumption
<1> USE DEF TypeOK, Holders, GuiPCs, coordVars, cropVars, UserOperation
<1>1. ASSUME NEW c \in Coords, BeginUpdateParams(c) PROVE TypeOK'
  BY <1>1 DEF BeginUpdateParams
<1>2. ASSUME NEW c \in Coords, RequestPass(c) PROVE TypeOK'
  BY <1>2 DEF RequestPass
<1>3. ASSUME NEW c \in Coords, SignalStop(c) PROVE TypeOK'
  BY <1>3 DEF SignalStop
<1>4. ASSUME NEW c \in Coords, Close(c) PROVE TypeOK'
  BY <1>4 DEF Close
<1>5. ASSUME NEW k \in Crops, MoveWindow(k) PROVE TypeOK'
  <2>1. window' \in [Crops -> Versions] /\ ops' \in 0 .. MaxOps
    BY <1>5 DEF MoveWindow
  <2>2. gui' \in GuiStates /\ painted' \in [Crops -> Versions]
    <3>1. CASE listening[k]
      <4>1. /\ painted' = [painted EXCEPT ![k] = 0]
            /\ gui' = [pc |-> "request", on |-> k]
        BY <3>1, <1>5 DEF MoveWindow
      <4>2. QED BY <4>1
    <3>2. CASE ~ listening[k]
      BY <3>2, <1>5 DEF MoveWindow
    <3>3. QED BY <3>1, <3>2
  <2>3. QED
    BY <2>1, <2>2, <1>5 DEF MoveWindow
<1>6. ASSUME NEW k \in Crops, ZoomToFull(k) PROVE TypeOK'
  BY <1>6 DEF ZoomToFull
<1>7. ASSUME NEW k \in Crops, Enable(k) PROVE TypeOK'
  BY <1>7 DEF Enable
<1>8. ASSUME NEW k \in Crops, Disable(k) PROVE TypeOK'
  BY <1>8 DEF Disable
<1>9. ASSUME NEW c \in Coords, NEW action \in Actions, EndUpdateParams(c, action)
      PROVE  TypeOK'
  <2>1. /\ changeSinceLast' \in [Coords -> SUBSET Changes]
        /\ paramsUpdateMutex' \in
              [Coords -> {"gui", "worker", "cleanup", None}]
        /\ gui' \in GuiStates
    BY <1>9 DEF EndUpdateParams
  <2>2. PICK n \in Versions : nextParams' = [nextParams EXCEPT ![c] = n]
    BY <1>9 DEF EndUpdateParams
  <2>3. PICK v \in Versions : repairRequest' = [repairRequest EXCEPT ![c] = v]
    BY <1>9 DEF EndUpdateParams, UpdateSmartRepairRequest
  <2>4. /\ nextParams' \in [Coords -> Versions]
        /\ repairRequest' \in [Coords -> Versions]
    BY <2>2, <2>3
  <2>5. QED
    BY <2>1, <2>4, <1>9 DEF EndUpdateParams
<1>10. ASSUME NEW c \in Coords, NEW action \in Actions,
              StartProcessingCode(c, action)
       PROVE  TypeOK'
  BY <1>10 DEF StartProcessingCode
<1>11. ASSUME NEW c \in Coords, StartProcessing(c) PROVE TypeOK'
  BY <1>11 DEF StartProcessing
<1>12. ASSUME NEW c \in Coords, StartProcessingLocked(c) PROVE TypeOK'
  <2>1. tasks' \subseteq TaskRecords
    BY <1>12, EnqueueType DEF StartProcessingLocked
  <2>2. processingTasks' \in [Coords -> SUBSET Targets]
    BY <1>12, RememberType DEF StartProcessingLocked
  <2>3. updaterRunning' \in [Coords -> BOOLEAN]
    <3>1. CASE MayStart(c)
      <4>1. updaterRunning' = [updaterRunning EXCEPT ![c] = TRUE]
        BY <3>1, <1>12 DEF StartProcessingLocked
      <4>2. QED BY <4>1
    <3>2. CASE ~ MayStart(c)
      BY <3>2, <1>12 DEF StartProcessingLocked
    <3>3. QED BY <3>1, <3>2
  <2>4. QED
    BY <2>1, <2>2, <2>3, <1>12 DEF StartProcessingLocked
<1>13. ASSUME NEW c \in Coords, SignalCancel(c) PROVE TypeOK'
  BY <1>13, CancelType DEF SignalCancel
<1>14. ASSUME NEW k \in Crops, TryUpdate(k) PROVE TypeOK'
  BY <1>14 DEF TryUpdate
<1>15. ASSUME NEW k \in Crops, StartUpdate(k) PROVE TypeOK'
  <2>1. tasks' \subseteq TaskRecords
    BY <1>15, EnqueueType DEF StartUpdate
  <2>2. processingTasks' \in [Coords -> SUBSET Targets]
    BY <1>15, RememberType DEF StartUpdate
  <2>3. pending' \in [Crops -> BOOLEAN] /\ running' \in [Crops -> BOOLEAN]
    <3>1. CASE destroying[CoordOf[k]]
      <4>1. /\ pending' = [pending EXCEPT ![k] = FALSE]
            /\ running' = [running EXCEPT ![k] = FALSE]
        BY <3>1, <1>15 DEF StartUpdate
      <4>2. QED BY <4>1
    <3>2. CASE ~ destroying[CoordOf[k]]
      BY <3>2, <1>15 DEF StartUpdate
    <3>3. QED BY <3>1, <3>2
  <2>4. QED
    BY <2>1, <2>2, <2>3, <1>15 DEF StartUpdate
<1>16. ASSUME NEW c \in Coords, CancelRepairs(c) PROVE TypeOK'
  BY <1>16 DEF CancelRepairs
<1>17. ASSUME NEW c \in Coords, RetryRepairs(c) PROVE TypeOK'
  BY <1>17 DEF RetryRepairs
<1>18. QED
  BY <1>1, <1>2, <1>3, <1>4, <1>5, <1>6, <1>7, <1>8, <1>9, <1>10, <1>11, <1>12,
     <1>13, <1>14, <1>15, <1>16, <1>17 DEF UserStep, GuiStep

\* So does the thread that closes photos.
LEMMA CleanupKeepsTypes == ASSUME TypeOK, CleanupStep PROVE TypeOK'
<1> USE Domains, IdleType, CleanupGotoType
<1> USE DEF TypeOK, CleanupPCs, coordVars, cropVars
<1>1. ASSUME NEW c \in Coords, CleanupStart(c) PROVE TypeOK'
  BY <1>1 DEF CleanupStart, CleanupStates
<1>2. ASSUME NEW c \in Coords, CleanupCancel(c) PROVE TypeOK'
  BY <1>2, CancelType DEF CleanupCancel
<1>3. ASSUME NEW c \in Coords, CleanupWait(c) PROVE TypeOK'
  BY <1>3 DEF CleanupWait
<1>4. ASSUME NEW c \in Coords, CleanupDrain(c) PROVE TypeOK'
  BY <1>4 DEF CleanupDrain
<1>5. ASSUME NEW c \in Coords, CleanupFree(c) PROVE TypeOK'
  BY <1>5 DEF CleanupFree
<1>6. QED
  BY <1>1, <1>2, <1>3, <1>4, <1>5 DEF CleanupStep

\* So does process().
LEMMA ProcessKeepsTypes ==
    ASSUME TypeOK, NEW c \in Coords, ProcessStep(c) PROVE TypeOK'
<1> USE Domains, GotoType, RestingType
<1> USE DEF TypeOK, Holders, WorkerPCs, processFrame, cropVars
<1>1. ASSUME ProcessEnter(c) PROVE TypeOK'
  BY <1>1 DEF ProcessEnter
<1>2. ASSUME ProcessLock(c) PROVE TypeOK'
  BY <1>2 DEF ProcessLock
<1>3. ASSUME ProcessStop(c) PROVE TypeOK'
  BY <1>3 DEF ProcessStop
<1>4. ASSUME ProcessStopped(c) PROVE TypeOK'
  BY <1>4 DEF ProcessStopped
<1>5. ASSUME ProcessQuiet(c) PROVE TypeOK'
  BY <1>5 DEF ProcessQuiet
<1>6. ASSUME ProcessQuietProgress(c) PROVE TypeOK'
  BY <1>6 DEF ProcessQuietProgress
<1>7. ASSUME ProcessRecheck(c) PROVE TypeOK'
  BY <1>7 DEF ProcessRecheck
<1>8. ASSUME ProcessResume(c) PROVE TypeOK'
  BY <1>8 DEF ProcessResume
<1>9. ASSUME ProcessRelease(c) PROVE TypeOK'
  BY <1>9 DEF ProcessRelease
<1>10. ASSUME ProcessClaim(c) PROVE TypeOK'
  <2>1. worker' \in WorkerStates
    BY <1>10 DEF ProcessClaim, WorkerStates
  <2>2. QED BY <2>1, <1>10 DEF ProcessClaim
<1>11. QED
  BY <1>1, <1>2, <1>3, <1>4, <1>5, <1>6, <1>7, <1>8, <1>9, <1>10
     DEF ProcessStep

\* So does updatePreviewImage().
LEMMA RenderKeepsTypes ==
    ASSUME TypeOK, NEW c \in Coords, RenderStep(c) PROVE TypeOK'
<1> USE Domains, GotoType, LeaveType
<1> USE DEF TypeOK, Holders, WorkerPCs, renderFrame
<1>1. ASSUME RenderBegin(c) PROVE TypeOK'
  BY <1>1 DEF RenderBegin
<1>2. ASSUME RenderOverview(c) PROVE TypeOK'
  <2>1. worker' \in WorkerStates
    BY <1>2, ZenonT(20) DEF RenderOverview, WorkerStates, CropsOf
  <2>2. unfinished' \in [Targets -> SUBSET RenderFlags]
    BY <1>2 DEF RenderOverview
  <2>3. UNCHANGED <<renderFrame, mProcessing, cropMutex, painted, shown>>
    BY <1>2 DEF RenderOverview
  <2>4. QED BY <2>1, <2>2, <2>3, SMTT(30)
<1>3. ASSUME RenderAbort(c) PROVE TypeOK'
  <2>1. unfinished' \in [Targets -> SUBSET RenderFlags]
    BY <1>3 DEF RenderAbort, WorkerStates
  <2>2. QED BY <2>1, <1>3 DEF RenderAbort
<1>4. ASSUME RenderEnd(c) PROVE TypeOK'
  BY <1>4 DEF RenderEnd
<1>5. ASSUME NEW k \in Crops, CropSkip(c, k) PROVE TypeOK'
  <2>1. worker' \in WorkerStates
    BY <1>5 DEF CropSkip, WorkerStates
  <2>2. QED BY <2>1, <1>5 DEF CropSkip
<1>6. ASSUME NEW k \in Crops, CropBegin(c, k) PROVE TypeOK'
  <2>1. worker' \in WorkerStates
    BY <1>6 DEF CropBegin, WorkerStates
  <2>2. QED BY <2>1, <1>6 DEF CropBegin
<1> HIDE DEF TypeOK, WorkerPCs, Holders, renderFrame
<1>7. QED
  BY <1>1, <1>2, <1>3, <1>4, <1>5, <1>6, Zenon DEF RenderStep

\* So do Crop::update() and fullUpdate().
LEMMA CropKeepsTypes ==
    ASSUME TypeOK, NEW k \in Crops, CropStep(k) PROVE TypeOK'
<1> USE Domains, GotoType, RestingType
<1> USE DEF TypeOK, Holders, WorkerPCs
<1>0. ASSUME CropFinish(k) PROVE TypeOK'
  <2>1. worker' \in WorkerStates
    BY <1>0 DEF CropFinish, AfterCrop, WorkerStates
  <2>2. cropMutex' \in [Crops -> {"gui", "worker", "cleanup", None}]
    BY <1>0 DEF CropFinish
  <2>3. unfinished' \in [Targets -> SUBSET RenderFlags]
    BY <1>0 DEF CropFinish
  <2>4. QED BY <2>1, <2>2, <2>3, <1>0 DEF CropFinish, renderFrame
<1>1. ASSUME CropDeliver(k) PROVE TypeOK'
  <2>1. worker' \in WorkerStates
    BY <1>1 DEF CropDeliver, AfterCrop, WorkerStates
  <2>2. worker.geometry \in Versions
    BY DEF WorkerStates
  <2>3. /\ painted' \in [Crops -> Versions]
        /\ shown' \in [Crops -> Versions]
    <3>1. CASE Accepted(k)
      <4>1. /\ painted' = [painted EXCEPT ![k] = worker.geometry]
            /\ shown' = [shown EXCEPT ![k] = params[CoordOf[k]]]
        BY <3>1, <1>1 DEF CropDeliver
      <4>2. QED BY <4>1, <2>2
    <3>2. CASE ~ Accepted(k)
      BY <3>2, <1>1 DEF CropDeliver
    <3>3. QED BY <3>1, <3>2
  <2>4. QED BY <2>1, <2>3, <1>1 DEF CropDeliver, renderFrame
<1>2. ASSUME PassThrow(k) PROVE TypeOK'
  <2>1. worker' \in WorkerStates
    BY <1>2, LeaveType DEF PassThrow
  <2>2. unfinished' \in [Targets -> SUBSET RenderFlags]
    BY <1>2 DEF PassThrow, WorkerStates
  <2>3. QED BY <2>1, <2>2, <1>2 DEF PassThrow, renderFrame
<1>10. ASSUME FullThrow(k) PROVE TypeOK'
  <2>1. worker' \in WorkerStates
    BY <1>10 DEF FullThrow, WorkerStates
  <2>2. QED BY <2>1, <1>10 DEF FullThrow, renderFrame
<1>3. ASSUME FullEnter(k) PROVE TypeOK'
  BY <1>3 DEF FullEnter, fullFrame
<1>4. ASSUME FullRefused(k) PROVE TypeOK'
  BY <1>4 DEF FullRefused, fullFrame
<1>5. ASSUME TakePending(k) PROVE TypeOK'
  BY <1>5 DEF TakePending, fullFrame
<1>6. ASSUME TakeNothing(k) PROVE TypeOK'
  BY <1>6 DEF TakeNothing, fullFrame
<1>7. ASSUME FullCrop(k) PROVE TypeOK'
  <2>1. worker' \in WorkerStates
    BY <1>7 DEF FullCrop, WorkerStates
  <2>2. QED BY <2>1, <1>7 DEF FullCrop, fullFrame
<1>8. ASSUME FullLeave(k) PROVE TypeOK'
  BY <1>8 DEF FullLeave, fullFrame
<1>9. QED
  BY <1>0, <1>1, <1>2, <1>3, <1>4, <1>5, <1>6, <1>7, <1>8, <1>10 DEF CropStep

\* So does taking a task off the queue.
LEMMA TakeTaskKeepsTypes == ASSUME TypeOK, TakeTask PROVE TypeOK'
<1>1. PICK x \in tasks :
          /\ tasks' = tasks \ {x}
          /\ worker' = IF x.claimed THEN worker
                       ELSE [worker EXCEPT !.job = x.of,
                                !.pc = IF x.of \in Coords
                                       THEN "enter" ELSE "fullEnter"]
  BY DEF TakeTask
<1>2. x.of \in Targets
  BY DEF TypeOK, TaskRecords
<1>3. worker' \in WorkerStates
  BY <1>1, <1>2 DEF TypeOK, WorkerStates, WorkerPCs
<1>4. QED
  BY <1>1, <1>3 DEF TakeTask, TypeOK, coordVars, cropVars

\* Every variable keeps its type, in every reachable state.
THEOREM TypeCorrect == Spec => []TypeOK
<1>1. Init => TypeOK
  BY Domains, RestingType, IdleType, PipelineAssumption
     DEF Init, TypeOK, Holders
<1>2. TypeOK /\ [Next]_vars => TypeOK'
  <2> SUFFICES ASSUME TypeOK, [Next]_vars PROVE TypeOK'
    OBVIOUS
  <2>1. CASE UserStep \/ GuiStep
    BY <2>1, GuiKeepsTypes
  <2>2. CASE CleanupStep
    BY <2>2, CleanupKeepsTypes
  <2>3. CASE WorkerStep
    BY <2>3, TakeTaskKeepsTypes, ProcessKeepsTypes, RenderKeepsTypes,
       CropKeepsTypes DEF WorkerStep
  <2>4. CASE Finished \/ UNCHANGED vars
    BY <2>4 DEF Finished, vars, coordVars, cropVars, TypeOK
  <2>5. QED
    BY <2>1, <2>2, <2>3, <2>4 DEF Next
<1>3. QED
  BY <1>1, <1>2, PTL DEF Spec

-----------------------------------------------------------------------------
(* The inductive invariant.                                                *)
(*                                                                         *)
(* NoLostEdit, UpdaterIsAlive and NoLostWindow are not inductive alone:    *)
(* that an updater on its way out has nothing left to do (NothingLeft)     *)
(* needs the GUI kept out of endUpdateParams() until the claim is given up *)
(* (ParamsHolders), and that a claim still has its task needs cancelled    *)
(* tasks to belong to stopping photos (OnlyStoppingIsCancelled).           *)

LEMMA GotoFields ==
    ASSUME worker \in WorkerStates, NEW pc \in WorkerPCs, Goto(pc)
    PROVE  /\ worker'.pc = pc /\ worker'.job = worker.job
           /\ worker'.crop = worker.crop /\ worker'.geometry = worker.geometry
           /\ worker'.todo = worker.todo /\ worker'.change = worker.change
BY DEF Goto, WorkerStates

LEMMA LeaveFields ==
    ASSUME worker \in WorkerStates
    PROVE  LeavePass.pc = "lock" /\ LeavePass.job = worker.job
BY DEF LeavePass, WorkerStates

LEMMA RestingFields == Resting.pc = "idle" /\ Resting.job = None
BY DEF Resting

LEMMA GuiGotoFields ==
    ASSUME gui \in GuiStates, NEW pc \in GuiPCs, gui' = [gui EXCEPT !.pc = pc]
    PROVE  gui'.pc = pc /\ gui'.on = gui.on
BY DEF GuiStates

\* What is live after enqueue(): what was, and the new task.
LEMMA EnqueueLive ==
    ASSUME TypeOK, NEW t \in Targets, Enqueue(t)
    PROVE  /\ \A u \in Targets : Queued(u)' <=> Queued(u) \/ u = t
           /\ \A x \in tasks' : ~ x.claimed
<1> DEFINE new == [at |-> ops, of |-> t, claimed |-> FALSE]
<1>1. new.of = t /\ ~ new.claimed
  OBVIOUS
<1>2. tasks' = Live \cup {new}
  BY DEF Enqueue
<1> HIDE DEF new
<1>3. \A x \in tasks' : ~ x.claimed
  BY <1>1, <1>2 DEF Live
<1>4. ASSUME NEW u \in Targets PROVE Queued(u)' <=> Queued(u) \/ u = t
  BY <1>1, <1>2, <1>3 DEF Queued, Live
<1>5. QED
  BY <1>3, <1>4

\* What is live after cancelling: what was not cancelled.
LEMMA CancelLive ==
    ASSUME TypeOK, NEW handles \in SUBSET Targets, Cancel(handles)
    PROVE  /\ \A u \in Targets : Queued(u)' <=> Queued(u) /\ u \notin handles
           /\ \A y \in tasks' : y.claimed =>
                 y.of \in handles \/ \E x \in tasks : x.claimed /\ x.of = y.of
<1> DEFINE Claim(x) == [x EXCEPT !.claimed = @ \/ x.of \in handles]
<1>1. \A x \in tasks :
          /\ Claim(x).of = x.of
          /\ Claim(x).claimed <=> x.claimed \/ x.of \in handles
  BY DEF TypeOK, TaskRecords
<1>2. tasks' = {Claim(x) : x \in tasks}
  BY DEF Cancel
<1>3. \A y \in tasks' : \E x \in tasks : y = Claim(x)
  BY <1>2
<1>4. \A x \in tasks : Claim(x) \in tasks'
  BY <1>2
<1> HIDE DEF Claim
<1>5. ASSUME NEW u \in Targets
      PROVE  Queued(u)' <=> Queued(u) /\ u \notin handles
  <2>1. ASSUME Queued(u)' PROVE Queued(u) /\ u \notin handles
    BY <2>1, <1>1, <1>3 DEF Queued, Live
  <2>2. ASSUME Queued(u), u \notin handles PROVE Queued(u)'
    BY <2>2, <1>1, <1>4 DEF Queued, Live
  <2>3. QED BY <2>1, <2>2
<1>6. QED
  BY <1>1, <1>3, <1>5

\* What is live after the worker took a task.
LEMMA TakenLive ==
    ASSUME TypeOK, NEW x \in tasks, tasks' = tasks \ {x}
    PROVE  \A u \in Targets : Queued(u) =>
              Queued(u)' \/ (~ x.claimed /\ x.of = u)
BY DEF Queued, Live

\* The same of the tasks that a coordinator has recorded.
LEMMA CancelOwnLive ==
    ASSUME TypeOK, NEW c \in Coords, processingTasks[c] \in SUBSET Targets,
           Cancel(processingTasks[c])
    PROVE  /\ \A u \in Targets :
                  Queued(u)' <=> Queued(u) /\ u \notin processingTasks[c]
           /\ \A y \in tasks' : y.claimed =>
                  \/ y.of \in processingTasks[c]
                  \/ \E x \in tasks : x.claimed /\ x.of = y.of
BY CancelLive

\* Tasks that stay are queued as before.
LEMMA QueuedSame ==
    ASSUME UNCHANGED tasks PROVE \A t \in Targets : Queued(t)' <=> Queued(t)
BY DEF Queued, Live

\* A target that Remember() records belongs to its own coordinator.
LEMMA RememberOwn ==
    ASSUME TypeOK, NEW t \in Targets, Remember(t),
           \A c \in Coords : \A u \in processingTasks[c] : Coord(u) = c
    PROVE  (\A c \in Coords : \A u \in processingTasks[c] : Coord(u) = c)'
<1>1. TypeOK' => processingTasks' \in [Coords -> SUBSET Targets]
  BY DEF TypeOK
<1>2. SUFFICES ASSUME NEW c \in Coords, NEW u \in processingTasks'[c]
               PROVE  Coord(u) = c
  BY DEF Coord
<1>3. u \in processingTasks[c] \/ (u = t /\ c = Coord(t))
  BY Domains DEF Remember, TypeOK
<1>4. QED
  BY <1>3

\* The user's operations keep the invariant.
LEMMA UserKeepsInv == ASSUME TypeOK, IInv, UserStep PROVE IInv'
<1> USE Domains
<1> USE DEF IInv, ThreadShape, DeliveryIsSeen, ParamsHolders, NothingLeft,
        OnlyStoppingIsCancelled, VersionOrder, NoLostEdit, WillStart,
        UpdaterIsAlive, NoLostWindow, Incomplete
<1>0. ASSUME ops' = ops + 1, UNCHANGED <<shown, params, nextParams>>,
             gui'.pc = "editing" => gui'.on \in Coords
      PROVE  VersionOrder'
  BY <1>0 DEF TypeOK, Versions
<1> USE DEF Queued, Live, TypeOK, coordVars, cropVars, UserOperation, None
<1>1. ASSUME NEW c \in Coords, BeginUpdateParams(c) PROVE IInv'
  <2>1. VersionOrder'
    BY <1>0, <1>1 DEF BeginUpdateParams
  <2>2. ThreadShape' /\ DeliveryIsSeen' /\ ParamsHolders' /\ NothingLeft'
    BY <1>1 DEF BeginUpdateParams
  <2>3. OnlyStoppingIsCancelled' /\ NoLostEdit'
    BY <1>1 DEF BeginUpdateParams, Coord
  <2>4. UpdaterIsAlive' /\ NoLostWindow'
    BY <1>1 DEF BeginUpdateParams
  <2>5. QED
    BY <2>1, <2>2, <2>3, <2>4
<1>2. ASSUME NEW c \in Coords, RequestPass(c) PROVE IInv'
  <2>1. VersionOrder'
    BY <1>0, <1>2 DEF RequestPass
  <2>2. ThreadShape' /\ DeliveryIsSeen' /\ ParamsHolders' /\ NothingLeft'
    BY <1>2 DEF RequestPass
  <2>3. OnlyStoppingIsCancelled' /\ NoLostEdit'
    BY <1>2 DEF RequestPass, Coord
  <2>4. UpdaterIsAlive' /\ NoLostWindow'
    BY <1>2 DEF RequestPass
  <2>5. QED
    BY <2>1, <2>2, <2>3, <2>4
<1>3. ASSUME NEW c \in Coords, SignalStop(c) PROVE IInv'
  BY <1>3 DEF SignalStop
<1>4. ASSUME NEW c \in Coords, Close(c) PROVE IInv'
  BY <1>4 DEF Close
<1>5. ASSUME NEW k \in Crops, MoveWindow(k) PROVE IInv'
  <2>1. VersionOrder'
    BY <1>0, <1>5 DEF MoveWindow
  <2>2. ThreadShape' /\ DeliveryIsSeen' /\ ParamsHolders' /\ NothingLeft'
    BY <1>5 DEF MoveWindow
  <2>3. OnlyStoppingIsCancelled' /\ NoLostEdit'
    BY <1>5 DEF MoveWindow, Coord
  <2>4. UpdaterIsAlive' /\ NoLostWindow'
    BY <1>5 DEF MoveWindow
  <2>5. QED
    BY <2>1, <2>2, <2>3, <2>4
<1>6. ASSUME NEW k \in Crops, ZoomToFull(k) PROVE IInv'
  <2>1. VersionOrder'
    BY <1>0, <1>6 DEF ZoomToFull
  <2>2. ThreadShape' /\ DeliveryIsSeen' /\ ParamsHolders' /\ NothingLeft'
    BY <1>6 DEF ZoomToFull
  <2>3. OnlyStoppingIsCancelled' /\ NoLostEdit'
    BY <1>6 DEF ZoomToFull, Coord
  <2>4. UpdaterIsAlive' /\ NoLostWindow'
    BY <1>6 DEF ZoomToFull
  <2>5. QED
    BY <2>1, <2>2, <2>3, <2>4
<1>7. ASSUME NEW k \in Crops, Enable(k) PROVE IInv'
  <2>1. VersionOrder'
    BY <1>0, <1>7 DEF Enable
  <2>2. ThreadShape' /\ DeliveryIsSeen' /\ ParamsHolders' /\ NothingLeft'
    BY <1>7 DEF Enable
  <2>3. OnlyStoppingIsCancelled' /\ NoLostEdit'
    BY <1>7 DEF Enable, Coord
  <2>4. UpdaterIsAlive' /\ NoLostWindow'
    BY <1>7 DEF Enable
  <2>5. QED
    BY <2>1, <2>2, <2>3, <2>4
<1>8. ASSUME NEW k \in Crops, Disable(k) PROVE IInv'
  <2>1. VersionOrder'
    BY <1>0, <1>8 DEF Disable
  <2>2. ThreadShape' /\ DeliveryIsSeen' /\ ParamsHolders' /\ NothingLeft'
    BY <1>8 DEF Disable
  <2>3. OnlyStoppingIsCancelled' /\ NoLostEdit'
    BY <1>8 DEF Disable, Coord
  <2>4. UpdaterIsAlive' /\ NoLostWindow'
    BY <1>8 DEF Disable
  <2>5. QED
    BY <2>1, <2>2, <2>3, <2>4
<1>9. ASSUME NEW c \in Coords, CancelRepairs(c) PROVE IInv'
  <2>1. VersionOrder'
    BY <1>0, <1>9 DEF CancelRepairs
  <2>2. ThreadShape' /\ DeliveryIsSeen' /\ ParamsHolders' /\ NothingLeft'
    BY <1>9 DEF CancelRepairs
  <2>3. OnlyStoppingIsCancelled' /\ NoLostEdit'
    BY <1>9 DEF CancelRepairs, Coord
  <2>4. UpdaterIsAlive' /\ NoLostWindow'
    BY <1>9 DEF CancelRepairs
  <2>5. QED
    BY <2>1, <2>2, <2>3, <2>4
<1>10. ASSUME NEW c \in Coords, RetryRepairs(c) PROVE IInv'
  <2>1. VersionOrder'
    BY <1>0, <1>10 DEF RetryRepairs
  <2>2. ThreadShape' /\ DeliveryIsSeen' /\ ParamsHolders' /\ NothingLeft'
    BY <1>10 DEF RetryRepairs
  <2>3. OnlyStoppingIsCancelled' /\ NoLostEdit'
    BY <1>10 DEF RetryRepairs, Coord
  <2>4. UpdaterIsAlive' /\ NoLostWindow'
    BY <1>10 DEF RetryRepairs
  <2>5. QED
    BY <2>1, <2>2, <2>3, <2>4
<1>11. QED
  BY <1>1, <1>2, <1>3, <1>4, <1>5, <1>6, <1>7, <1>8, <1>9, <1>10
     DEF UserStep

\* What the GUI thread goes on to do keeps the invariant.
LEMMA GuiKeepsInv == ASSUME TypeOK, IInv, GuiStep PROVE IInv'
<1> USE Domains, QueuedSame, GuiGotoFields
<1> USE DEF IInv, ThreadShape, DeliveryIsSeen, ParamsHolders, NothingLeft,
        OnlyStoppingIsCancelled, VersionOrder, NoLostEdit, WillStart,
        UpdaterIsAlive, NoLostWindow, Incomplete
<1> USE DEF TypeOK, coordVars, cropVars, GuiPCs, Idle, None
<1>1. ASSUME NEW c \in Coords, NEW action \in Actions, EndUpdateParams(c, action)
      PROVE  IInv'
  <2>1. /\ gui'.pc = "start" /\ gui'.on = c
        /\ gui.pc = "editing" /\ gui.on = c
    BY <1>1 DEF EndUpdateParams
  <2>2. /\ ThreadShape' /\ DeliveryIsSeen' /\ ParamsHolders'
        /\ OnlyStoppingIsCancelled'
    BY <2>1, <1>1 DEF EndUpdateParams
  <2>3. NothingLeft' /\ NoLostEdit'
    BY <2>1, <1>1 DEF EndUpdateParams
  <2>4. VersionOrder'
    <3>1. PICK n \in {nextParams[c], ops} : nextParams' = [nextParams EXCEPT ![c] = n]
      BY <1>1 DEF EndUpdateParams
    <3>2. QED
      BY <2>1, <3>1, <1>1 DEF EndUpdateParams, Versions
  <2>5. UpdaterIsAlive' /\ NoLostWindow'
    BY <2>1, <1>1 DEF EndUpdateParams
  <2>6. QED
    BY <2>2, <2>3, <2>4, <2>5
<1>2. ASSUME NEW c \in Coords, NEW action \in Actions, StartProcessingCode(c, action)
      PROVE  IInv'
  BY <1>2 DEF StartProcessingCode
<1>3. ASSUME NEW c \in Coords, StartProcessing(c) PROVE IInv'
  BY <1>3 DEF StartProcessing
<1>4. ASSUME NEW c \in Coords, StartProcessingLocked(c) PROVE IInv'
  <2>1. CASE MayStart(c)
    <3>1. /\ updaterRunning' = [updaterRunning EXCEPT ![c] = TRUE]
          /\ Enqueue(c) /\ Remember(c)
      BY <2>1, <1>4 DEF StartProcessingLocked
    <3>2. /\ \A u \in Targets : Queued(u)' <=> Queued(u) \/ u = c
          /\ \A x \in tasks' : ~ x.claimed
      BY <3>1, EnqueueLive
    <3>3. OnlyStoppingIsCancelled'
      BY <3>1, <3>2, RememberOwn, <1>4 DEF StartProcessingLocked
    <3>4. /\ ThreadShape' /\ DeliveryIsSeen' /\ ParamsHolders'
          /\ NothingLeft' /\ VersionOrder'
      BY <1>4 DEF StartProcessingLocked
    <3>5. NoLostEdit'
      BY <3>1, <1>4 DEF StartProcessingLocked
    <3>6. UpdaterIsAlive' /\ NoLostWindow'
      BY <3>1, <3>2, <1>4 DEF StartProcessingLocked
    <3>7. QED
      BY <3>3, <3>4, <3>5, <3>6
  <2>2. CASE ~ MayStart(c)
    <3>1. UNCHANGED <<updaterRunning, tasks, processingTasks>>
      BY <2>2, <1>4 DEF StartProcessingLocked
    <3>2. /\ ThreadShape' /\ DeliveryIsSeen' /\ ParamsHolders'
          /\ NothingLeft' /\ VersionOrder'
      BY <1>4 DEF StartProcessingLocked
    <3>3. OnlyStoppingIsCancelled'
      BY <3>1, <1>4 DEF StartProcessingLocked, Coord
    <3>4. NoLostEdit'
      <4>1. gui.on = c /\ (destroying[c] \/ updaterRunning[c])
        BY <2>2, <1>4 DEF StartProcessingLocked, MayStart
      <4>2. UNCHANGED <<changeSinceLast, destroying, updaterRunning>>
        BY <3>1, <1>4 DEF StartProcessingLocked
      <4>3. QED
        BY <4>1, <4>2
    <3>5. UpdaterIsAlive' /\ NoLostWindow'
      BY <3>1, <1>4 DEF StartProcessingLocked
    <3>6. QED
      BY <3>2, <3>3, <3>4, <3>5
  <2>3. QED
    BY <2>1, <2>2
<1>5. ASSUME NEW c \in Coords, SignalCancel(c) PROVE IInv'
  <2>1. /\ destroying[c] /\ \A u \in processingTasks[c] : Coord(u) = c
        /\ processingTasks[c] \in SUBSET Targets /\ Cancel(processingTasks[c])
    BY <1>5 DEF SignalCancel
  <2>2. /\ \A u \in Targets : Queued(u)' <=>
              Queued(u) /\ u \notin processingTasks[c]
        /\ \A y \in tasks' : y.claimed =>
              \/ y.of \in processingTasks[c]
              \/ \E x \in tasks : x.claimed /\ x.of = y.of
    BY ONLY TypeOK, <2>1, CancelOwnLive
  <2>3. OnlyStoppingIsCancelled'
    <3>1. \A y \in tasks' : y.claimed => destroying[Coord(y.of)]
      BY <2>1, <2>2
    <3>2. UNCHANGED <<destroying, life, worker>>
      BY <1>5 DEF SignalCancel
    <3>3. QED
      BY <2>1, <3>1, <3>2, <1>5 DEF SignalCancel, Coord
  <2>4. /\ ThreadShape' /\ DeliveryIsSeen' /\ ParamsHolders' /\ NothingLeft'
        /\ VersionOrder' /\ NoLostEdit'
    BY <1>5 DEF SignalCancel
  <2>5. UpdaterIsAlive' /\ NoLostWindow'
    BY <2>1, <2>2, <1>5, PipelineAssumption DEF SignalCancel, Coord, Targets
  <2>6. QED
    BY <2>3, <2>4, <2>5
<1>6. ASSUME NEW k \in Crops, TryUpdate(k) PROVE IInv'
  BY <1>6 DEF TryUpdate
<1>7. ASSUME NEW k \in Crops, StartUpdate(k) PROVE IInv'
  <2>1. CASE destroying[CoordOf[k]]
    <3>1. /\ pending' = [pending EXCEPT ![k] = FALSE]
          /\ running' = [running EXCEPT ![k] = FALSE]
          /\ UNCHANGED <<tasks, processingTasks>>
      BY <2>1, <1>7 DEF StartUpdate
    <3>2. QED
      BY <3>1, <1>7 DEF StartUpdate
  <2>2. CASE ~ destroying[CoordOf[k]]
    <3>1. Enqueue(k) /\ Remember(k) /\ UNCHANGED <<pending, running>>
      BY <2>2, <1>7 DEF StartUpdate
    <3>2. /\ \A u \in Targets : Queued(u)' <=> Queued(u) \/ u = k
          /\ \A x \in tasks' : ~ x.claimed
      BY <3>1, EnqueueLive
    <3>3. OnlyStoppingIsCancelled'
      BY <3>1, <3>2, RememberOwn, <1>7 DEF StartUpdate
    <3>4. /\ ThreadShape' /\ DeliveryIsSeen' /\ ParamsHolders'
          /\ NothingLeft' /\ VersionOrder'
          /\ NoLostEdit'
      BY <1>7 DEF StartUpdate
    <3>5. UpdaterIsAlive' /\ NoLostWindow'
      BY <3>1, <3>2, <1>7 DEF StartUpdate
    <3>6. QED
      BY <3>3, <3>4, <3>5
  <2>3. QED
    BY <2>1, <2>2
<1>8. QED
  BY <1>1, <1>2, <1>3, <1>4, <1>5, <1>6, <1>7 DEF GuiStep

\* So does the thread that closes photos.
LEMMA CleanupKeepsInv == ASSUME TypeOK, IInv, CleanupStep PROVE IInv'
<1> USE Domains, QueuedSame
<1> USE DEF IInv, ThreadShape, DeliveryIsSeen, ParamsHolders, NothingLeft,
        OnlyStoppingIsCancelled, VersionOrder, NoLostEdit, WillStart,
        UpdaterIsAlive, NoLostWindow, Incomplete
<1> USE DEF TypeOK, coordVars, cropVars, CleanupStates, CleanupPCs, Idle
<1>1. ASSUME NEW c \in Coords, CleanupStart(c) PROVE IInv'
  BY <1>1 DEF CleanupStart
<1>2. ASSUME NEW c \in Coords, CleanupCancel(c) PROVE IInv'
  <2>1. /\ destroying[c] /\ \A u \in processingTasks[c] : Coord(u) = c
        /\ processingTasks[c] \in SUBSET Targets /\ Cancel(processingTasks[c])
    BY <1>2 DEF CleanupCancel
  <2>2. /\ \A u \in Targets : Queued(u)' <=>
              Queued(u) /\ u \notin processingTasks[c]
        /\ \A y \in tasks' : y.claimed =>
              \/ y.of \in processingTasks[c]
              \/ \E x \in tasks : x.claimed /\ x.of = y.of
    BY ONLY TypeOK, <2>1, CancelOwnLive
  <2>3. OnlyStoppingIsCancelled'
    <3>1. \A y \in tasks' : y.claimed => destroying[Coord(y.of)]
      BY <2>1, <2>2
    <3>2. UNCHANGED <<destroying, life, worker>>
      BY <1>2 DEF CleanupCancel
    <3>3. QED
      BY <2>1, <3>1, <3>2, <1>2 DEF CleanupCancel, Coord
  <2>4. /\ ThreadShape' /\ DeliveryIsSeen' /\ ParamsHolders' /\ NothingLeft'
        /\ VersionOrder' /\ NoLostEdit'
    BY <1>2 DEF CleanupCancel
  <2>5. UpdaterIsAlive' /\ NoLostWindow'
    BY <2>1, <2>2, <1>2, PipelineAssumption DEF CleanupCancel, Coord, Targets
  <2>6. QED
    BY <2>3, <2>4, <2>5
<1>3. ASSUME NEW c \in Coords, CleanupWait(c) PROVE IInv'
  BY <1>3 DEF CleanupWait
<1>4. ASSUME NEW c \in Coords, CleanupDrain(c) PROVE IInv'
  BY <1>4 DEF CleanupDrain
<1>5. ASSUME NEW c \in Coords, CleanupFree(c) PROVE IInv'
  BY <1>5 DEF CleanupFree
<1>6. QED
  BY <1>1, <1>2, <1>3, <1>4, <1>5 DEF CleanupStep

\* So does process().
LEMMA ProcessKeepsInv ==
    ASSUME TypeOK, IInv, NEW c \in Coords, ProcessStep(c) PROVE IInv'
<1> USE Domains, QueuedSame, GotoFields, RestingFields
<1> USE DEF IInv, ThreadShape, DeliveryIsSeen, ParamsHolders, NothingLeft,
        OnlyStoppingIsCancelled, VersionOrder, NoLostEdit, WillStart,
        UpdaterIsAlive, NoLostWindow, Incomplete
<1> USE DEF TypeOK, WorkerPCs, processFrame, cropVars, At, None
<1>1. ASSUME ProcessEnter(c) PROVE IInv'
  BY <1>1 DEF ProcessEnter
<1>2. ASSUME ProcessLock(c) PROVE IInv'
  BY <1>2 DEF ProcessLock
<1>3. ASSUME ProcessStop(c) PROVE IInv'
  BY <1>3 DEF ProcessStop
<1>4. ASSUME ProcessStopped(c) PROVE IInv'
  <2>1. worker.job = c /\ worker'.pc = "idle" /\ worker'.job = None
    BY <1>4 DEF ProcessStopped
  <2>2. /\ ThreadShape' /\ DeliveryIsSeen' /\ ParamsHolders'
        /\ NothingLeft' /\ VersionOrder'
    BY <2>1, <1>4 DEF ProcessStopped
  <2>3. OnlyStoppingIsCancelled' /\ NoLostEdit'
    BY <2>1, <1>4 DEF ProcessStopped
  <2>4. UpdaterIsAlive'
    BY <2>1, <1>4 DEF ProcessStopped
  <2>5. NoLostWindow'
    <3>1. c \notin Crops
      BY PipelineAssumption
    <3>2. QED
      BY <2>1, <3>1, <1>4 DEF ProcessStopped
  <2>6. QED
    BY <2>2, <2>3, <2>4, <2>5
<1>5. ASSUME ProcessQuiet(c) PROVE IInv'
  BY <1>5 DEF ProcessQuiet
<1>6. ASSUME ProcessQuietProgress(c) PROVE IInv'
  BY <1>6 DEF ProcessQuietProgress
<1>7. ASSUME ProcessRecheck(c) PROVE IInv'
  BY <1>7 DEF ProcessRecheck
<1>8. ASSUME ProcessResume(c) PROVE IInv'
  BY <1>8 DEF ProcessResume
<1>9. ASSUME ProcessRelease(c) PROVE IInv'
  <2>1. worker.job = c /\ worker'.pc = "idle" /\ worker'.job = None
    BY <1>9 DEF ProcessRelease
  <2>2. /\ ThreadShape' /\ DeliveryIsSeen' /\ ParamsHolders'
        /\ NothingLeft' /\ VersionOrder'
    BY <2>1, <1>9 DEF ProcessRelease
  <2>3. OnlyStoppingIsCancelled' /\ NoLostEdit'
    BY <2>1, <1>9 DEF ProcessRelease
  <2>4. UpdaterIsAlive'
    BY <2>1, <1>9 DEF ProcessRelease
  <2>5. NoLostWindow'
    <3>1. c \notin Crops
      BY PipelineAssumption
    <3>2. QED
      BY <2>1, <3>1, <1>9 DEF ProcessRelease
  <2>6. QED
    BY <2>2, <2>3, <2>4, <2>5
<1>10. ASSUME ProcessClaim(c) PROVE IInv'
  <2>1. /\ worker'.job = c /\ worker'.pc \in {"render", "lock"}
        /\ worker.job = c /\ worker.pc = "loop"
    BY <1>10 DEF ProcessClaim, WorkerStates
  <2>2. ThreadShape' /\ DeliveryIsSeen' /\ ParamsHolders' /\ NothingLeft'
    BY <2>1, <1>10 DEF ProcessClaim
  <2>3. OnlyStoppingIsCancelled' /\ NoLostEdit'
    BY <2>1, <1>10 DEF ProcessClaim
  <2>4. VersionOrder'
    <3>1. /\ params' = [params EXCEPT ![c] = nextParams[c]]
          /\ UNCHANGED <<shown, nextParams, ops, gui>>
      BY <1>10 DEF ProcessClaim
    <3>2. QED
      BY <3>1 DEF Versions
  <2>5. UpdaterIsAlive' /\ NoLostWindow'
    BY <2>1, <1>10, PipelineAssumption DEF ProcessClaim
  <2>6. QED
    BY <2>2, <2>3, <2>4, <2>5
<1>11. QED
  BY <1>1, <1>2, <1>3, <1>4, <1>5, <1>6, <1>7, <1>8, <1>9, <1>10 DEF
     ProcessStep

\* So does updatePreviewImage().
LEMMA RenderKeepsInv ==
    ASSUME TypeOK, IInv, NEW c \in Coords, RenderStep(c) PROVE IInv'
<1> USE Domains, QueuedSame, GotoFields, LeaveFields
<1> USE DEF IInv, ThreadShape, DeliveryIsSeen, ParamsHolders, NothingLeft,
        OnlyStoppingIsCancelled, VersionOrder, NoLostEdit, WillStart,
        UpdaterIsAlive, NoLostWindow, Incomplete
<1> USE DEF TypeOK, WorkerPCs, renderFrame, At, None
<1>1. ASSUME RenderBegin(c) PROVE IInv'
  BY <1>1 DEF RenderBegin
<1>2. ASSUME RenderOverview(c) PROVE IInv'
  BY <1>2 DEF RenderOverview
<1>3. ASSUME RenderAbort(c) PROVE IInv'
  BY <1>3 DEF RenderAbort
<1>4. ASSUME RenderEnd(c) PROVE IInv'
  BY <1>4 DEF RenderEnd
<1>5. ASSUME NEW k \in Crops, CropSkip(c, k) PROVE IInv'
  BY <1>5 DEF CropSkip
<1>6. ASSUME NEW k \in Crops, CropBegin(c, k) PROVE IInv'
  <2>1. /\ worker.job = c /\ c \notin Crops
        /\ worker'.pc = "crop" /\ worker'.job = c /\ worker'.crop = k
    BY <1>6, PipelineAssumption DEF CropBegin, WorkerStates
  <2>2. /\ ThreadShape' /\ DeliveryIsSeen' /\ ParamsHolders'
        /\ NothingLeft' /\ VersionOrder'
    BY <2>1, <1>6 DEF CropBegin
  <2>3. OnlyStoppingIsCancelled' /\ NoLostEdit'
    BY <2>1, <1>6 DEF CropBegin
  <2>4. UpdaterIsAlive' /\ NoLostWindow'
    BY <2>1, <1>6 DEF CropBegin
  <2>5. QED
    BY <2>2, <2>3, <2>4
<1>7. QED
  BY <1>1, <1>2, <1>3, <1>4, <1>5, <1>6 DEF RenderStep

\* So do Crop::update() and fullUpdate().
LEMMA CropKeepsInv ==
    ASSUME TypeOK, IInv, NEW k \in Crops, CropStep(k) PROVE IInv'
<1> USE Domains, QueuedSame, GotoFields, RestingFields
<1> USE DEF IInv, ThreadShape, DeliveryIsSeen, ParamsHolders, NothingLeft,
        OnlyStoppingIsCancelled, VersionOrder, NoLostEdit, WillStart,
        UpdaterIsAlive, NoLostWindow, Incomplete
<1> USE DEF TypeOK, WorkerPCs, At, None
<1>1. ASSUME CropFinish(k) PROVE IInv'
  <2>1. /\ worker'.job = worker.job
        /\ \/ worker'.pc = "deliver" /\ worker'.crop = worker.crop
           \/ worker'.pc = IF worker.job \in Crops THEN "fullLoop" ELSE "crops"
    BY <1>1 DEF CropFinish, AfterCrop, WorkerStates
  <2>2. UNCHANGED <<renderFrame, painted, shown>> /\ worker.pc = "crop"
    BY <1>1 DEF CropFinish
  <2>3. ThreadShape' /\ ParamsHolders' /\ NothingLeft'
    BY <2>1, <2>2, PipelineAssumption DEF renderFrame, Targets
  <2>4. OnlyStoppingIsCancelled' /\ NoLostEdit' /\ VersionOrder'
    BY <2>1, <2>2 DEF renderFrame
  <2>5. UpdaterIsAlive' /\ NoLostWindow'
    BY <2>1, <2>2 DEF renderFrame
  <2>6. DeliveryIsSeen'
    <3>1. CASE listening[k] /\ ~ destroying[CoordOf[k]]
      <4>1. /\ worker'.pc = "deliver" /\ worker'.crop = k
            /\ UNCHANGED <<cropMutex, listening>>
        BY <3>1, <1>1 DEF CropFinish, renderFrame, WorkerStates
      <4>2. cropMutex[k] = "worker"
        BY <1>1 DEF CropFinish
      <4>3. QED
        BY <3>1, <4>1, <4>2
    <3>2. CASE ~ (listening[k] /\ ~ destroying[CoordOf[k]])
      <4>1. worker'.pc \notin {"crop", "deliver"}
        BY <3>2, <1>1 DEF CropFinish, AfterCrop, WorkerStates
      <4>2. QED BY <4>1
    <3>3. QED BY <3>1, <3>2
  <2>7. QED
    BY <2>3, <2>4, <2>5, <2>6
<1>2. ASSUME CropDeliver(k) PROVE IInv'
  <2>1. /\ worker'.job = worker.job
        /\ worker'.pc = IF worker.job \in Crops THEN "fullLoop" ELSE "crops"
    BY <1>2 DEF CropDeliver, AfterCrop, WorkerStates
  <2>2. UNCHANGED renderFrame /\ worker.pc = "deliver"
    BY <1>2 DEF CropDeliver
  <2>3. ThreadShape' /\ DeliveryIsSeen' /\ ParamsHolders' /\ NothingLeft'
    BY <2>1, <2>2, PipelineAssumption DEF renderFrame, Targets
  <2>4. OnlyStoppingIsCancelled' /\ NoLostEdit'
    BY <2>1, <2>2 DEF renderFrame
  <2>5. VersionOrder'
    <3>1. CASE Accepted(k)
      <4>1. shown' = [shown EXCEPT ![k] = params[CoordOf[k]]]
        BY <3>1, <1>2 DEF CropDeliver
      <4>2. QED
        BY <2>2, <4>1 DEF renderFrame, Versions
    <3>2. CASE ~ Accepted(k)
      BY <3>2, <2>2, <1>2 DEF CropDeliver, renderFrame
    <3>3. QED BY <3>1, <3>2
  <2>6. UpdaterIsAlive' /\ NoLostWindow'
    BY <2>1, <2>2 DEF renderFrame
  <2>7. QED
    BY <2>3, <2>4, <2>5, <2>6
<1>3. ASSUME PassThrow(k) PROVE IInv'
  <2>1. worker'.job = worker.job /\ worker'.pc = "lock"
    BY <1>3, LeaveFields DEF PassThrow, WorkerStates
  <2>2. /\ UNCHANGED <<renderFrame, painted, shown>> /\ worker.pc = "crop"
        /\ worker.job \in Coords
    BY <1>3 DEF PassThrow
  <2>3. ThreadShape' /\ ParamsHolders' /\ NothingLeft'
    BY <2>1, <2>2, PipelineAssumption DEF renderFrame, Targets
  <2>4. OnlyStoppingIsCancelled' /\ NoLostEdit' /\ VersionOrder'
    BY <2>1, <2>2 DEF renderFrame
  <2>5. UpdaterIsAlive' /\ NoLostWindow' /\ DeliveryIsSeen'
    BY <2>1, <2>2 DEF renderFrame
  <2>6. QED
    BY <2>3, <2>4, <2>5
<1>11. ASSUME FullThrow(k) PROVE IInv'
  <2>1. worker'.job = worker.job /\ worker'.pc = "fullLoop"
    BY <1>11 DEF FullThrow, WorkerStates
  <2>2. /\ UNCHANGED <<renderFrame, painted, shown>> /\ worker.pc = "crop"
        /\ worker.job \in Crops
    BY <1>11 DEF FullThrow
  <2>3. ThreadShape' /\ ParamsHolders' /\ NothingLeft'
    BY <2>1, <2>2, PipelineAssumption DEF renderFrame, Targets
  <2>4. OnlyStoppingIsCancelled' /\ NoLostEdit' /\ VersionOrder'
    BY <2>1, <2>2 DEF renderFrame
  <2>5. UpdaterIsAlive' /\ NoLostWindow' /\ DeliveryIsSeen'
    BY <2>1, <2>2 DEF renderFrame
  <2>6. QED
    BY <2>3, <2>4, <2>5
<1>4. ASSUME FullEnter(k) PROVE IInv'
  BY <1>4 DEF FullEnter, fullFrame
<1>5. ASSUME FullRefused(k) PROVE IInv'
  <2>1. /\ worker.job = k /\ worker'.pc = "idle" /\ worker'.job = None
        /\ k \notin Coords /\ UNCHANGED fullFrame
    BY <1>5, PipelineAssumption DEF FullRefused
  <2>2. /\ destroying[CoordOf[k]] /\ pending' = [pending EXCEPT ![k] = FALSE]
        /\ running' = [running EXCEPT ![k] = FALSE]
    BY <1>5 DEF FullRefused
  <2>3. /\ ThreadShape' /\ DeliveryIsSeen' /\ ParamsHolders'
        /\ NothingLeft' /\ VersionOrder'
    BY <2>1 DEF fullFrame
  <2>4. OnlyStoppingIsCancelled' /\ NoLostEdit' /\ UpdaterIsAlive'
    BY <2>1 DEF fullFrame
  <2>5. NoLostWindow'
    BY <2>1, <2>2 DEF fullFrame
  <2>6. QED
    BY <2>3, <2>4, <2>5
<1>6. ASSUME TakePending(k) PROVE IInv'
  BY <1>6 DEF TakePending, fullFrame
<1>7. ASSUME TakeNothing(k) PROVE IInv'
  BY <1>7 DEF TakeNothing, fullFrame
<1>8. ASSUME FullCrop(k) PROVE IInv'
  BY <1>8 DEF FullCrop, fullFrame
<1>9. ASSUME FullLeave(k) PROVE IInv'
  <2>1. /\ worker.job = k /\ worker'.pc = "idle" /\ worker'.job = None
        /\ k \notin Coords /\ UNCHANGED fullFrame
    BY <1>9, PipelineAssumption DEF FullLeave
  <2>2. /\ worker.pc = "fullDone" /\ UNCHANGED <<pending, running>>
    BY <1>9 DEF FullLeave
  <2>3. /\ ThreadShape' /\ DeliveryIsSeen' /\ ParamsHolders'
        /\ NothingLeft' /\ VersionOrder'
    BY <2>1 DEF fullFrame
  <2>4. OnlyStoppingIsCancelled' /\ NoLostEdit' /\ UpdaterIsAlive'
    BY <2>1 DEF fullFrame
  <2>5. NoLostWindow'
    BY <2>1, <2>2 DEF fullFrame
  <2>6. QED
    BY <2>3, <2>4, <2>5
<1>10. QED
  BY <1>1, <1>2, <1>3, <1>4, <1>5, <1>6, <1>7, <1>8, <1>9, <1>11 DEF CropStep

\* So does taking a task off the queue.
LEMMA TakeTaskKeepsInv == ASSUME TypeOK, IInv, TakeTask PROVE IInv'
<1> USE Domains
<1> USE DEF IInv, ThreadShape, DeliveryIsSeen, ParamsHolders, NothingLeft,
        OnlyStoppingIsCancelled, VersionOrder, NoLostEdit, WillStart,
        UpdaterIsAlive, NoLostWindow, Incomplete
<1> USE DEF None
<1>1. PICK x \in tasks :
          /\ tasks' = tasks \ {x}
          /\ worker' = IF x.claimed THEN worker
                       ELSE [worker EXCEPT !.job = x.of,
                                !.pc = IF x.of \in Coords
                                       THEN "enter" ELSE "fullEnter"]
  BY DEF TakeTask
<1>2. /\ x.of \in Targets /\ worker \in WorkerStates
      /\ tasks \subseteq TaskRecords
  BY DEF TypeOK, TaskRecords
<1>3. \A u \in Targets : Queued(u) => Queued(u)' \/ (~ x.claimed /\ x.of = u)
  BY <1>1, TakenLive
<1>4. /\ worker.pc = "idle" /\ worker.job = None
      /\ UNCHANGED <<coordVars, cropVars, gui, cleanup, ops>>
  BY DEF TakeTask
<1>5. CASE x.claimed
  BY <1>1, <1>3, <1>4, <1>5 DEF coordVars, cropVars
<1>6. CASE ~ x.claimed
  <2>1. /\ worker'.job = x.of
        /\ worker'.pc = IF x.of \in Coords THEN "enter" ELSE "fullEnter"
    BY <1>1, <1>2, <1>6 DEF WorkerStates
  <2>2. /\ ThreadShape' /\ DeliveryIsSeen' /\ ParamsHolders'
        /\ NothingLeft' /\ VersionOrder'
    BY <1>2, <1>4, <2>1 DEF coordVars, cropVars, Targets
  <2>3. OnlyStoppingIsCancelled' /\ NoLostEdit'
    BY <1>1, <1>4, <2>1 DEF coordVars
  <2>4. UpdaterIsAlive' /\ NoLostWindow'
    BY <1>3, <1>4, <1>6, <2>1 DEF coordVars, cropVars
  <2>5. QED
    BY <2>2, <2>3, <2>4
<1>7. QED
  BY <1>5, <1>6

\* The claims and hand-offs of the pipeline hold in every reachable state.
THEOREM Inductive == Spec => []IInv
<1>1. Init => IInv
  BY Domains, PipelineAssumption
     DEF Init, IInv, ThreadShape, DeliveryIsSeen, ParamsHolders, NothingLeft,
         OnlyStoppingIsCancelled, VersionOrder, NoLostEdit, UpdaterIsAlive,
         NoLostWindow, Resting, Idle, None
<1>2. TypeOK /\ IInv /\ [Next]_vars => IInv'
  <2> SUFFICES ASSUME TypeOK, IInv, [Next]_vars PROVE IInv'
    OBVIOUS
  <2>1. CASE UserStep
    BY <2>1, UserKeepsInv
  <2>2. CASE GuiStep
    BY <2>2, GuiKeepsInv
  <2>3. CASE CleanupStep
    BY <2>3, CleanupKeepsInv
  <2>4. CASE WorkerStep
    BY <2>4, TakeTaskKeepsInv, ProcessKeepsInv, RenderKeepsInv, CropKeepsInv
       DEF WorkerStep
  <2>5. CASE Finished \/ UNCHANGED vars
    BY <2>5 DEF Finished, vars, coordVars, cropVars, IInv, ThreadShape,
       DeliveryIsSeen, ParamsHolders, NothingLeft, OnlyStoppingIsCancelled,
       VersionOrder, NoLostEdit, WillStart, UpdaterIsAlive, NoLostWindow,
       Incomplete, Queued,
       Live
  <2>6. QED
    BY <2>1, <2>2, <2>3, <2>4, <2>5 DEF Next
<1>3. QED
  BY <1>1, <1>2, TypeCorrect, PTL DEF Spec

\* No edit is lost: a submitted change always has somebody who develops it.
THEOREM EditsAreNotLost == Spec => []NoLostEdit
BY Inductive, PTL DEF IInv

\* No claim is orphaned: a running updater always has its task.
THEOREM UpdatersAreAlive == Spec => []UpdaterIsAlive
BY Inductive, PTL DEF IInv

\* No pan or zoom is lost: a requested frame always has somebody who makes it.
THEOREM WindowsAreNotLost == Spec => []NoLostWindow
BY Inductive, PTL DEF IInv

-----------------------------------------------------------------------------
(* Closing a photo is safe.                                                *)
(*                                                                         *)
(* NoUseAfterFree speaks of the end of a long hand-over: tasks are         *)
(* remembered when they are queued, the cleanup thread takes what is       *)
(* remembered and waits for it, and nothing is queued for a photo that     *)
(* stops.  So at any time a task that can still run is remembered, or is   *)
(* waited for.                                                             *)

\* The cleanup thread has taken the tasks of c.
Swept(c) ==
    \/ life[c] = "freed"
    \/ cleanup.on = c /\ cleanup.pc \in {"wait", "drain", "free"}

\* No task is forgotten while it can still run.
TasksAreRemembered ==
    \A t \in Targets : Incomplete(t) =>
        \/ t \in processingTasks[Coord(t)]
        \/ cleanup.pc = "wait" /\ cleanup.on = Coord(t) /\ t \in awaited

\* Nothing is remembered for a photo whose tasks have been taken.
NothingIsAdded == \A c \in Coords : Swept(c) => processingTasks[c] = {}

\* The cleanup thread has a photo that is closed, and none while it rests.
CleanupHasClosed ==
    /\ cleanup.pc = "idle" => cleanup.on = None
    /\ \A c \in Coords : cleanup.on = c => life[c] = "closed"

\* The GUI thread works for photos that are open or about to be closed.
GuiHasOpen ==
    /\ gui.pc = "idle" => gui.on = None
    /\ \A t \in Targets : gui.on = t => Callable(Coord(t))

ClosingInv ==
    TasksAreRemembered /\ NothingIsAdded /\ CleanupHasClosed /\ GuiHasOpen

\* A coordinator is its own.
LEMMA OwnCoord == \A c \in Coords : Coord(c) = c /\ c \in Targets
BY PipelineAssumption DEF Coord, Targets

\* At first no thread has a photo.
LEMMA ClosingInit == ASSUME Init PROVE ClosingInv
<1>1. gui.on = None /\ cleanup.on = None /\ worker.job = None /\ tasks = {}
  BY DEF Init, Idle, Resting
<1>2. \A t \in Targets : t # None /\ ~ Incomplete(t)
  BY <1>1, PipelineAssumption DEF Incomplete, Queued, Live
<1>3. \A c \in Coords : c # None /\ ~ Swept(c)
  BY <1>1, Domains DEF Init, Swept
<1>4. QED
  BY <1>1, <1>2, <1>3
     DEF ClosingInv, TasksAreRemembered, NothingIsAdded, CleanupHasClosed, GuiHasOpen

\* Neither queueing nor closing.
LEMMA AloofStep ==
    ASSUME ClosingInv, UNCHANGED <<processingTasks, cleanup, awaited, life>>,
           \A t \in Targets : Incomplete(t)' => Incomplete(t), GuiHasOpen'
    PROVE  ClosingInv'
<1>1. TasksAreRemembered'
  BY DEF ClosingInv, TasksAreRemembered, Coord
<1>2. NothingIsAdded' /\ CleanupHasClosed'
  BY DEF ClosingInv, NothingIsAdded, CleanupHasClosed, Swept
<1>3. QED
  BY <1>1, <1>2 DEF ClosingInv

\* What can still run is the same.
LEMMA SameTasks ==
    ASSUME UNCHANGED <<tasks, worker>>
    PROVE  \A t \in Targets : Incomplete(t)' <=> Incomplete(t)
BY QueuedSame DEF Incomplete

\* The GUI thread begins an operation on a photo that it may call, goes on with
\* one, or ends it.
LEMMA GuiAtOpen ==
    ASSUME TypeOK, GuiHasOpen, UNCHANGED life,
           \/ UNCHANGED gui
           \/ gui' = Idle
           \/ \E pc \in GuiPCs : gui' = [gui EXCEPT !.pc = pc] /\ gui.pc # "idle" /\ pc # "idle"
           \/ \E pc \in GuiPCs, t \in Targets :
                  gui' = [pc |-> pc, on |-> t] /\ pc # "idle" /\ Callable(Coord(t))
    PROVE  GuiHasOpen'
<1> USE DEF GuiHasOpen, Callable, Coord
<1>1. CASE UNCHANGED gui
  BY <1>1
<1>2. CASE gui' = Idle
  BY <1>2, Domains, PipelineAssumption DEF Idle
<1>3. ASSUME NEW pc \in GuiPCs, gui' = [gui EXCEPT !.pc = pc], pc # "idle" PROVE GuiHasOpen'
  <2>1. gui'.pc # "idle" /\ gui'.on = gui.on
    BY <1>3, GuiGotoFields DEF TypeOK
  <2>2. QED
    BY <2>1
<1>4. ASSUME NEW pc \in GuiPCs, NEW t \in Targets, gui' = [pc |-> pc, on |-> t],
             pc # "idle", Callable(Coord(t))
      PROVE  GuiHasOpen'
  BY <1>4
<1>5. QED
  BY <1>1, <1>2, <1>3, <1>4

\* The user begins an operation.
LEMMA UserKeepsClosing == ASSUME TypeOK, IInv, ClosingInv, UserStep PROVE ClosingInv'
<1> USE Domains
<1> USE DEF coordVars, cropVars, UserOperation
<1>0. GuiHasOpen /\ GuiPCs = GuiPCs
  BY DEF ClosingInv
<1>1. ASSUME NEW c \in Coords, BeginUpdateParams(c) PROVE ClosingInv'
  <2>1. GuiHasOpen'
    BY <1>0, <1>1, OwnCoord, GuiAtOpen DEF BeginUpdateParams, GuiPCs
  <2>2. QED
    BY <1>1, <2>1, SameTasks, AloofStep DEF BeginUpdateParams
<1>2. ASSUME NEW c \in Coords, RequestPass(c) PROVE ClosingInv'
  <2>1. GuiHasOpen'
    BY <1>0, <1>2, OwnCoord, GuiAtOpen DEF RequestPass, GuiPCs
  <2>2. QED
    BY <1>2, <2>1, SameTasks, AloofStep DEF RequestPass
<1>3. ASSUME NEW c \in Coords, CancelRepairs(c) PROVE ClosingInv'
  <2>1. GuiHasOpen'
    BY <1>0, <1>3, GuiAtOpen DEF CancelRepairs
  <2>2. QED
    BY <1>3, <2>1, SameTasks, AloofStep DEF CancelRepairs
<1>4. ASSUME NEW c \in Coords, RetryRepairs(c) PROVE ClosingInv'
  <2>1. GuiHasOpen'
    BY <1>0, <1>4, OwnCoord, GuiAtOpen DEF RetryRepairs, GuiPCs
  <2>2. QED
    BY <1>4, <2>1, SameTasks, AloofStep DEF RetryRepairs
<1>5. ASSUME NEW k \in Crops, MoveWindow(k) PROVE ClosingInv'
  <2>1. GuiHasOpen'
    <3>1. Callable(Coord(k)) /\ k \in Targets
      BY <1>5 DEF MoveWindow, Coord
    <3>2. QED
      BY <1>0, <1>5, <3>1, GuiAtOpen DEF MoveWindow, GuiPCs
  <2>2. QED
    BY <1>5, <2>1, SameTasks, AloofStep DEF MoveWindow
<1>6. ASSUME NEW k \in Crops, ZoomToFull(k) PROVE ClosingInv'
  <2>1. GuiHasOpen'
    <3>1. Callable(Coord(CoordOf[k])) /\ CoordOf[k] \in Targets
      BY <1>6, PipelineAssumption DEF ZoomToFull, Coord
    <3>2. QED
      BY <1>0, <1>6, <3>1, GuiAtOpen DEF ZoomToFull, GuiPCs
  <2>2. QED
    BY <1>6, <2>1, SameTasks, AloofStep DEF ZoomToFull
<1>7. ASSUME NEW k \in Crops, Enable(k) PROVE ClosingInv'
  <2>1. GuiHasOpen'
    <3>1. Callable(Coord(k)) /\ k \in Targets
      BY <1>7 DEF Enable, Coord
    <3>2. QED
      BY <1>0, <1>7, <3>1, GuiAtOpen DEF Enable, GuiPCs
  <2>2. QED
    BY <1>7, <2>1, SameTasks, AloofStep DEF Enable
<1>8. ASSUME NEW k \in Crops, Disable(k) PROVE ClosingInv'
  <2>1. GuiHasOpen'
    BY <1>0, <1>8, GuiAtOpen DEF Disable
  <2>2. QED
    BY <1>8, <2>1, SameTasks, AloofStep DEF Disable
<1>9. ASSUME NEW c \in Coords, SignalStop(c) PROVE ClosingInv'
  <2>1. life' = [life EXCEPT ![c] = "signalled"] /\ life[c] = "open"
        /\ gui' = [pc |-> "signal", on |-> c] /\ gui.pc = "idle"
        /\ UNCHANGED <<tasks, worker, processingTasks, cleanup, awaited>>
    BY <1>9 DEF SignalStop
  <2>2. \A d \in Coords \ {c} : life'[d] = life[d]
    BY <2>1 DEF TypeOK
  <2>3. life'[c] = "signalled"
    BY <2>1 DEF TypeOK
  <2>4. TasksAreRemembered'
    BY <2>1, SameTasks DEF ClosingInv, TasksAreRemembered, Coord
  <2>5. NothingIsAdded' /\ CleanupHasClosed'
    BY <2>1, <2>2, <2>3 DEF ClosingInv, NothingIsAdded, CleanupHasClosed, Swept
  <2>6. GuiHasOpen'
    <3>1. gui'.pc = "signal" /\ gui'.on = c
      BY <2>1
    <3>2. Callable(c)'
      BY <2>3 DEF Callable
    <3>3. QED
      BY <3>1, <3>2, OwnCoord DEF GuiHasOpen, Coord
  <2>7. QED
    BY <2>4, <2>5, <2>6 DEF ClosingInv
<1>10. ASSUME NEW c \in Coords, Close(c) PROVE ClosingInv'
  <2>1. life' = [life EXCEPT ![c] = "closed"] /\ life[c] = "signalled"
        /\ gui.pc = "idle" /\ UNCHANGED <<gui, tasks, worker, processingTasks, cleanup, awaited>>
    BY <1>10 DEF Close
  <2>2. \A d \in Coords \ {c} : life'[d] = life[d]
    BY <2>1 DEF TypeOK
  <2>3. life'[c] = "closed"
    BY <2>1 DEF TypeOK
  <2>4. TasksAreRemembered'
    BY <2>1, SameTasks DEF ClosingInv, TasksAreRemembered, Coord
  <2>5. NothingIsAdded' /\ CleanupHasClosed'
    BY <2>1, <2>2, <2>3 DEF ClosingInv, NothingIsAdded, CleanupHasClosed, Swept
  <2>6. GuiHasOpen'
    BY <1>0, <2>1, PipelineAssumption DEF GuiHasOpen
  <2>7. QED
    BY <2>4, <2>5, <2>6 DEF ClosingInv
<1>11. QED
  BY <1>1, <1>2, <1>3, <1>4, <1>5, <1>6, <1>7, <1>8, <1>9, <1>10 DEF UserStep

\* A task is queued and remembered, for a photo that does not stop.
LEMMA QueueingIsSafe ==
    ASSUME TypeOK, IInv, ClosingInv, NEW t \in Targets, ~ destroying[Coord(t)],
           Enqueue(t), Remember(t), gui' = Idle,
           UNCHANGED <<worker, cleanup, awaited, life>>
    PROVE  ClosingInv'
<1> USE Domains
<1>1. \A u \in Targets : Incomplete(u)' => Incomplete(u) \/ u = t
  BY EnqueueLive DEF Incomplete
<1>2. /\ \A u \in processingTasks[Coord(t)] : Incomplete(u) => u \in processingTasks'[Coord(t)]
      /\ t \in processingTasks'[Coord(t)]
      /\ \A c \in Coords \ {Coord(t)} : processingTasks'[c] = processingTasks[c]
  BY DEF Remember, TypeOK
<1>3. TasksAreRemembered'
  <2> SUFFICES ASSUME NEW u \in Targets, Incomplete(u)'
               PROVE  \/ u \in processingTasks'[Coord(u)]
                      \/ cleanup.pc = "wait" /\ cleanup.on = Coord(u) /\ u \in awaited
    BY DEF TasksAreRemembered, Coord
  <2>1. CASE u = t
    BY <1>2, <2>1
  <2>2. CASE u # t
    <3>1. Incomplete(u)
      BY <1>1, <2>2
    <3>2. Coord(u) \in Coords
      OBVIOUS
    <3>3. QED
      BY <1>2, <3>1, <3>2 DEF ClosingInv, TasksAreRemembered
  <2>3. QED
    BY <2>1, <2>2
<1>4. NothingIsAdded'
  <2>1. ~ Swept(Coord(t))
    BY DEF Swept, IInv, OnlyStoppingIsCancelled
  <2>2. \A c \in Coords : Swept(c)' <=> Swept(c)
    BY DEF Swept
  <2>3. QED
    BY <1>2, <2>1, <2>2 DEF ClosingInv, NothingIsAdded
<1>5. CleanupHasClosed' /\ GuiHasOpen'
  BY GuiAtOpen DEF ClosingInv, CleanupHasClosed
<1>6. QED
  BY <1>3, <1>4, <1>5 DEF ClosingInv

\* The GUI thread goes on with an operation.
LEMMA GuiKeepsClosing == ASSUME TypeOK, IInv, ClosingInv, GuiStep PROVE ClosingInv'
<1> USE Domains
<1> USE DEF coordVars, cropVars
<1>0. GuiHasOpen
  BY DEF ClosingInv
<1>1. ASSUME NEW c \in Coords, NEW action \in Actions, EndUpdateParams(c, action)
      PROVE  ClosingInv'
  <2>1. GuiHasOpen'
    BY <1>0, <1>1, GuiAtOpen DEF EndUpdateParams, GuiPCs
  <2>2. QED
    BY <1>1, <2>1, SameTasks, AloofStep DEF EndUpdateParams
<1>2. ASSUME NEW c \in Coords, NEW action \in Actions, StartProcessingCode(c, action)
      PROVE  ClosingInv'
  <2>1. GuiHasOpen'
    BY <1>0, <1>2, GuiAtOpen DEF StartProcessingCode, GuiPCs
  <2>2. QED
    BY <1>2, <2>1, SameTasks, AloofStep DEF StartProcessingCode
<1>3. ASSUME NEW c \in Coords, StartProcessing(c) PROVE ClosingInv'
  <2>1. GuiHasOpen'
    BY <1>0, <1>3, GuiAtOpen DEF StartProcessing, GuiPCs
  <2>2. QED
    BY <1>3, <2>1, SameTasks, AloofStep DEF StartProcessing
<1>4. ASSUME NEW c \in Coords, StartProcessingLocked(c) PROVE ClosingInv'
  <2>1. CASE MayStart(c)
    <3>1. Coord(c) = c
      BY PipelineAssumption DEF Coord
    <3>2. QED
      BY <1>4, <2>1, <3>1, QueueingIsSafe DEF StartProcessingLocked, MayStart
  <2>2. CASE ~ MayStart(c)
    <3>1. GuiHasOpen'
      BY <1>0, <1>4, GuiAtOpen DEF StartProcessingLocked
    <3>2. QED
      BY <1>4, <2>2, <3>1, SameTasks, AloofStep DEF StartProcessingLocked
  <2>3. QED
    BY <2>1, <2>2
<1>5. ASSUME NEW c \in Coords, SignalCancel(c) PROVE ClosingInv'
  <2>1. GuiHasOpen'
    BY <1>0, <1>5, GuiAtOpen DEF SignalCancel
  <2>2. \A t \in Targets : Incomplete(t)' => Incomplete(t)
    <3>1. processingTasks[c] \in SUBSET Targets /\ UNCHANGED worker
      BY <1>5 DEF TypeOK, SignalCancel
    <3>2. QED
      BY <1>5, <3>1, CancelOwnLive DEF SignalCancel, Incomplete
  <2>3. QED
    BY <1>5, <2>1, <2>2, AloofStep DEF SignalCancel
<1>6. ASSUME NEW k \in Crops, TryUpdate(k) PROVE ClosingInv'
  <2>1. GuiHasOpen'
    BY <1>0, <1>6, GuiAtOpen DEF TryUpdate, GuiPCs
  <2>2. QED
    BY <1>6, <2>1, SameTasks, AloofStep DEF TryUpdate
<1>7. ASSUME NEW k \in Crops, StartUpdate(k) PROVE ClosingInv'
  <2>1. CASE ~ destroying[CoordOf[k]]
    <3>1. Coord(k) = CoordOf[k]
      BY DEF Coord
    <3>2. QED
      BY <1>7, <2>1, <3>1, QueueingIsSafe DEF StartUpdate
  <2>2. CASE destroying[CoordOf[k]]
    <3>1. GuiHasOpen'
      BY <1>0, <1>7, GuiAtOpen DEF StartUpdate
    <3>2. QED
      BY <1>7, <2>2, <3>1, SameTasks, AloofStep DEF StartUpdate
  <2>3. QED
    BY <2>1, <2>2
<1>8. QED
  BY <1>1, <1>2, <1>3, <1>4, <1>5, <1>6, <1>7 DEF GuiStep

\* The cleanup thread takes the tasks, waits for them and deletes.
LEMMA CleanupKeepsClosing == ASSUME TypeOK, IInv, ClosingInv, CleanupStep PROVE ClosingInv'
<1> USE Domains
<1> USE DEF coordVars, cropVars
<1>0. ASSUME UNCHANGED <<gui, life>> PROVE GuiHasOpen'
  BY <1>0, GuiAtOpen DEF ClosingInv
<1>1. ASSUME NEW c \in Coords, CleanupStart(c) PROVE ClosingInv'
  <2>1. /\ cleanup.pc = "idle" /\ life[c] = "closed" /\ cleanup' = [pc |-> "cancel", on |-> c]
        /\ UNCHANGED <<tasks, worker, gui, life, processingTasks, awaited>>
    BY <1>1 DEF CleanupStart
  <2>2. TasksAreRemembered'
    BY <2>1, SameTasks DEF ClosingInv, TasksAreRemembered, Coord
  <2>3. NothingIsAdded' /\ CleanupHasClosed'
    BY <2>1 DEF ClosingInv, NothingIsAdded, CleanupHasClosed, Swept
  <2>4. QED
    BY <1>0, <2>1, <2>2, <2>3 DEF ClosingInv
<1>2. ASSUME NEW c \in Coords, CleanupCancel(c) PROVE ClosingInv'
  <2>1. /\ cleanup.pc = "cancel" /\ cleanup.on = c
        /\ cleanup'.pc = "wait" /\ cleanup'.on = c
        /\ awaited' = processingTasks[c] /\ UNCHANGED <<worker, gui, life>>
    BY <1>2 DEF CleanupCancel
  <2>2. processingTasks'[c] = {} /\ \A d \in Coords \ {c} : processingTasks'[d] = processingTasks[d]
    BY <1>2 DEF CleanupCancel, TypeOK
  <2>3. \A t \in Targets : Incomplete(t)' => Incomplete(t)
    <3>1. processingTasks[c] \in SUBSET Targets
      BY DEF TypeOK
    <3>2. QED
      BY <1>2, <2>1, <3>1, CancelOwnLive DEF CleanupCancel, Incomplete
  <2>4. TasksAreRemembered'
    <3> SUFFICES ASSUME NEW t \in Targets, Incomplete(t)'
                 PROVE  \/ t \in processingTasks'[Coord(t)]
                        \/ cleanup'.pc = "wait" /\ cleanup'.on = Coord(t) /\ t \in awaited'
      BY DEF TasksAreRemembered, Coord
    <3>1. t \in processingTasks[Coord(t)] /\ Coord(t) \in Coords
      BY <2>1, <2>3 DEF ClosingInv, TasksAreRemembered
    <3>2. QED
      BY <2>1, <2>2, <3>1
  <2>5. NothingIsAdded' /\ CleanupHasClosed'
    BY <2>1, <2>2, PipelineAssumption DEF ClosingInv, NothingIsAdded, CleanupHasClosed,
       Swept
  <2>6. QED
    BY <1>0, <2>1, <2>4, <2>5 DEF ClosingInv
<1>3. ASSUME NEW c \in Coords, CleanupWait(c) PROVE ClosingInv'
  <2>1. /\ cleanup.pc = "wait" /\ cleanup.on = c
        /\ cleanup'.pc = "drain" /\ cleanup'.on = c
        /\ \A t \in awaited : ~ Incomplete(t)
        /\ UNCHANGED <<tasks, worker, gui, life, processingTasks>>
    BY <1>3 DEF CleanupWait, AllComplete
  <2>2. TasksAreRemembered'
    BY <2>1, SameTasks DEF ClosingInv, TasksAreRemembered, Coord
  <2>3. NothingIsAdded' /\ CleanupHasClosed'
    BY <2>1 DEF ClosingInv, NothingIsAdded, CleanupHasClosed, Swept
  <2>4. QED
    BY <1>0, <2>1, <2>2, <2>3 DEF ClosingInv
<1>4. ASSUME NEW c \in Coords, CleanupDrain(c) PROVE ClosingInv'
  <2>1. /\ cleanup.pc = "drain" /\ cleanup.on = c
        /\ cleanup'.pc = "free" /\ cleanup'.on = c
        /\ UNCHANGED <<tasks, worker, gui, life, processingTasks, awaited>>
    BY <1>4 DEF CleanupDrain
  <2>2. TasksAreRemembered'
    BY <2>1, SameTasks DEF ClosingInv, TasksAreRemembered, Coord
  <2>3. NothingIsAdded' /\ CleanupHasClosed'
    BY <2>1 DEF ClosingInv, NothingIsAdded, CleanupHasClosed, Swept
  <2>4. QED
    BY <1>0, <2>1, <2>2, <2>3 DEF ClosingInv
<1>5. ASSUME NEW c \in Coords, CleanupFree(c) PROVE ClosingInv'
  <2>1. /\ cleanup.pc = "free" /\ cleanup.on = c /\ cleanup' = Idle
        /\ life' = [life EXCEPT ![c] = "freed"]
        /\ UNCHANGED <<tasks, worker, gui, processingTasks, awaited>>
    BY <1>5 DEF CleanupFree
  <2>2. life'[c] = "freed" /\ \A d \in Coords \ {c} : life'[d] = life[d]
    BY <2>1 DEF TypeOK
  <2>3. life[c] = "closed"
    BY <2>1 DEF ClosingInv, CleanupHasClosed
  <2>4. TasksAreRemembered'
    BY <2>1, SameTasks DEF ClosingInv, TasksAreRemembered, Coord
  <2>5. NothingIsAdded' /\ CleanupHasClosed'
    BY <2>1, <2>2 DEF ClosingInv, NothingIsAdded, CleanupHasClosed, Swept, Idle
  <2>6. GuiHasOpen'
    <3>1. \A t \in Targets : Coord(t)' = Coord(t) /\ Coord(t) \in Coords
      BY DEF Coord
    <3>2. \A t \in Targets : gui.on = t => Coord(t) # c
      BY <2>3 DEF ClosingInv, GuiHasOpen, Callable
    <3>3. QED
      BY <2>1, <2>2, <3>1, <3>2 DEF ClosingInv, GuiHasOpen, Callable
  <2>7. QED
    BY <2>4, <2>5, <2>6 DEF ClosingInv
<1>6. QED
  BY <1>1, <1>2, <1>3, <1>4, <1>5 DEF CleanupStep

\* The worker takes a task, works for its photo, and is done with it.
LEMMA WorkerKeepsClosing == ASSUME TypeOK, IInv, ClosingInv, WorkerStep PROVE ClosingInv'
<1> USE Domains
<1>1. UNCHANGED <<processingTasks, cleanup, awaited, life, gui>>
  <2>1. CASE TakeTask
    BY <2>1 DEF TakeTask, coordVars
  <2>2. ASSUME NEW c \in Coords, ProcessStep(c)
        PROVE  UNCHANGED <<processingTasks, cleanup, awaited, life, gui>>
    BY <2>2 DEF ProcessStep, ProcessEnter, ProcessLock, ProcessStop, ProcessStopped,
       ProcessQuiet, ProcessQuietProgress, ProcessRecheck, ProcessResume, ProcessRelease,
       ProcessClaim, processFrame
  <2>3. ASSUME NEW c \in Coords, RenderStep(c)
        PROVE  UNCHANGED <<processingTasks, cleanup, awaited, life, gui>>
    BY <2>3 DEF RenderStep, RenderBegin, RenderOverview, RenderAbort, RenderEnd, CropSkip,
       CropBegin, renderFrame
  <2>4. ASSUME NEW k \in Crops, CropStep(k)
        PROVE  UNCHANGED <<processingTasks, cleanup, awaited, life, gui>>
    BY <2>4 DEF CropStep, CropFinish, CropDeliver, PassThrow, FullThrow, FullEnter, FullRefused,
       TakePending, TakeNothing, FullCrop, FullLeave, renderFrame, fullFrame
  <2>5. QED
    BY <2>1, <2>2, <2>3, <2>4 DEF WorkerStep
<1>2. \A t \in Targets : Incomplete(t)' => Incomplete(t)
  <2>1. CASE TakeTask
    <3>1. PICK x \in tasks :
              /\ tasks' = tasks \ {x}
              /\ worker' = IF x.claimed THEN worker
                           ELSE [worker EXCEPT !.job = x.of,
                                    !.pc = IF x.of \in Coords THEN "enter" ELSE "fullEnter"]
      BY <2>1 DEF TakeTask
    <3>2. \A t \in Targets : Queued(t)' => Queued(t)
      BY <3>1 DEF Queued, Live
    <3>3. CASE x.claimed
      BY <3>1, <3>2, <3>3 DEF Incomplete
    <3>4. CASE ~ x.claimed
      <4>1. worker'.job = x.of /\ Queued(x.of)
        BY <3>1, <3>4 DEF TypeOK, WorkerStates, Queued, Live
      <4>2. QED
        BY <3>2, <4>1 DEF Incomplete
    <3>5. QED
      BY <3>3, <3>4
  <2>2. ASSUME UNCHANGED tasks, worker'.job \in {worker.job, None}
        PROVE  \A t \in Targets : Incomplete(t)' => Incomplete(t)
    <3>1. \A t \in Targets : t # None
      BY PipelineAssumption
    <3>2. QED
      BY <2>2, <3>1, QueuedSame DEF Incomplete
  <2>3. ASSUME NEW c \in Coords, ProcessStep(c)
        PROVE  UNCHANGED tasks /\ worker'.job \in {worker.job, None}
    <3>1. CASE ProcessClaim(c)
      BY <3>1 DEF ProcessClaim, processFrame, TypeOK, WorkerStates
    <3>2. CASE ~ ProcessClaim(c)
      BY <2>3, <3>2 DEF ProcessStep, ProcessEnter, ProcessLock, ProcessStop,
         ProcessStopped, ProcessQuiet, ProcessQuietProgress, ProcessRecheck,
         ProcessResume, ProcessRelease, processFrame, Goto, Resting, TypeOK, WorkerStates
    <3>3. QED
      BY <3>1, <3>2
  <2>4. ASSUME NEW c \in Coords, RenderStep(c)
        PROVE  UNCHANGED tasks /\ worker'.job \in {worker.job, None}
    BY <2>4 DEF RenderStep, RenderBegin, RenderOverview, RenderAbort, RenderEnd, CropSkip,
       CropBegin, LeavePass, renderFrame, Goto, TypeOK, WorkerStates
  <2>5. ASSUME NEW k \in Crops, CropStep(k)
        PROVE  UNCHANGED tasks /\ worker'.job \in {worker.job, None}
    <3>1. CASE CropFinish(k) \/ CropDeliver(k) \/ PassThrow(k) \/ FullThrow(k)
      <4>1. UNCHANGED tasks
        BY <3>1 DEF CropFinish, CropDeliver, PassThrow, FullThrow, renderFrame
      <4>2. worker'.job = worker.job
        BY <3>1, ZenonT(30)
           DEF CropFinish, CropDeliver, PassThrow, FullThrow, LeavePass, TypeOK, WorkerStates
      <4>3. QED
        BY <4>1, <4>2
    <3>2. CASE FullRefused(k) \/ FullLeave(k)
      BY <3>2 DEF FullRefused, FullLeave, fullFrame, Resting
    <3>3. CASE FullEnter(k) \/ TakePending(k) \/ TakeNothing(k) \/ FullCrop(k)
      BY <3>3 DEF FullEnter, TakePending, TakeNothing, FullCrop, fullFrame, Goto, TypeOK,
         WorkerStates
    <3>4. QED
      BY <2>5, <3>1, <3>2, <3>3 DEF CropStep
  <2>6. QED
    BY <2>1, <2>2, <2>3, <2>4, <2>5 DEF WorkerStep
<1>3. QED
  BY <1>1, <1>2, GuiAtOpen, AloofStep DEF ClosingInv

\* Closing is safe: once ~ImProcCoordinator() has run, no thread works for the
\* coordinator and no task that could still run captures it or one of its crops
\* (cancelProcessingTasks, rememberProcessingTask, EditorPanel::close).
THEOREM ClosingIsSafe == Spec => []NoUseAfterFree
<1>1. TypeOK /\ IInv /\ ClosingInv /\ [Next]_vars => ClosingInv'
  <2> SUFFICES ASSUME TypeOK, IInv, ClosingInv, [Next]_vars PROVE ClosingInv'
    OBVIOUS
  <2>1. CASE Finished \/ UNCHANGED vars
    <3>1. UNCHANGED vars
      BY <2>1 DEF Finished
    <3>2. UNCHANGED <<processingTasks, cleanup, awaited, life, gui, tasks, worker>>
      BY <3>1 DEF vars, coordVars
    <3>3. QED
      BY <3>2, SameTasks, GuiAtOpen, AloofStep DEF ClosingInv
  <2>2. QED
    BY <2>1, UserKeepsClosing, GuiKeepsClosing, CleanupKeepsClosing, WorkerKeepsClosing
       DEF Next
<1>2. TypeOK /\ IInv /\ ClosingInv => NoUseAfterFree
  <2> SUFFICES ASSUME TypeOK, IInv, ClosingInv, NEW t \in Targets, life[Coord(t)] = "freed"
               PROVE  ~ Incomplete(t) /\ gui.on # t /\ cleanup.on # t
    BY DEF NoUseAfterFree
  <2>1. Coord(t) \in Coords /\ processingTasks[Coord(t)] = {} /\ cleanup.on # Coord(t)
    BY Domains DEF ClosingInv, NothingIsAdded, CleanupHasClosed, Swept
  <2>2. ~ Incomplete(t)
    BY <2>1 DEF ClosingInv, TasksAreRemembered
  <2>3. gui.on # t
    BY DEF ClosingInv, GuiHasOpen, Callable
  <2>4. cleanup.on # t
    <3>1. ASSUME cleanup.on = t PROVE FALSE
      <4>1. t \in Coords
        BY <3>1, Domains, PipelineAssumption
           DEF ClosingInv, CleanupHasClosed, TypeOK, CleanupStates, Targets
      <4>2. Coord(t) = t
        BY <4>1, PipelineAssumption DEF Coord
      <4>3. QED
        BY <2>1, <3>1, <4>2
    <3>2. QED
      BY <3>1
  <2>5. QED
    BY <2>2, <2>3, <2>4
<1>3. QED
  BY <1>1, <1>2, ClosingInit, TypeCorrect, Inductive, PTL DEF Spec

-----------------------------------------------------------------------------
(* A photo at rest is up to date.                                          *)
(*                                                                         *)
(* SettledIsCurrent joins the hand-over of edits to that of windows.  Its  *)
(* inductive form says what a canvas that is not up to date can rely on: a *)
(* change nobody has claimed, a window nobody has taken, a pass that has   *)
(* not come to it, or a frame that fits; or else a stage it shows has been *)
(* broken off and not been run since.  At rest the first four are not      *)
(* there, by NoLostEdit, UpdaterIsAlive and NoLostWindow.  A stage is run  *)
(* again by a pass that then comes to the canvas, or by a frame: one that  *)
(* fits, or one whose window has moved, and then another is asked for.     *)

\* A pass of c that comes to the canvases will be claimed.
PassIsAsked(c) ==
    \/ changeSinceLast[c] \cap CanvasFlags # {}
    \/ gui.pc = "code" /\ gui.on = c

\* A frame of k is asked for.
FrameIsAsked(k) == pending[k] \/ (gui.pc = "request" /\ gui.on = k)

\* The pass that is under way has yet to come to k, and will not leave it out.
PassIsComing(k) ==
    /\ worker.job = CoordOf[k]
    /\ worker.change \cap CanvasFlags # {}
    /\ \/ worker.pc \in {"render", "overview"}
       \/ worker.pc \in {"crops", "crop", "deliver"} /\ k \in worker.todo

\* The worker is about to render k, or has a frame of k that will be accepted.
FrameIsComing(k) ==
    \/ worker.pc = "fullCrop" /\ worker.job = k
    \/ worker.pc \in {"crop", "deliver"} /\ worker.crop = k /\ worker.geometry = window[k]

UpToDate(k) == shown[k] = params[CoordOf[k]] /\ painted[k] = window[k]

Watched(k) == listening[k] /\ ~ destroying[CoordOf[k]]

\* A stage that the canvas shows was broken off and has not been run since.
IsStale(k) == (unfinished[CoordOf[k]] \cup unfinished[k]) \cap CanvasFlags # {}

\* A visible canvas is up to date with its pass or will be, or is stale.
FrameIsDue ==
    \A k \in Crops : Watched(k) =>
        \/ UpToDate(k)
        \/ PassIsAsked(CoordOf[k]) \/ FrameIsAsked(k)
        \/ PassIsComing(k) \/ FrameIsComing(k)
        \/ IsStale(k)

\* A pass is up to date with the user, or another one is asked for.
EditIsClaimed ==
    \A c \in Coords :
        \/ destroying[c]
        \/ params[c] = nextParams[c]
        \/ changeSinceLast[c] \cap CanvasFlags # {}

\* The worker has a frame for a window that has moved.
HasMoved(k) ==
    /\ worker.pc \in {"crop", "deliver"} /\ worker.crop = k
    /\ worker.geometry # window[k]

\* A window that moves under the worker asks for another frame.
MovedIsAsked ==
    \A k \in Crops : Watched(k) /\ HasMoved(k) => PassIsAsked(CoordOf[k]) \/ FrameIsAsked(k)

\* A pass renders its own crops.
PassHasOwn ==
    /\ worker.pc \in {"crops", "crop", "deliver"} /\ worker.job \in Coords =>
          \A k \in worker.todo : CoordOf[k] = worker.job
    /\ worker.pc \in {"crop", "deliver"} /\ worker.job \in Coords =>
          CoordOf[worker.crop] = worker.job

FreshInv == PassHasOwn /\ MovedIsAsked /\ EditIsClaimed /\ FrameIsDue

\* At first every canvas shows what there is.
LEMMA FreshInit == ASSUME Init PROVE FreshInv
<1>1. PassHasOwn
  BY DEF Init, PassHasOwn, Resting
<1>2. MovedIsAsked /\ EditIsClaimed
  BY DEF Init, MovedIsAsked, HasMoved, EditIsClaimed, Resting
<1>3. FrameIsDue
  BY Domains DEF Init, FrameIsDue, UpToDate
<1>4. QED
  BY <1>1, <1>2, <1>3 DEF FreshInv

\* The GUI thread takes nothing away without asking for a pass or a frame.
OnlyAsks ==
    /\ UNCHANGED <<worker, params, shown, unfinished>>
    /\ \A c \in Coords :
          /\ changeSinceLast[c] \subseteq changeSinceLast'[c]
          /\ ~ destroying'[c] =>
                /\ ~ destroying[c]
                /\ gui.pc = "code" /\ gui.on = c => PassIsAsked(c)'
                /\ nextParams'[c] = nextParams[c] \/ changeSinceLast'[c] \cap CanvasFlags # {}
    /\ \A k \in Crops :
          ~ destroying'[CoordOf[k]] =>
                /\ FrameIsAsked(k) => FrameIsAsked(k)'
                /\ listening'[k] => listening[k] \/ FrameIsAsked(k)'
                /\ \/ window'[k] = window[k] /\ painted'[k] = painted[k]
                   \/ ~ listening'[k]
                   \/ FrameIsAsked(k)' \/ PassIsAsked(CoordOf[k])'

\* Asking keeps what a canvas relies on.
LEMMA AskingKeepsFresh == ASSUME FreshInv, OnlyAsks PROVE FreshInv'
<1> USE Domains DEF FreshInv, OnlyAsks
<1>1. PassHasOwn'
  BY DEF PassHasOwn
<1>2. \A c \in Coords : ~ destroying'[c] /\ PassIsAsked(c) => PassIsAsked(c)'
  BY DEF PassIsAsked
<1>3. MovedIsAsked'
  <2> SUFFICES ASSUME NEW k \in Crops, Watched(k)', HasMoved(k)'
               PROVE  PassIsAsked(CoordOf[k])' \/ FrameIsAsked(k)'
    BY DEF MovedIsAsked
  <2>1. ~ destroying'[CoordOf[k]] /\ listening'[k] /\ CoordOf[k] \in Coords
    BY DEF Watched
  <2>2. CASE window'[k] = window[k] /\ listening[k]
    <3>1. Watched(k) /\ HasMoved(k)
      BY <2>1, <2>2 DEF Watched, HasMoved
    <3>2. QED
      BY <1>2, <2>1, <3>1 DEF MovedIsAsked
  <2>3. CASE ~ (window'[k] = window[k] /\ listening[k])
    BY <2>1, <2>3
  <2>4. QED
    BY <2>2, <2>3
<1>4. EditIsClaimed'
  BY DEF EditIsClaimed
<1>5. FrameIsDue'
  <2> SUFFICES ASSUME NEW k \in Crops, Watched(k)',
                      ~ PassIsAsked(CoordOf[k])', ~ FrameIsAsked(k)'
               PROVE  UpToDate(k)' \/ PassIsComing(k)' \/ FrameIsComing(k)' \/ IsStale(k)'
    BY DEF FrameIsDue
  <2>1. ~ destroying'[CoordOf[k]] /\ listening'[k]
    BY DEF Watched
  <2>2. Watched(k)
    BY <2>1 DEF Watched
  <2>3. ~ PassIsAsked(CoordOf[k]) /\ ~ FrameIsAsked(k)
    BY <1>2, <2>1
  <2>4. window'[k] = window[k] /\ painted'[k] = painted[k]
    BY <2>1
  <2>5. UpToDate(k) \/ PassIsComing(k) \/ FrameIsComing(k) \/ IsStale(k)
    BY <2>2, <2>3 DEF FrameIsDue
  <2>6. QED
    BY <2>4, <2>5 DEF UpToDate, PassIsComing, FrameIsComing, IsStale
<1>6. QED
  BY <1>1, <1>3, <1>4, <1>5

\* The user and the GUI thread, the cleanup thread included, only ask.
LEMMA GuiOnlyAsks ==
    ASSUME TypeOK, IInv, UserStep \/ GuiStep \/ CleanupStep PROVE OnlyAsks
<1> USE Domains
<1> USE DEF OnlyAsks, PassIsAsked, FrameIsAsked, TypeOK, coordVars, cropVars, UserOperation
<1>1. ASSUME NEW c \in Coords, BeginUpdateParams(c) PROVE OnlyAsks
  BY <1>1 DEF BeginUpdateParams
<1>2. ASSUME NEW c \in Coords, RequestPass(c) PROVE OnlyAsks
  BY <1>2 DEF RequestPass
<1>3. ASSUME NEW c \in Coords, CancelRepairs(c) PROVE OnlyAsks
  BY <1>3 DEF CancelRepairs
<1>4. ASSUME NEW c \in Coords, RetryRepairs(c) PROVE OnlyAsks
  BY <1>4 DEF RetryRepairs
<1>5. ASSUME NEW c \in Coords, SignalStop(c) PROVE OnlyAsks
  BY <1>5 DEF SignalStop
<1>6. ASSUME NEW c \in Coords, Close(c) PROVE OnlyAsks
  BY <1>6 DEF Close
<1>7. ASSUME NEW k \in Crops, MoveWindow(k) PROVE OnlyAsks
  BY <1>7 DEF MoveWindow
<1>8. ASSUME NEW k \in Crops, ZoomToFull(k) PROVE OnlyAsks
  BY <1>8 DEF ZoomToFull
<1>9. ASSUME NEW k \in Crops, Enable(k) PROVE OnlyAsks
  BY <1>9 DEF Enable
<1>10. ASSUME NEW k \in Crops, Disable(k) PROVE OnlyAsks
  BY <1>10 DEF Disable
<1>11. ASSUME NEW c \in Coords, NEW action \in Actions, EndUpdateParams(c, action)
       PROVE  OnlyAsks
  BY <1>11 DEF EndUpdateParams
<1>12. ASSUME NEW c \in Coords, NEW action \in Actions, StartProcessingCode(c, action)
       PROVE  OnlyAsks
  BY <1>12 DEF StartProcessingCode
<1>13. ASSUME NEW c \in Coords, StartProcessing(c) PROVE OnlyAsks
  BY <1>13 DEF StartProcessing
<1>14. ASSUME NEW c \in Coords, StartProcessingLocked(c) PROVE OnlyAsks
  BY <1>14 DEF StartProcessingLocked
<1>15. ASSUME NEW c \in Coords, SignalCancel(c) PROVE OnlyAsks
  BY <1>15 DEF SignalCancel
<1>16. ASSUME NEW k \in Crops, TryUpdate(k) PROVE OnlyAsks
  BY <1>16 DEF TryUpdate
<1>17. ASSUME NEW k \in Crops, StartUpdate(k) PROVE OnlyAsks
  BY <1>17 DEF StartUpdate
<1>18. ASSUME NEW c \in Coords, CleanupStart(c) PROVE OnlyAsks
  BY <1>18 DEF CleanupStart
<1>19. ASSUME NEW c \in Coords,
              CleanupCancel(c) \/ CleanupWait(c) \/ CleanupDrain(c) \/ CleanupFree(c)
       PROVE  OnlyAsks
  BY <1>19 DEF CleanupCancel, CleanupWait, CleanupDrain, CleanupFree
<1>20. QED
  BY <1>1, <1>2, <1>3, <1>4, <1>5, <1>6, <1>7, <1>8, <1>9, <1>10, <1>11, <1>12, <1>13,
     <1>14, <1>15, <1>16, <1>17, <1>18, <1>19 DEF UserStep, GuiStep, CleanupStep

\* What the worker is asked is not its business, except where a pass is claimed.
LEMMA WorkerIsAsked ==
    ASSUME FreshInv, PassHasOwn', MovedIsAsked',
           UNCHANGED <<gui, changeSinceLast, params, nextParams, destroying, listening, window>>,
           \A k \in Crops : Watched(k) /\ ~ PassIsAsked(CoordOf[k]) =>
               \/ UpToDate(k)' \/ FrameIsAsked(k)'
               \/ PassIsComing(k)' \/ FrameIsComing(k)' \/ IsStale(k)'
    PROVE  FreshInv'
<1>1. \A c \in Coords : PassIsAsked(c)' <=> PassIsAsked(c)
  BY DEF PassIsAsked
<1>2. EditIsClaimed'
  BY <1>1 DEF FreshInv, EditIsClaimed
<1>3. FrameIsDue'
  BY <1>1, Domains DEF FrameIsDue, Watched
<1>4. QED
  BY <1>2, <1>3 DEF FreshInv

\* A frame for a window that has moved is the one the worker had before.
LEMMA MovedStays ==
    ASSUME FreshInv,
           UNCHANGED <<gui, changeSinceLast, destroying, listening, window, pending>>,
           \A k \in Crops : HasMoved(k)' => HasMoved(k)
    PROVE  MovedIsAsked'
<1> SUFFICES ASSUME NEW k \in Crops, Watched(k)', HasMoved(k)'
             PROVE  PassIsAsked(CoordOf[k])' \/ FrameIsAsked(k)'
  BY DEF MovedIsAsked
<1>1. PassIsAsked(CoordOf[k]) \/ FrameIsAsked(k)
  BY DEF FreshInv, MovedIsAsked, Watched
<1>2. QED
  BY <1>1 DEF PassIsAsked, FrameIsAsked

\* Before and after it renders the worker disturbs no frame.
LEMMA IdleKeepsFresh ==
    ASSUME TypeOK, FreshInv,
           worker.pc \notin {"render", "overview", "crops", "fullCrop", "crop", "deliver"},
           worker'.pc \notin {"crops", "crop", "deliver"},
           UNCHANGED <<gui, changeSinceLast, params, nextParams, destroying,
                       listening, window, painted, shown, unfinished>>,
           \A k \in Crops : pending'[k] = pending[k] \/ FrameIsComing(k)' \/ destroying[CoordOf[k]]
    PROVE  FreshInv'
<1>1. PassHasOwn' /\ MovedIsAsked'
  BY DEF PassHasOwn, MovedIsAsked, HasMoved
<1>2. ASSUME NEW k \in Crops, Watched(k), ~ PassIsAsked(CoordOf[k])
      PROVE  UpToDate(k)' \/ FrameIsAsked(k)' \/ FrameIsComing(k)' \/ IsStale(k)'
  <2>1. UpToDate(k) \/ FrameIsAsked(k) \/ IsStale(k)
    BY <1>2 DEF FreshInv, FrameIsDue, PassIsComing, FrameIsComing
  <2>2. CASE UpToDate(k)
    BY <2>2 DEF UpToDate
  <2>3. CASE FrameIsAsked(k)
    BY <1>2, <2>3 DEF FrameIsAsked, Watched
  <2>4. CASE IsStale(k)
    BY <2>4 DEF IsStale
  <2>5. QED
    BY <2>1, <2>2, <2>3, <2>4
<1>3. QED
  BY <1>1, <1>2, WorkerIsAsked

\* process() outside of a pass: a claim starts a pass, or finds that there is
\* nothing to render.
LEMMA ProcessKeepsFresh ==
    ASSUME TypeOK, IInv, FreshInv, NEW c \in Coords, ProcessStep(c) PROVE FreshInv'
<1> USE Domains
<1>1. ASSUME ProcessEnter(c) \/ ProcessLock(c) \/ ProcessQuiet(c) \/ ProcessQuietProgress(c)
             \/ ProcessRecheck(c) \/ ProcessResume(c)
      PROVE  FreshInv'
  <2>1. UNCHANGED <<gui, changeSinceLast, params, nextParams, destroying, cropVars>>
    BY <1>1 DEF ProcessEnter, ProcessLock, ProcessQuiet, ProcessQuietProgress,
       ProcessRecheck,
       ProcessResume, processFrame
  <2>2. /\ worker.pc \in {"enter", "lock", "loop", "quiet", "recheck", "resume"}
        /\ worker'.pc \in {"lock", "loop", "quiet", "recheck", "resume", "release"}
    BY <1>1 DEF ProcessEnter, ProcessLock, ProcessQuiet, ProcessQuietProgress,
       ProcessRecheck,
       ProcessResume, Goto, At, TypeOK, WorkerStates
  <2>3. QED
    BY <2>1, <2>2, IdleKeepsFresh DEF cropVars
<1>2. ASSUME ProcessStopped(c) \/ ProcessRelease(c) PROVE FreshInv'
  <2>1. UNCHANGED <<gui, changeSinceLast, params, nextParams, destroying, cropVars>>
    BY <1>2 DEF ProcessStopped, ProcessRelease, processFrame
  <2>2. worker.pc \in {"stopped", "release"} /\ worker'.pc = "idle"
    BY <1>2 DEF ProcessStopped, ProcessRelease, At, Resting
  <2>3. QED
    BY <2>1, <2>2, IdleKeepsFresh DEF cropVars
<1>3. ASSUME ProcessStop(c) PROVE FreshInv'
  <2>1. /\ destroying[c] /\ changeSinceLast' = [changeSinceLast EXCEPT ![c] = {}]
        /\ UNCHANGED <<gui, params, nextParams, destroying, cropVars>>
        /\ worker.pc = "loop" /\ worker'.pc = "stopped"
    BY <1>3 DEF ProcessStop, processFrame, At, Goto, TypeOK, WorkerStates
  <2>2. \A d \in Coords \ {c} : changeSinceLast'[d] = changeSinceLast[d]
    BY <2>1 DEF TypeOK
  <2>3. \A d \in Coords \ {c} : PassIsAsked(d)' <=> PassIsAsked(d)
    BY <2>1, <2>2 DEF PassIsAsked
  <2>4. PassHasOwn' /\ MovedIsAsked'
    BY <2>1 DEF PassHasOwn, MovedIsAsked, HasMoved
  <2>5. EditIsClaimed'
    BY <2>1, <2>2, <2>3 DEF FreshInv, EditIsClaimed
  <2>6. FrameIsDue'
    BY <2>1, <2>3 DEF FreshInv, FrameIsDue, Watched, UpToDate, FrameIsAsked, PassIsComing,
       FrameIsComing, IsStale, cropVars
  <2>7. QED
    BY <2>4, <2>5, <2>6 DEF FreshInv
<1>4. ASSUME ProcessClaim(c) PROVE FreshInv'
  <2>1. /\ ~ destroying[c] /\ worker.pc = "loop" /\ worker.job = c
        /\ changeSinceLast' = [changeSinceLast EXCEPT ![c] = {}]
        /\ params' = [params EXCEPT ![c] = nextParams[c]]
        /\ UNCHANGED <<gui, nextParams, destroying, cropVars>>
    BY <1>4 DEF ProcessClaim, processFrame, At
  <2>2. /\ worker'.job = c /\ worker'.change = changeSinceLast[c] \cap RenderFlags
        /\ worker'.pc = IF worker'.change # {} THEN "render" ELSE "lock"
    BY <1>4 DEF ProcessClaim, At, TypeOK, WorkerStates
  <2>3. /\ changeSinceLast'[c] = {} /\ params'[c] = nextParams[c]
        /\ \A d \in Coords \ {c} :
              changeSinceLast'[d] = changeSinceLast[d] /\ params'[d] = params[d]
    BY <2>1 DEF TypeOK
  <2>4. \A d \in Coords \ {c} : PassIsAsked(d)' <=> PassIsAsked(d)
    BY <2>1, <2>3 DEF PassIsAsked
  <2>5. PassHasOwn'
    BY <2>2 DEF PassHasOwn
  <2>6. MovedIsAsked'
    BY <2>2 DEF MovedIsAsked, HasMoved
  <2>7. EditIsClaimed'
    BY <2>1, <2>3 DEF FreshInv, EditIsClaimed
  <2>8. FrameIsDue'
    <3> SUFFICES ASSUME NEW k \in Crops, Watched(k)'
                 PROVE  \/ UpToDate(k)'
                        \/ PassIsAsked(CoordOf[k])' \/ FrameIsAsked(k)'
                        \/ PassIsComing(k)' \/ FrameIsComing(k)' \/ IsStale(k)'
      BY DEF FrameIsDue
    <3>1. Watched(k) /\ CoordOf[k] \in Coords
      BY <2>1 DEF Watched, cropVars
    <3>2. \/ UpToDate(k) \/ PassIsAsked(CoordOf[k]) \/ FrameIsAsked(k) \/ IsStale(k)
      BY <2>1, <3>1 DEF FreshInv, FrameIsDue, PassIsComing, FrameIsComing
    <3>3. (FrameIsAsked(k)' <=> FrameIsAsked(k)) /\ (IsStale(k)' <=> IsStale(k))
      BY <2>1 DEF FrameIsAsked, IsStale, cropVars
    <3>4. CASE CoordOf[k] # c
      BY <2>1, <2>3, <2>4, <3>1, <3>2, <3>3, <3>4 DEF UpToDate, cropVars
    <3>5. CASE CoordOf[k] = c /\ changeSinceLast[c] \cap CanvasFlags # {}
      <4>1. worker'.change \cap CanvasFlags # {}
        BY <2>2, <3>5, PipelineAssumption
      <4>2. QED
        BY <2>2, <3>5, <4>1 DEF PassIsComing
    <3>6. CASE CoordOf[k] = c /\ changeSinceLast[c] \cap CanvasFlags = {}
      <4>1. params[c] = nextParams[c]
        BY <2>1, <3>6 DEF FreshInv, EditIsClaimed
      <4>2. UpToDate(k) => UpToDate(k)'
        BY <2>1, <2>3, <3>6, <4>1 DEF UpToDate, cropVars
      <4>3. PassIsAsked(c) => PassIsAsked(c)'
        BY <2>1, <3>6 DEF PassIsAsked
      <4>4. QED
        BY <3>2, <3>3, <3>6, <4>2, <4>3
    <3>7. QED
      BY <3>4, <3>5, <3>6
  <2>9. QED
    BY <2>5, <2>6, <2>7, <2>8 DEF FreshInv
<1>5. QED
  BY <1>1, <1>2, <1>3, <1>4 DEF ProcessStep

\* updatePreviewImage() comes to every crop that shows one of its stages, or
\* leaves them stale.
LEMMA RenderKeepsFresh ==
    ASSUME TypeOK, IInv, FreshInv, NEW c \in Coords, RenderStep(c) PROVE FreshInv'
<1> USE Domains
<1>1. UNCHANGED <<gui, changeSinceLast, params, nextParams, destroying,
                  listening, window, pending, painted, shown>>
  BY DEF RenderStep, RenderBegin, RenderOverview, RenderAbort, RenderEnd, CropSkip,
     CropBegin, renderFrame
<1>2. worker.job = c /\ worker'.job = c
  BY ZenonT(30) DEF RenderStep, RenderBegin, RenderOverview, RenderAbort, RenderEnd, CropSkip,
     CropBegin, LeavePass, Goto, At, TypeOK, WorkerStates
<1>3. \A k \in Crops : (UpToDate(k)' <=> UpToDate(k)) /\ (FrameIsAsked(k)' <=> FrameIsAsked(k))
  BY <1>1 DEF UpToDate, FrameIsAsked
<1>4. ASSUME NEW k \in Crops, Watched(k), ~ PassIsAsked(CoordOf[k]),
             ~ UpToDate(k), ~ FrameIsAsked(k), ~ IsStale(k),
             worker.pc \in {"render", "overview", "crops"}
      PROVE  /\ CoordOf[k] = c /\ worker.change \cap CanvasFlags # {}
             /\ worker.pc = "crops" => k \in worker.todo
  BY <1>2, <1>4 DEF FreshInv, FrameIsDue, PassIsComing, FrameIsComing
<1>5. CASE RenderBegin(c)
  <2>1. /\ worker.pc = "render" /\ worker'.pc = "overview" /\ worker'.change = worker.change
        /\ UNCHANGED unfinished
    BY <1>5 DEF RenderBegin, At, Goto, TypeOK, WorkerStates
  <2>2. PassHasOwn' /\ MovedIsAsked'
    BY <2>1 DEF PassHasOwn, MovedIsAsked, HasMoved
  <2>3. \A k \in Crops : IsStale(k)' <=> IsStale(k)
    BY <2>1 DEF IsStale
  <2>4. QED
    BY <1>1, <1>2, <1>3, <1>4, <2>1, <2>2, <2>3, WorkerIsAsked DEF PassIsComing
<1>6. CASE RenderOverview(c)
  <2>1. /\ worker.pc = "overview" /\ worker'.pc = "crops" /\ worker'.todo = CropsOf(c)
        /\ worker'.change = worker.change
    BY <1>6 DEF RenderOverview, At, TypeOK, WorkerStates
  <2>2. PassHasOwn' /\ MovedIsAsked'
    BY <1>2, <2>1 DEF PassHasOwn, MovedIsAsked, HasMoved, CropsOf
  <2>3. ASSUME NEW k \in Crops, IsStale(k)
        PROVE  IsStale(k)' \/ (CoordOf[k] = c /\ worker.change \cap CanvasFlags # {})
    <3>1. \/ UNCHANGED unfinished
          \/ unfinished' = [unfinished EXCEPT ![c] = @ \ worker.change]
      BY <1>6 DEF RenderOverview
    <3>2. /\ \A t \in Targets \ {c} : unfinished'[t] = unfinished[t]
          /\ unfinished'[c] = unfinished[c] \/ unfinished'[c] = unfinished[c] \ worker.change
      BY <3>1 DEF TypeOK
    <3>3. k \in Targets \ {c} /\ CoordOf[k] \in Targets
      BY PipelineAssumption
    <3>4. QED
      BY <2>3, <3>2, <3>3 DEF IsStale
  <2>4. QED
    BY <1>1, <1>2, <1>3, <1>4, <2>1, <2>2, <2>3, WorkerIsAsked DEF PassIsComing, CropsOf
<1>7. CASE RenderAbort(c)
  <2>1. worker.pc = "overview" /\ worker'.pc = "lock"
    BY <1>7 DEF RenderAbort, LeavePass, At, TypeOK, WorkerStates
  <2>2. PassHasOwn' /\ MovedIsAsked'
    BY <2>1 DEF PassHasOwn, MovedIsAsked, HasMoved
  <2>3. /\ \A t \in Targets : unfinished[t] \subseteq unfinished'[t]
        /\ \A t \in Targets : Coord(t) = c => worker.change \subseteq unfinished'[t]
    BY <1>7 DEF RenderAbort
  <2>4. \A k \in Crops : IsStale(k) => IsStale(k)'
    BY <2>3 DEF IsStale
  <2>5. \A k \in Crops : CoordOf[k] = c /\ worker.change \cap CanvasFlags # {} => IsStale(k)'
    BY <2>3 DEF IsStale, Coord
  <2>6. QED
    BY <1>1, <1>2, <1>3, <1>4, <2>1, <2>2, <2>4, <2>5, WorkerIsAsked
<1>8. CASE RenderEnd(c)
  <2>1. /\ worker.pc = "crops" /\ worker'.pc = "lock" /\ worker.todo = {}
        /\ UNCHANGED unfinished
    BY <1>8 DEF RenderEnd, LeavePass, At, TypeOK, WorkerStates
  <2>2. PassHasOwn' /\ MovedIsAsked'
    BY <2>1 DEF PassHasOwn, MovedIsAsked, HasMoved
  <2>3. \A k \in Crops : IsStale(k)' <=> IsStale(k)
    BY <2>1 DEF IsStale
  <2>4. QED
    BY <1>1, <1>2, <1>3, <1>4, <2>1, <2>2, <2>3, WorkerIsAsked
<1>9. ASSUME NEW k \in Crops, CropSkip(c, k) PROVE FreshInv'
  <2>1. /\ worker.pc = "crops" /\ worker'.pc = "crops" /\ worker'.todo = worker.todo \ {k}
        /\ worker'.change = worker.change /\ UNCHANGED unfinished
        /\ ~ listening[k] \/ worker.change \cap CanvasFlags = {}
    BY <1>9 DEF CropSkip, At, TypeOK, WorkerStates
  <2>2. PassHasOwn' /\ MovedIsAsked'
    BY <1>2, <2>1 DEF FreshInv, PassHasOwn, MovedIsAsked, HasMoved
  <2>3. \A x \in Crops : IsStale(x)' <=> IsStale(x)
    BY <2>1 DEF IsStale
  <2>4. QED
    BY <1>1, <1>2, <1>3, <1>4, <2>1, <2>2, <2>3, WorkerIsAsked DEF PassIsComing, Watched
<1>10. ASSUME NEW k \in Crops, CropBegin(c, k) PROVE FreshInv'
  <2>1. /\ worker.pc = "crops" /\ worker'.pc = "crop" /\ worker'.todo = worker.todo \ {k}
        /\ worker'.crop = k /\ worker'.geometry = window[k] /\ k \in worker.todo
        /\ worker'.change = worker.change /\ UNCHANGED unfinished
    BY <1>10 DEF CropBegin, At, TypeOK, WorkerStates
  <2>2. PassHasOwn' /\ MovedIsAsked'
    BY <1>1, <1>2, <2>1 DEF FreshInv, PassHasOwn, MovedIsAsked, HasMoved
  <2>3. FrameIsComing(k)' /\ \A x \in Crops : IsStale(x)' <=> IsStale(x)
    BY <1>1, <2>1 DEF FrameIsComing, IsStale
  <2>4. QED
    BY <1>1, <1>2, <1>3, <1>4, <2>1, <2>2, <2>3, WorkerIsAsked DEF PassIsComing
<1>11. QED
  BY <1>5, <1>6, <1>7, <1>8, <1>9, <1>10 DEF RenderStep

\* Crop::update() delivers a frame that fits, unless its window has moved: then
\* another one is asked for.
LEMMA FrameKeepsFresh ==
    ASSUME TypeOK, IInv, FreshInv, NEW k \in Crops, CropFinish(k) \/ CropDeliver(k)
    PROVE  FreshInv'
<1> USE Domains
<1>1. UNCHANGED <<gui, changeSinceLast, params, nextParams, destroying,
                  listening, window, pending>>
  BY DEF CropFinish, CropDeliver, renderFrame
<1>2. /\ worker.pc \in {"crop", "deliver"} /\ worker.crop = k
      /\ worker'.job = worker.job /\ worker'.change = worker.change
      /\ worker.job \in Coords \/ worker.job = k
  <2>1. worker.pc \in {"crop", "deliver"} /\ worker.crop = k
    BY DEF CropFinish, CropDeliver
  <2>2. worker.job \in Coords \/ worker.job = k
    BY <2>1 DEF IInv, ThreadShape, Targets
  <2>3. ASSUME CropFinish(k)
        PROVE  worker'.job = worker.job /\ worker'.change = worker.change
    BY <2>3 DEF CropFinish, TypeOK, WorkerStates
  <2>4. ASSUME CropDeliver(k)
        PROVE  worker'.job = worker.job /\ worker'.change = worker.change
    BY <2>4 DEF CropDeliver, TypeOK, WorkerStates
  <2>5. QED
    BY <2>1, <2>2, <2>3, <2>4
<1>3. /\ \A x \in Crops : FrameIsAsked(x)' <=> FrameIsAsked(x)
      /\ \A x \in Crops \ {k} : UpToDate(x)' <=> UpToDate(x)
      /\ \A x \in Crops \ {k} : IsStale(x)' <=> IsStale(x)
  <2>1. \A x \in Crops \ {k} : painted'[x] = painted[x] /\ shown'[x] = shown[x]
    BY DEF CropFinish, CropDeliver, TypeOK
  <2>2. \A t \in Targets \ {k} : unfinished'[t] = unfinished[t]
    BY DEF CropFinish, CropDeliver, TypeOK
  <2>3. \A x \in Crops \ {k} : CoordOf[x] \in Targets \ {k} /\ x \in Targets \ {k}
    BY PipelineAssumption
  <2>4. \A x \in Crops \ {k} : IsStale(x)' <=> IsStale(x)
    BY <2>2, <2>3 DEF IsStale
  <2>5. QED
    BY <1>1, <2>1, <2>4 DEF FrameIsAsked, UpToDate
<1>4. ASSUME worker'.pc \in {"crops", "fullLoop", "deliver"}, worker'.todo = worker.todo,
             worker'.pc = "deliver" => worker'.crop = k /\ worker'.geometry = worker.geometry,
             worker'.pc = "fullLoop" => worker.job \in Crops,
             Watched(k) /\ ~ PassIsAsked(CoordOf[k]) =>
                 \/ UpToDate(k)' \/ FrameIsAsked(k)'
                 \/ PassIsComing(k)' \/ FrameIsComing(k)' \/ IsStale(k)'
      PROVE  FreshInv'
  <2>1. PassHasOwn'
    BY <1>2, <1>4 DEF FreshInv, PassHasOwn
  <2>2. MovedIsAsked'
    <3>1. \A x \in Crops : HasMoved(x)' => HasMoved(x)
      BY <1>1, <1>2, <1>4 DEF HasMoved
    <3>2. QED
      BY <1>1, <3>1, MovedStays
  <2>3. ASSUME NEW x \in Crops \ {k}, Watched(x), ~ PassIsAsked(CoordOf[x])
        PROVE  UpToDate(x)' \/ FrameIsAsked(x)' \/ PassIsComing(x)' \/ IsStale(x)'
    <3>1. UpToDate(x) \/ FrameIsAsked(x) \/ PassIsComing(x) \/ IsStale(x)
      BY <1>2, <2>3 DEF FreshInv, FrameIsDue, FrameIsComing
    <3>2. PassIsComing(x) => PassIsComing(x)'
      BY <1>2, <1>4, PipelineAssumption DEF PassIsComing
    <3>3. QED
      BY <1>3, <3>1, <3>2
  <2>4. QED
    BY <1>1, <1>4, <2>1, <2>2, <2>3, WorkerIsAsked
<1>5. CASE CropFinish(k)
  <2>1. worker.pc = "crop" /\ UNCHANGED <<painted, shown>>
    BY <1>5 DEF CropFinish
  <2>2. CASE listening[k] /\ ~ destroying[CoordOf[k]]
    <3>1. /\ worker'.pc = "deliver" /\ worker'.todo = worker.todo /\ worker'.crop = k
          /\ worker'.geometry = worker.geometry
      BY <1>2, <1>5, <2>2 DEF CropFinish, TypeOK, WorkerStates
    <3>2. FrameIsComing(k)' \/ HasMoved(k)
      BY <1>1, <1>2, <3>1 DEF FrameIsComing, HasMoved
    <3>3. HasMoved(k) => PassIsAsked(CoordOf[k]) \/ FrameIsAsked(k)
      BY <2>2 DEF FreshInv, MovedIsAsked, Watched
    <3>4. QED
      BY <1>3, <1>4, <3>1, <3>2, <3>3
  <2>3. CASE ~ (listening[k] /\ ~ destroying[CoordOf[k]])
    <3>1. worker'.pc = AfterCrop /\ worker'.todo = worker.todo
      BY <1>5, <2>3 DEF CropFinish, TypeOK, WorkerStates
    <3>2. QED
      BY <1>4, <2>3, <3>1 DEF AfterCrop, Watched
  <2>4. QED
    BY <2>2, <2>3
<1>6. CASE CropDeliver(k)
  <2>1. worker.pc = "deliver" /\ worker'.pc = AfterCrop /\ worker'.todo = worker.todo
    BY <1>6 DEF CropDeliver, TypeOK, WorkerStates
  <2>2. CASE Accepted(k)
    <3>1. painted'[k] = worker.geometry /\ shown'[k] = params[CoordOf[k]]
      BY <1>6, <2>2 DEF CropDeliver, TypeOK
    <3>2. UpToDate(k)'
      BY <1>1, <2>2, <3>1 DEF UpToDate, Accepted
    <3>3. QED
      BY <1>4, <2>1, <3>2 DEF AfterCrop
  <2>3. CASE ~ Accepted(k)
    <3>1. HasMoved(k)
      BY <1>2, <2>3 DEF HasMoved, Accepted
    <3>2. Watched(k) => PassIsAsked(CoordOf[k]) \/ FrameIsAsked(k)
      BY <3>1 DEF FreshInv, MovedIsAsked
    <3>3. QED
      BY <1>3, <1>4, <2>1, <3>2 DEF AfterCrop
  <2>4. QED
    BY <2>2, <2>3
<1>7. QED
  BY <1>5, <1>6

\* An exception leaves the canvases it has not come to stale.
LEMMA ThrowKeepsFresh ==
    ASSUME TypeOK, IInv, FreshInv, NEW k \in Crops, PassThrow(k) \/ FullThrow(k)
    PROVE  FreshInv'
<1> USE Domains
<1>1. UNCHANGED <<gui, changeSinceLast, params, nextParams, destroying,
                  listening, window, pending, painted, shown>>
  BY DEF PassThrow, FullThrow, renderFrame
<1>2. worker.pc = "crop" /\ worker.crop = k /\ worker'.pc \in {"lock", "fullLoop"}
  BY DEF PassThrow, FullThrow, LeavePass, TypeOK, WorkerStates
<1>3. PassHasOwn' /\ MovedIsAsked'
  BY <1>2 DEF PassHasOwn, MovedIsAsked, HasMoved
<1>4. /\ \A t \in Targets : unfinished[t] \subseteq unfinished'[t]
      /\ RenderFlags \subseteq unfinished'[k]
      /\ \A t \in Crops : worker.job \in Coords /\ t \in worker.todo =>
            worker.change \subseteq unfinished'[t]
  <2>1. k \in Targets /\ worker.change \in SUBSET RenderFlags
    BY DEF TypeOK, WorkerStates
  <2>2. CASE PassThrow(k)
    <3>1. \A t \in Targets :
              unfinished'[t] = IF t = k THEN RenderFlags
                               ELSE IF t \in worker.todo
                               THEN unfinished[t] \cup worker.change
                               ELSE unfinished[t]
      BY <2>2 DEF PassThrow
    <3>2. QED
      BY <2>1, <3>1 DEF TypeOK
  <2>3. CASE FullThrow(k)
    <3>1. worker.job \notin Coords
      BY <2>3, PipelineAssumption DEF FullThrow
    <3>2. QED
      BY <2>1, <2>3, <3>1 DEF FullThrow, TypeOK
  <2>4. QED
    BY <2>2, <2>3
<1>5. \A x \in Crops : IsStale(x) => IsStale(x)'
  BY <1>4 DEF IsStale
<1>6. ASSUME NEW x \in Crops, PassIsComing(x) PROVE IsStale(x)'
  <2>1. worker.job \in Coords /\ x \in worker.todo /\ worker.change \cap CanvasFlags # {}
    BY <1>2, <1>6 DEF PassIsComing
  <2>2. QED
    BY <1>4, <2>1 DEF IsStale
<1>7. IsStale(k)'
  BY <1>4, PipelineAssumption DEF IsStale
<1>8. ASSUME NEW x \in Crops, Watched(x), ~ PassIsAsked(CoordOf[x])
      PROVE  UpToDate(x)' \/ FrameIsAsked(x)' \/ IsStale(x)'
  <2>1. FrameIsComing(x) => x = k
    BY <1>2 DEF FrameIsComing
  <2>2. UpToDate(x) \/ FrameIsAsked(x) \/ IsStale(x)'
    BY <1>5, <1>6, <1>7, <1>8, <2>1 DEF FreshInv, FrameIsDue
  <2>3. QED
    BY <1>1, <2>2 DEF UpToDate, FrameIsAsked
<1>9. QED
  BY <1>1, <1>3, <1>8, WorkerIsAsked

\* fullUpdate() takes a request and renders it.
LEMMA FullKeepsFresh ==
    ASSUME TypeOK, IInv, FreshInv, NEW k \in Crops,
           \/ FullEnter(k) \/ FullRefused(k) \/ TakePending(k) \/ TakeNothing(k)
           \/ FullCrop(k) \/ FullLeave(k)
    PROVE  FreshInv'
<1> USE Domains
<1>1. UNCHANGED <<gui, changeSinceLast, params, nextParams, destroying,
                  listening, window, painted, shown, unfinished>>
  BY DEF FullEnter, FullRefused, TakePending, TakeNothing, FullCrop, FullLeave, fullFrame
<1>2. CASE FullEnter(k) \/ TakeNothing(k) \/ FullLeave(k)
  <2>1. worker.pc \in {"fullEnter", "fullLoop", "fullDone"} /\ UNCHANGED pending
    BY <1>2 DEF FullEnter, TakeNothing, FullLeave, At
  <2>2. worker'.pc \in {"fullLoop", "fullDone", "idle"}
    BY <1>2 DEF FullEnter, TakeNothing, FullLeave, Goto, Resting, TypeOK, WorkerStates
  <2>3. QED
    BY <1>1, <2>1, <2>2, IdleKeepsFresh
<1>3. CASE FullRefused(k)
  <2>1. worker.pc = "fullEnter" /\ worker'.pc = "idle" /\ destroying[CoordOf[k]]
    BY <1>3 DEF FullRefused, At, Resting
  <2>2. \A x \in Crops \ {k} : pending'[x] = pending[x]
    BY <1>3 DEF FullRefused, TypeOK
  <2>3. QED
    BY <1>1, <2>1, <2>2, IdleKeepsFresh
<1>4. CASE TakePending(k)
  <2>1. worker.pc = "fullLoop" /\ worker'.pc = "fullCrop" /\ worker'.job = k
    BY <1>4 DEF TakePending, At, Goto, TypeOK, WorkerStates
  <2>2. \A x \in Crops \ {k} : pending'[x] = pending[x]
    BY <1>4 DEF TakePending, TypeOK
  <2>3. FrameIsComing(k)'
    BY <2>1 DEF FrameIsComing
  <2>4. QED
    BY <1>1, <2>1, <2>2, <2>3, IdleKeepsFresh
<1>5. CASE FullCrop(k)
  <2>1. /\ worker.pc = "fullCrop" /\ worker.job = k /\ worker'.job = k
        /\ worker'.pc = "crop" /\ worker'.crop = k /\ worker'.geometry = window[k]
        /\ UNCHANGED pending
    BY <1>5 DEF FullCrop, At, TypeOK, WorkerStates
  <2>2. PassHasOwn' /\ MovedIsAsked' /\ FrameIsComing(k)'
    BY <1>1, <2>1, PipelineAssumption DEF PassHasOwn, MovedIsAsked, HasMoved, FrameIsComing
  <2>3. ASSUME NEW x \in Crops \ {k}, Watched(x), ~ PassIsAsked(CoordOf[x])
        PROVE  UpToDate(x)' \/ FrameIsAsked(x)' \/ IsStale(x)'
    <3>1. UpToDate(x) \/ FrameIsAsked(x) \/ IsStale(x)
      BY <2>1, <2>3 DEF FreshInv, FrameIsDue, PassIsComing, FrameIsComing
    <3>2. QED
      BY <1>1, <2>1, <3>1 DEF UpToDate, FrameIsAsked, IsStale
  <2>4. QED
    BY <1>1, <2>2, <2>3, WorkerIsAsked
<1>6. QED
  BY <1>2, <1>3, <1>4, <1>5

\* Taking a task disturbs no frame.
LEMMA TakeTaskKeepsFresh == ASSUME TypeOK, IInv, FreshInv, TakeTask PROVE FreshInv'
<1>1. UNCHANGED <<gui, changeSinceLast, params, nextParams, destroying,
                  listening, window, painted, shown, pending, unfinished>>
  BY DEF TakeTask, coordVars, cropVars
<1>2. worker.pc = "idle" /\ worker'.pc \in {"idle", "enter", "fullEnter"}
  BY DEF TakeTask, TypeOK, WorkerStates
<1>3. QED
  BY <1>1, <1>2, IdleKeepsFresh

\* A visible canvas is up to date, or there is a reason why it will be, or a
\* stage it shows was broken off (RenderAbort, PassThrow, FullThrow) and has not
\* been run since: of a pass that is broken off nothing else is forgotten.
THEOREM CanvasWillBeCurrent == Spec => []FreshInv
<1>1. TypeOK /\ IInv /\ FreshInv /\ [Next]_vars => FreshInv'
  <2> SUFFICES ASSUME TypeOK, IInv, FreshInv, [Next]_vars PROVE FreshInv'
    OBVIOUS
  <2>1. CASE UserStep \/ GuiStep \/ CleanupStep
    BY <2>1, GuiOnlyAsks, AskingKeepsFresh
  <2>2. CASE WorkerStep
    BY <2>2, TakeTaskKeepsFresh, ProcessKeepsFresh, RenderKeepsFresh, FrameKeepsFresh,
       ThrowKeepsFresh, FullKeepsFresh DEF WorkerStep, CropStep
  <2>3. CASE Finished \/ UNCHANGED vars
    <3>1. UNCHANGED vars
      BY <2>3 DEF Finished
    <3>2. OnlyAsks
      BY <3>1 DEF vars, coordVars, cropVars, OnlyAsks, PassIsAsked, FrameIsAsked
    <3>3. QED
      BY <3>2, AskingKeepsFresh
  <2>4. QED
    BY <2>1, <2>2, <2>3 DEF Next
<1>2. QED
  BY <1>1, FreshInit, TypeCorrect, Inductive, PTL DEF Spec

\* A photo at rest is up to date: with no task of the photo or its canvas left
\* and an idle GUI, the canvas shows the newest edit in the window that was asked
\* for last (process() against endUpdateParams, tryUpdate against fullUpdate),
\* unless a stage of its picture was broken off and has not been run since.
THEOREM RestIsCurrent == Spec => []SettledIsCurrent
<1>1. TypeOK /\ IInv /\ FreshInv => SettledIsCurrent
  <2> SUFFICES ASSUME TypeOK, IInv, FreshInv, NEW k \in Crops, NEW c, c = CoordOf[k],
                      listening[k], ~ destroying[c], ~ Unfinished(k),
                      ~ Incomplete(c), ~ Incomplete(k), gui.pc = "idle"
               PROVE  shown[k] = nextParams[c] /\ painted[k] = window[k]
    BY DEF SettledIsCurrent
  <2>0. c \in Coords /\ c \in Targets /\ k \in Targets
    BY Domains
  <2>1. changeSinceLast[c] = {}
    BY <2>0 DEF IInv, NoLostEdit, UpdaterIsAlive, WillStart
  <2>2. ~ PassIsAsked(c)
    BY <2>1 DEF PassIsAsked
  <2>3. ~ FrameIsAsked(k)
    BY DEF FrameIsAsked, IInv, NoLostWindow, Incomplete
  <2>4. worker.job # c /\ worker.job # k
    BY DEF Incomplete
  <2>5. ~ PassIsComing(k)
    BY <2>4 DEF PassIsComing
  <2>6. ~ FrameIsComing(k)
    <3>1. ASSUME worker.pc \in {"crop", "deliver"}, worker.crop = k PROVE FALSE
      <4>1. worker.job \in Targets /\ (worker.job \in Crops => worker.job = k)
        BY <3>1 DEF IInv, ThreadShape
      <4>2. worker.job \in Coords => worker.job = c
        BY <3>1 DEF FreshInv, PassHasOwn
      <4>3. QED
        BY <2>4, <4>1, <4>2 DEF Targets
    <3>2. QED
      BY <2>4, <3>1 DEF FrameIsComing
  <2>7. UpToDate(k)
    <3>1. ~ IsStale(k)
      BY DEF IsStale, Unfinished
    <3>2. QED
      BY <2>2, <2>3, <2>5, <2>6, <3>1 DEF FreshInv, FrameIsDue, Watched
  <2>8. params[c] = nextParams[c]
    BY <2>0, <2>1 DEF FreshInv, EditIsClaimed
  <2>9. QED
    BY <2>7, <2>8 DEF UpToDate
<1>2. QED
  BY <1>1, CanvasWillBeCurrent, TypeCorrect, Inductive, PTL

-----------------------------------------------------------------------------
(* The pipeline implements the promise of module Canvas: every step of the *)
(* three threads is a step of the canvas or leaves it as it is.            *)


\* What the promise sees.
canvasVars == <<nextParams, destroying, listening, window, painted, shown>>

Coming == [k \in Crops |-> worker.pc = "deliver" /\ worker.crop = k]

LEMMA HiddenSteps ==
    ASSUME UNCHANGED canvasVars, UNCHANGED Coming PROVE UNCHANGED Promise!vars
BY DEF canvasVars, Coming, Promise!vars

\* A thread other than the worker sends no frame.
LEMMA OthersSendNothing == ASSUME UNCHANGED worker PROVE UNCHANGED Coming
BY DEF Coming

\* The worker does where it neither takes nor ends a delivery.
LEMMA NothingComing ==
    ASSUME worker.pc # "deliver", worker'.pc # "deliver"
    PROVE  UNCHANGED Coming
BY DEF Coming

\* An edit that a canvas shows is an edit of the promise; one that it does not,
\* and everything else the GUI thread finishes on its own, is invisible.
LEMMA GuiStepsAllowed ==
    ASSUME TypeOK, IInv, GuiStep PROVE [Promise!Next]_Promise!vars
<1>1. ASSUME NEW c \in Coords, NEW action \in Actions, action \cap CanvasFlags # {},
             EndUpdateParams(c, action)
      PROVE  Promise!Edit(c)
  <2>1. gui.pc = "editing" /\ gui.on = c
    BY <1>1 DEF EndUpdateParams
  <2>2. ops > nextParams[c] /\ ops \in 0 .. MaxOps + 1
    BY <2>1, PipelineAssumption DEF IInv, VersionOrder, TypeOK, Versions
  <2>3. /\ nextParams' = [nextParams EXCEPT ![c] = ops]
        /\ UNCHANGED <<destroying, listening, window, painted, shown, worker>>
    BY <1>1 DEF EndUpdateParams, cropVars
  <2>4. QED
    BY <2>2, <2>3 DEF Promise!Edit
<1>2. ASSUME NEW c \in Coords, NEW action \in Actions, action \cap CanvasFlags = {},
             EndUpdateParams(c, action)
      PROVE  UNCHANGED canvasVars /\ UNCHANGED worker
  BY <1>2 DEF EndUpdateParams, canvasVars, cropVars, TypeOK
<1>3. ASSUME NEW c \in Coords,
             \/ \E action \in Actions : StartProcessingCode(c, action)
             \/ StartProcessing(c) \/ StartProcessingLocked(c)
             \/ SignalCancel(c)
      PROVE  UNCHANGED canvasVars /\ UNCHANGED worker
  BY <1>3 DEF StartProcessingCode, StartProcessing, StartProcessingLocked,
     SignalCancel, canvasVars, coordVars, cropVars
<1>4. ASSUME NEW k \in Crops, TryUpdate(k) \/ StartUpdate(k)
      PROVE  UNCHANGED canvasVars /\ UNCHANGED worker
  BY <1>4 DEF TryUpdate, StartUpdate, canvasVars, coordVars
<1>5. QED
  BY <1>1, <1>2, <1>3, <1>4, HiddenSteps, OthersSendNothing
     DEF GuiStep, Promise!Next

\* Moving, hiding, showing and closing are steps of the promise.
LEMMA UserStepsAllowed ==
    ASSUME TypeOK, IInv, UserStep PROVE [Promise!Next]_Promise!vars
<1> USE DEF UserOperation, coordVars, cropVars
<1>1. ASSUME NEW c \in Coords,
             \/ BeginUpdateParams(c) \/ RequestPass(c)
             \/ CancelRepairs(c) \/ RetryRepairs(c)
      PROVE  UNCHANGED canvasVars /\ UNCHANGED worker
  BY <1>1 DEF BeginUpdateParams, RequestPass, CancelRepairs, RetryRepairs,
     canvasVars
<1>2. ASSUME NEW c \in Coords, SignalStop(c) PROVE Promise!Close(c)
  BY <1>2 DEF SignalStop, Promise!Close
<1>3. ASSUME NEW c \in Coords, Close(c) PROVE Promise!Detach(c)
  <2>1. destroying[c]
    BY <1>3 DEF Close, IInv, OnlyStoppingIsCancelled
  <2>2. QED
    BY <2>1, <1>3 DEF Close, Promise!Detach
<1>4. ASSUME NEW k \in Crops, MoveWindow(k) \/ ZoomToFull(k)
      PROVE  Promise!Move(k)
  <2>1. ops + 2 \in 1 .. MaxOps + 1
    BY <1>4, PipelineAssumption DEF MoveWindow, ZoomToFull, TypeOK
  <2>2. window' = [window EXCEPT ![k] = ops + 2]
    BY <1>4 DEF MoveWindow, ZoomToFull
  <2>3. painted' = [painted EXCEPT ![k] = IF listening[k] THEN 0 ELSE @]
    <3>1. CASE listening[k]
      BY <3>1, <1>4 DEF MoveWindow, ZoomToFull, TypeOK
    <3>2. CASE ~ listening[k]
      BY <3>2, <1>4 DEF MoveWindow, ZoomToFull, TypeOK
    <3>3. QED BY <3>1, <3>2
  <2>4. UNCHANGED <<nextParams, destroying, listening, shown, worker>>
    BY <1>4 DEF MoveWindow, ZoomToFull
  <2>5. QED
    BY <2>1, <2>2, <2>3, <2>4 DEF Promise!Move
<1>5. ASSUME NEW k \in Crops, Enable(k) \/ Disable(k) PROVE Promise!Toggle(k)
  <2>1. listening' = [listening EXCEPT ![k] = ~ @]
    BY <1>5 DEF Enable, Disable, TypeOK
  <2>2. QED
    BY <2>1, <1>5 DEF Enable, Disable, Promise!Toggle
<1>6. QED
  BY <1>1, <1>2, <1>3, <1>4, <1>5, HiddenSteps,
     OthersSendNothing DEF UserStep, Promise!Next

\* Of the cleanup thread the canvas sees at most the stop.
LEMMA CleanupStepsAllowed ==
    ASSUME CleanupStep PROVE [Promise!Next]_Promise!vars
<1>1. ASSUME NEW c \in Coords, CleanupStart(c) PROVE Promise!Close(c)
  BY <1>1 DEF CleanupStart, Promise!Close, cropVars
<1>2. ASSUME NEW c \in Coords,
             \/ CleanupCancel(c) \/ CleanupWait(c) \/ CleanupDrain(c)
             \/ CleanupFree(c)
      PROVE  UNCHANGED canvasVars /\ UNCHANGED worker
  BY <1>2 DEF CleanupCancel, CleanupWait, CleanupDrain, CleanupFree,
     canvasVars, coordVars, cropVars
<1>3. QED
  BY <1>1, <1>2, HiddenSteps, OthersSendNothing DEF CleanupStep, Promise!Next

\* A frame is sent only to a visible canvas of a photo that is not closing.
LEMMA SendAllowed ==
    ASSUME TypeOK, NEW k \in Crops, CropFinish(k)
    PROVE  [Promise!Next]_Promise!vars
<1>1. UNCHANGED canvasVars /\ worker.pc = "crop" /\ worker.crop = k
  BY DEF CropFinish, renderFrame, canvasVars
<1>2. CASE listening[k] /\ ~ destroying[CoordOf[k]]
  <2>1. worker'.pc = "deliver" /\ worker'.crop = k
    BY <1>1, <1>2 DEF CropFinish, TypeOK, WorkerStates
  <2>2. ~ Coming[k] /\ Coming' = [Coming EXCEPT ![k] = TRUE]
    BY <1>1, <2>1 DEF Coming
  <2>3. Promise!Send(k)
    BY <1>1, <1>2, <2>2 DEF Promise!Send, Coming, canvasVars
  <2>4. QED
    BY <2>3 DEF Promise!Next
<1>3. CASE ~ (listening[k] /\ ~ destroying[CoordOf[k]])
  <2>1. worker'.pc # "deliver"
    BY <1>3 DEF CropFinish, AfterCrop, TypeOK, WorkerStates
  <2>2. QED
    BY <1>1, <2>1, HiddenSteps, NothingComing
<1>4. QED
  BY <1>2, <1>3

\* A frame that is accepted is a frame of the promise: of the newest window,
\* and of an edit no older than the one on the canvas.
LEMMA FrameAllowed ==
    ASSUME TypeOK, IInv, NEW k \in Crops, CropDeliver(k)
    PROVE  [Promise!Next]_Promise!vars
<1>1. /\ UNCHANGED <<nextParams, destroying, listening, window>>
      /\ worker.pc = "deliver" /\ worker.crop = k
  BY DEF CropDeliver, renderFrame
<1>2. worker'.pc # "deliver"
  BY DEF CropDeliver, AfterCrop, TypeOK, WorkerStates
<1>3. Coming[k] /\ Coming' = [Coming EXCEPT ![k] = FALSE]
  BY <1>1, <1>2 DEF Coming
<1>4. CASE Accepted(k)
  <2>1. listening[k] \/ destroying[CoordOf[k]]
    BY <1>1 DEF IInv, DeliveryIsSeen
  <2>2. CoordOf[k] \in Coords
    BY PipelineAssumption
  <2>3. PICK v \in 0 .. MaxOps + 1 : v = params[CoordOf[k]]
    BY <2>2 DEF TypeOK, Versions
  <2>4. /\ painted' = [painted EXCEPT ![k] = window[k]]
        /\ shown' = [shown EXCEPT ![k] = v]
    BY <1>4, <2>3 DEF CropDeliver, Accepted
  <2>5. v \in shown[k] .. nextParams[CoordOf[k]]
    BY <2>2, <2>3 DEF IInv, VersionOrder, TypeOK, Versions
  <2>6. Promise!Paint(k, v)
    BY <1>1, <1>3, <2>1, <2>4, <2>5 DEF Promise!Paint, Coming
  <2>7. QED
    BY <2>3, <2>6 DEF Promise!Next
<1>5. CASE ~ Accepted(k)
  <2>1. UNCHANGED <<painted, shown>>
    BY <1>5 DEF CropDeliver
  <2>2. Promise!Drop(k)
    BY <1>1, <1>3, <2>1 DEF Promise!Drop, Coming
  <2>3. QED
    BY <2>2 DEF Promise!Next
<1>6. QED
  BY <1>4, <1>5

\* Only CropFinish and CropDeliver start or end a delivery.
LEMMA CropUndelivered ==
    ASSUME TypeOK, NEW k \in Crops, CropStep(k), ~ CropFinish(k),
           ~ CropDeliver(k)
    PROVE  worker.pc # "deliver" /\ worker'.pc # "deliver"
<1> USE DEF TypeOK, WorkerStates, At, Goto
<1>1. CASE PassThrow(k) \/ FullThrow(k)
  BY <1>1 DEF PassThrow, FullThrow, LeavePass
<1>2. CASE FullEnter(k) \/ TakePending(k) \/ TakeNothing(k) \/ FullCrop(k)
  BY <1>2 DEF FullEnter, TakePending, TakeNothing, FullCrop
<1>3. CASE FullRefused(k) \/ FullLeave(k)
  BY <1>3 DEF FullRefused, FullLeave, Resting
<1>4. QED
  BY <1>1, <1>2, <1>3 DEF CropStep

\* Everything else the worker does is invisible.
LEMMA WorkerStepsAllowed ==
    ASSUME TypeOK, IInv, WorkerStep
    PROVE  [Promise!Next]_Promise!vars
<1> USE DEF TypeOK, WorkerStates, At, Goto
<1>1. ASSUME TakeTask PROVE UNCHANGED canvasVars /\ UNCHANGED Coming
  <2>1. worker.pc # "deliver" /\ worker'.pc # "deliver"
    BY <1>1 DEF TakeTask, TaskRecords
  <2>2. QED
    BY <1>1, <2>1, NothingComing
       DEF TakeTask, canvasVars, coordVars, cropVars
<1>2. ASSUME NEW c \in Coords, ProcessStep(c)
      PROVE  UNCHANGED canvasVars /\ UNCHANGED Coming
  <2> USE DEF ProcessStep, ProcessEnter, ProcessLock, ProcessStop,
        ProcessStopped, ProcessQuiet, ProcessQuietProgress, ProcessRecheck,
        ProcessResume, ProcessRelease, ProcessClaim
  <2>1. worker.pc # "deliver" /\ worker'.pc # "deliver"
    <3>1. CASE ProcessClaim(c)
      <4>1. worker'.pc \in {"render", "lock"}
        BY <3>1
      <4>2. QED BY <3>1, <4>1
    <3>2. CASE ~ ProcessClaim(c)
      BY <1>2, <3>2 DEF Resting
    <3>3. QED BY <3>1, <3>2
  <2>2. UNCHANGED canvasVars
    BY <1>2 DEF processFrame, canvasVars, cropVars
  <2>3. QED
    BY <2>1, <2>2, NothingComing
<1>3. ASSUME NEW c \in Coords, RenderStep(c)
      PROVE  UNCHANGED canvasVars /\ UNCHANGED Coming
  <2> USE DEF RenderStep, RenderBegin, RenderOverview, RenderAbort, RenderEnd,
        CropSkip, CropBegin, LeavePass
  <2>1. worker.pc # "deliver" /\ worker'.pc # "deliver"
    BY <1>3
  <2>2. UNCHANGED canvasVars
    BY <1>3 DEF renderFrame, canvasVars
  <2>3. QED
    BY <2>1, <2>2, NothingComing
<1>4. ASSUME NEW k \in Crops, CropStep(k), ~ CropFinish(k), ~ CropDeliver(k)
      PROVE  UNCHANGED canvasVars /\ UNCHANGED Coming
  <2> USE DEF CropStep, PassThrow, FullThrow, FullEnter, FullRefused, TakePending,
        TakeNothing, FullCrop, FullLeave
  <2>1. worker.pc # "deliver" /\ worker'.pc # "deliver"
    BY <1>4, CropUndelivered
  <2>2. UNCHANGED canvasVars
    BY <1>4 DEF renderFrame, fullFrame, canvasVars
  <2>3. QED
    BY <2>1, <2>2, NothingComing
<1>5. QED
  BY <1>1, <1>2, <1>3, <1>4, SendAllowed, FrameAllowed, HiddenSteps
     DEF WorkerStep

\* The newest edit wins: for any number of photos, crops and operations the
\* threads never show the person at the canvas anything Canvas forbids.
THEOREM PipelineImplementsCanvas == Spec => ImplementsCanvas
<1>1. Init => Promise!Init
  <2>1. ASSUME Init PROVE Coming = [k \in Crops |-> FALSE]
    BY <2>1 DEF Init, Resting, Coming
  <2>2. QED
    BY <2>1 DEF Init, Promise!Init, Coming
<1>2. TypeOK /\ IInv /\ [Next]_vars => [Promise!Next]_Promise!vars
  <2> SUFFICES ASSUME TypeOK, IInv, [Next]_vars
               PROVE  [Promise!Next]_Promise!vars
    OBVIOUS
  <2>1. CASE Finished \/ UNCHANGED vars
    BY <2>1, HiddenSteps, OthersSendNothing
       DEF Finished, vars, coordVars, cropVars, canvasVars
  <2>2. QED
    BY <2>1, UserStepsAllowed, GuiStepsAllowed, CleanupStepsAllowed,
       WorkerStepsAllowed DEF Next
<1>3. QED
  BY <1>1, <1>2, TypeCorrect, Inductive, PTL
     DEF Spec, ImplementsCanvas, Promise!Behaviour

=============================================================================
