----------------------- MODULE ThumbImageUpdaterProofs -----------------------
(* Proofs about ThumbImageUpdater, for any finite sets of entries and       *)
(* threads and any limits.                                                 *)
EXTENDS ThumbImageUpdater, FiniteSetTheorems, TLAPS

SafetyInv == TypeOK /\ IInv

-----------------------------------------------------------------------------
(* Counting.                                                               *)

LEMMA JobsAreFinite ==
    ASSUME NEW js \in SUBSET Jobs
    PROVE  IsFiniteSet(js) /\ Cardinality(js) \in Nat
<1> DEFINE Pairs == Entries \X BOOLEAN
           Records == [entry : Entries, upgrade : BOOLEAN]
           RecordOf == [p \in Pairs |-> [entry |-> p[1], upgrade |-> p[2]]]
<1>1. IsFiniteSet(BOOLEAN)
  <2>1. IsFiniteSet({TRUE})
    BY FS_Singleton
  <2>2. IsFiniteSet({TRUE} \cup {FALSE})
    BY <2>1, FS_AddElement
  <2>3. BOOLEAN = {TRUE} \cup {FALSE}
    OBVIOUS
  <2>4. QED
    BY <2>2, <2>3
<1>2. IsFiniteSet(Pairs)
  BY <1>1, FS_Product, UpdaterAssumption
<1>3. RecordOf \in Surjection(Pairs, Records)
  <2>1. RecordOf \in [Pairs -> Records]
    OBVIOUS
  <2>2. ASSUME NEW j \in Records PROVE \E p \in Pairs : RecordOf[p] = j
    <3>1. <<j.entry, j.upgrade>> \in Pairs
      OBVIOUS
    <3>2. RecordOf[<<j.entry, j.upgrade>>] = j
      BY <3>1
    <3>3. QED
      BY <3>1, <3>2
  <2>3. QED
    BY <2>1, <2>2 DEF Surjection
<1>4. IsFiniteSet(Records)
  BY <1>2, <1>3, FS_Surjection
<1>5. js \in SUBSET Records
  BY DEF Jobs
<1>6. QED
  BY <1>4, <1>5, FS_Subset, FS_CardinalityType

LEMMA WorkersAreFinite ==
    ASSUME NEW ws \in SUBSET Workers
    PROVE  IsFiniteSet(ws) /\ Cardinality(ws) \in Nat
BY UpdaterAssumption, FS_Subset, FS_CardinalityType

\* A set of workers that one worker joins, or leaves.
LEMMA OneJoins ==
    ASSUME NEW ws \in SUBSET Workers, NEW w \in Workers, w \notin ws
    PROVE  Cardinality(ws \cup {w}) = Cardinality(ws) + 1
BY WorkersAreFinite, FS_AddElement

LEMMA OneLeaves ==
    ASSUME NEW ws \in SUBSET Workers, NEW w \in ws
    PROVE  /\ Cardinality(ws \ {w}) = Cardinality(ws) - 1
           /\ Cardinality(ws) >= 1
<1>1. Cardinality(ws \ {w}) = Cardinality(ws) - 1
  BY WorkersAreFinite, FS_RemoveElement
<1>2. Cardinality(ws \ {w}) \in Nat /\ Cardinality(ws) \in Nat
  BY WorkersAreFinite
<1>3. QED
  BY <1>1, <1>2

\* The number of jobs that can run is a number.
LEMMA RunnableIsNat ==
    ASSUME NEW ks \in SUBSET Jobs, activeJpegJobs \in Nat, activeUpgradeJobs \in Nat
    PROVE  RunnableJobs(ks) \in Nat
<1> DEFINE upgrades == {j \in ks : j.upgrade}
           jpegs == {j \in ks \ upgrades : Jpeg(j)}
<1>1. /\ Cardinality(ks \ (upgrades \cup jpegs)) \in Nat
      /\ Cardinality(upgrades) \in Nat
      /\ Cardinality(jpegs) \in Nat
  BY JobsAreFinite
<1>2. /\ Larger(0, MaxUpgradeJobs - activeUpgradeJobs) \in Nat
      /\ Larger(0, MaxJpegJobs - activeJpegJobs) \in Nat
  BY UpdaterAssumption DEF Larger
<1> HIDE DEF upgrades, jpegs
<1>3. /\ Smaller(Cardinality(upgrades),
               Larger(0, MaxUpgradeJobs - activeUpgradeJobs)) \in Nat
      /\ Smaller(Cardinality(jpegs),
                 Larger(0, MaxJpegJobs - activeJpegJobs)) \in Nat
  BY <1>1, <1>2 DEF Smaller
<1>4. RunnableJobs(ks)
         = Cardinality(ks \ (upgrades \cup jpegs))
              + Smaller(Cardinality(upgrades),
                        Larger(0, MaxUpgradeJobs - activeUpgradeJobs))
              + Smaller(Cardinality(jpegs),
                        Larger(0, MaxJpegJobs - activeJpegJobs))
  BY DEF RunnableJobs, upgrades, jpegs
<1>5. QED
  BY <1>1, <1>3, <1>4

\* scheduleWorkersLocked_() never asks for more threads than the pool has.
LEMMA ScheduleKeepsToPool ==
    ASSUME TypeOK, CountersAgree, NEW js \in SUBSET Jobs, NEW v \in Nat
    PROVE  /\ ScheduleWorkers(js, v) \in Nat
           /\ active + queuedWorkers + ScheduleWorkers(js, v) <= MaxThreadCount
<1>1. MaxThreadCount \in Nat
  BY WorkersAreFinite DEF MaxThreadCount
<1>2. WorkerLimit(v) \in Nat /\ WorkerLimit(v) <= MaxThreadCount
  BY <1>1, UpdaterAssumption DEF WorkerLimit
<1>3. /\ active \in Nat /\ queuedWorkers \in Nat
      /\ active + queuedWorkers <= MaxThreadCount
      /\ activeJpegJobs \in Nat /\ activeUpgradeJobs \in Nat
  BY DEF TypeOK, CountersAgree
<1>4. \A ks \in SUBSET Jobs : RunnableJobs(ks) \in Nat
  BY <1>3, RunnableIsNat
<1>5. PICK n \in Nat : n = RunnableJobs(IF paused THEN Visible(js) ELSE js)
  BY <1>4 DEF Visible
<1>6. ScheduleWorkers(js, v)
         = IF js = {} \/ (paused /\ v = 0) THEN 0
           ELSE Larger(0, Smaller(WorkerLimit(v) - active - queuedWorkers,
                                  n - queuedWorkers))
  BY <1>5 DEF ScheduleWorkers
<1>7. QED
  BY <1>1, <1>2, <1>3, <1>6 DEF Larger, Smaller

\* The pick returns a queued job whose slot is free.
LEMMA CandidatesCanRun ==
    ASSUME NEW j \in Candidates
    PROVE  j \in jobs /\ CanRun(j)
BY DEF Candidates, Visible

\* Taking jobs from the queue lowers the count by no more than what is visible.
LEMMA UncountIsSafe ==
    ASSUME TypeOK, NEW js \in SUBSET jobs
    PROVE  /\ Uncount(js) \in Nat
           /\ foregroundJobCount >= Cardinality(Visible(jobs)) =>
                 Uncount(js) >= Cardinality(Visible(jobs \ js))
<1>1. jobs \in SUBSET Jobs /\ foregroundJobCount \in Nat
  BY DEF TypeOK
<1>2. /\ Visible(jobs) \in SUBSET Jobs
      /\ Visible(js) \in SUBSET Jobs
      /\ Visible(jobs \ js) = Visible(jobs) \ Visible(js)
      /\ Visible(jobs) \cap Visible(js) = Visible(js)
  BY <1>1 DEF Visible
<1>3. Cardinality(Visible(jobs \ js))
         = Cardinality(Visible(jobs)) - Cardinality(Visible(js))
  <2>1. IsFiniteSet(Visible(jobs))
    BY <1>2, JobsAreFinite
  <2>2. Cardinality(Visible(jobs) \ Visible(js))
           = Cardinality(Visible(jobs))
                - Cardinality(Visible(jobs) \cap Visible(js))
    BY <2>1, FS_Difference
  <2>3. QED
    BY <1>2, <2>2
<1>4. /\ Cardinality(Visible(jobs)) \in Nat /\ Cardinality(Visible(js)) \in Nat
      /\ Cardinality(Visible(jobs \ js)) \in Nat
  <2>1. Visible(jobs \ js) \in SUBSET Jobs
    BY <1>1 DEF Visible
  <2>2. QED
    BY <1>2, <2>1, JobsAreFinite
<1>5. QED
  BY <1>1, <1>3, <1>4 DEF Uncount, Larger

\* Adding jobs to the queue counts all that are visible.
LEMMA CountIsSafe ==
    ASSUME TypeOK, NEW js \in SUBSET Jobs
    PROVE  /\ foregroundJobCount + CountVisible(js \ jobs) \in Nat
           /\ foregroundJobCount >= Cardinality(Visible(jobs)) =>
                 foregroundJobCount + CountVisible(js \ jobs)
                     >= Cardinality(Visible(jobs \cup js))
<1> DEFINE new == js \ jobs
<1>1. jobs \in SUBSET Jobs /\ foregroundJobCount \in Nat
  BY DEF TypeOK
<1>2. /\ Visible(jobs) \in SUBSET Jobs
      /\ Visible(new) \in SUBSET Jobs
      /\ Visible(jobs \cup js) \in SUBSET Jobs
      /\ Visible(jobs \cup js) = Visible(jobs) \cup Visible(new)
      /\ Visible(jobs) \cap Visible(new) = {}
  BY <1>1 DEF Visible
<1> HIDE DEF new
<1>3. Cardinality(Visible(jobs \cup js))
         = Cardinality(Visible(jobs)) + Cardinality(Visible(new))
              - Cardinality(Visible(jobs) \cap Visible(new))
  BY <1>2, JobsAreFinite, FS_Union
<1>4. /\ Cardinality(Visible(jobs)) \in Nat /\ Cardinality(Visible(new)) \in Nat
      /\ Cardinality(Visible(jobs) \cap Visible(new)) = 0
  BY <1>2, JobsAreFinite, FS_EmptySet
<1>5. QED
  BY <1>1, <1>3, <1>4 DEF CountVisible, new

-----------------------------------------------------------------------------
(* Every step keeps the types.                                             *)

\* add() and addBatch() keep to the types and to the pool.
LEMMA AddingKeepsTypes ==
    ASSUME TypeOK, CountersAgree, NEW js \in SUBSET Jobs, AddJobs(js)
    PROVE  /\ jobs' \in SUBSET Jobs
           /\ cancelled' = cancelled
           /\ foregroundJobCount' \in Nat
           /\ priorityScanNeeded' \in BOOLEAN
           /\ queuedWorkers' \in Nat
           /\ active + queuedWorkers' <= MaxThreadCount
<1> DEFINE visible == foregroundJobCount + CountVisible(js \ jobs)
<1>1. jobs \cup js \in SUBSET Jobs
  BY DEF TypeOK
<1>2. visible \in Nat
  BY CountIsSafe
<1>3. /\ ScheduleWorkers(jobs \cup js, visible) \in Nat
      /\ active + queuedWorkers + ScheduleWorkers(jobs \cup js, visible)
            <= MaxThreadCount
  BY <1>1, <1>2, ScheduleKeepsToPool
<1>4. /\ active \in Nat /\ queuedWorkers \in Nat
      /\ active + queuedWorkers <= MaxThreadCount
  BY DEF TypeOK, CountersAgree
<1>5. /\ foregroundJobCount' = visible
      /\ \/ queuedWorkers' = queuedWorkers
         \/ queuedWorkers' =
               queuedWorkers + ScheduleWorkers(jobs \cup js, visible)
  BY DEF AddJobs
<1> HIDE DEF visible
<1>6. MaxThreadCount \in Nat
  BY WorkersAreFinite DEF MaxThreadCount
<1>7. queuedWorkers' \in Nat /\ active + queuedWorkers' <= MaxThreadCount
  BY <1>3, <1>4, <1>5, <1>6
<1>8. cancelled' = cancelled /\ jobs' = jobs \cup js
  BY DEF AddJobs, StillCancelled
<1>9. priorityScanNeeded' \in BOOLEAN
  BY DEF AddJobs, TypeOK
<1>10. QED
  BY <1>1, <1>2, <1>5, <1>7, <1>8, <1>9

\* A worker that is at work is counted.
LEMMA BusyIsCounted ==
    ASSUME TypeOK, CountersAgree, NEW w \in Workers,
           worker[w].pc \notin {"off", "left"}
    PROVE  active >= 1 /\ active \in Nat
<1>1. w \in Busy /\ Busy \in SUBSET Workers
  BY DEF Busy
<1>2. QED
  BY <1>1, OneLeaves DEF CountersAgree, TypeOK

LEMMA GuiKeepsTypes ==
    ASSUME SafetyInv, UserStep \/ GuiStep
    PROVE  TypeOK'
<1> USE DEF SafetyInv, IInv
<1>1. ASSUME NEW e \in Entries, CreateEntry(e) PROVE TypeOK'
  BY <1>1 DEF CreateEntry, queueVars, countVars, TypeOK
<1>2. ASSUME NEW e \in Entries, RemoveJobs(e) PROVE TypeOK'
  <2>1. jobs' \in SUBSET Jobs /\ cancelled' \in SUBSET Entries
    BY <1>2 DEF RemoveJobs, NotifyInactive, TypeOK
  <2>2. foregroundJobCount' \in Nat
    BY <1>2, UncountIsSafe DEF RemoveJobs, JobsOf
  <2>3. worker' \in [Workers -> WorkerStates]
    BY <1>2 DEF RemoveJobs, TypeOK, WorkerStates
  <2>4. life' \in [Entries -> {"none", "shown", "doomed", "removing"}]
    BY <1>2 DEF RemoveJobs, TypeOK
  <2>5. gui' \in GuiStates
    BY <1>2 DEF RemoveJobs, TypeOK, GuiStates
  <2>6. QED
    BY <1>2, <2>1, <2>2, <2>3, <2>4, <2>5 DEF RemoveJobs, countVars, TypeOK
<1>3. ASSUME NEW visible \in SUBSET Shown, NEW requests \in Requests(visible),
             Draw(visible, requests)
      PROVE  TypeOK'
  <2>1. requests \in SUBSET Jobs
    BY DEF Requests
  <2>2. gui' \in GuiStates
    BY <1>3, <2>1 DEF Draw, TypeOK, GuiStates
  <2>3. updatepriority' \in [Entries -> BOOLEAN]
    BY <1>3 DEF Draw
  <2>4. QED
    BY <1>3, <2>2, <2>3 DEF Draw, queueVars, countVars, TypeOK
<1>4. ASSUME NEW j \in Jobs, Refresh(j) PROVE TypeOK'
  <2>1. {j} \in SUBSET Jobs /\ AddJobs({j})
    BY <1>4 DEF Refresh
  <2>2. /\ jobs' \in SUBSET Jobs /\ cancelled' = cancelled
        /\ foregroundJobCount' \in Nat /\ priorityScanNeeded' \in BOOLEAN
        /\ queuedWorkers' \in Nat
    BY <2>1, AddingKeepsTypes
  <2>3. QED
    BY <1>4, <2>2 DEF Refresh, AddJobs, browserVars, countVars, TypeOK
<1>5. CASE Pause
  BY <1>5 DEF Pause, queueVars, countVars, TypeOK
<1>6. CASE Resume
  BY <1>6 DEF Resume, queueVars, countVars, TypeOK, GuiStates
<1>7. CASE RemoveAllJobs
  BY <1>7 DEF RemoveAllJobs, countVars, TypeOK, GuiStates
<1>8. CASE QueueVisible
  <2>1. gui.batch \in SUBSET Jobs /\ AddJobs(gui.batch)
    BY <1>8 DEF QueueVisible, TypeOK, GuiStates
  <2>2. /\ jobs' \in SUBSET Jobs /\ cancelled' = cancelled
        /\ foregroundJobCount' \in Nat /\ priorityScanNeeded' \in BOOLEAN
        /\ queuedWorkers' \in Nat
    BY <2>1, AddingKeepsTypes
  <2>3. gui' \in GuiStates
    BY <1>8 DEF QueueVisible, TypeOK, GuiStates
  <2>4. QED
    BY <1>8, <2>2, <2>3 DEF QueueVisible, AddJobs, countVars, TypeOK
<1>9. CASE PrioritiesChanged
  <2>1. Visible(jobs) \in SUBSET Jobs /\ jobs \in SUBSET Jobs
    BY DEF TypeOK, Visible
  <2>2. Cardinality(Visible(jobs)) \in Nat
    BY <2>1, JobsAreFinite
  <2>3. ScheduleWorkers(jobs, Cardinality(Visible(jobs))) \in Nat
    BY <2>1, <2>2, ScheduleKeepsToPool
  <2>4. queuedWorkers' \in Nat /\ foregroundJobCount' \in Nat
    BY <1>9, <2>2, <2>3 DEF PrioritiesChanged, TypeOK
  <2>5. IdleGui \in GuiStates
    BY DEF IdleGui, GuiStates
  <2>6. QED
    BY <1>9, <2>4, <2>5 DEF PrioritiesChanged, countVars, TypeOK
<1>10. CASE ResumeSchedule
  <2>1. ResumeWorkers \in Nat
    BY ScheduleKeepsToPool DEF ResumeWorkers, TypeOK
  <2>2. IdleGui \in GuiStates
    BY DEF IdleGui, GuiStates
  <2>3. QED
    BY <1>10, <2>1, <2>2 DEF ResumeSchedule, countVars, TypeOK
<1>11. CASE CloseBrowser
  <2>1. IdleGui \in GuiStates
    BY DEF IdleGui, GuiStates
  <2>2. QED
    BY <1>11, <2>1 DEF CloseBrowser, queueVars, countVars, TypeOK
<1>12. ASSUME NEW e \in Entries, RemoveDone(e) PROVE TypeOK'
  <2>1. IdleGui \in GuiStates
    BY DEF IdleGui, GuiStates
  <2>2. QED
    BY <1>12, <2>1 DEF RemoveDone, queueVars, countVars, TypeOK
<1>13. QED
  BY <1>1, <1>2, <1>3, <1>4, <1>5, <1>6, <1>7, <1>8, <1>9, <1>10, <1>11, <1>12
  DEF UserStep, GuiStep

\* The job and the counters of a worker that renders.
LEMMA RenderingIsCounted ==
    ASSUME TypeOK, CountersAgree, ThreadShape, NEW w \in Rendering
    PROVE  /\ worker[w].job \in Jobs
           /\ Jpeg(worker[w].job) => activeJpegJobs >= 1
           /\ worker[w].job.upgrade => activeUpgradeJobs >= 1
<1>1. worker[w].job \in Jobs
  BY DEF TypeOK, WorkerStates, Rendering, ThreadShape
<1>2. ASSUME Jpeg(worker[w].job) PROVE activeJpegJobs >= 1
  <2>1. /\ w \in {v \in Rendering : Jpeg(worker[v].job)}
        /\ {v \in Rendering : Jpeg(worker[v].job)} \in SUBSET Workers
    BY <1>2 DEF Rendering
  <2>2. QED
    BY <2>1, OneLeaves DEF CountersAgree
<1>3. ASSUME worker[w].job.upgrade PROVE activeUpgradeJobs >= 1
  <2>1. /\ w \in {v \in Rendering : worker[v].job.upgrade}
        /\ {v \in Rendering : worker[v].job.upgrade} \in SUBSET Workers
    BY <1>3 DEF Rendering
  <2>2. QED
    BY <2>1, OneLeaves DEF CountersAgree
<1>4. QED
  BY <1>1, <1>2, <1>3

LEMMA LeaseIsCounted ==
    ASSUME TypeOK, LeasesAgree, ThreadShape, NEW w \in Workers,
           worker[w].pc \in {"callback", "lease"}
    PROVE  /\ worker[w].job \in Jobs
           /\ worker[w].job.entry \in Entries
           /\ callbacksInFlight[worker[w].job.entry] >= 1
<1>1. worker[w].job \in Jobs
  BY DEF TypeOK, WorkerStates, ThreadShape
<1>2. worker[w].job.entry \in Entries
  BY <1>1 DEF Jobs
<1>3. /\ w \in Leased(worker[w].job.entry)
      /\ Leased(worker[w].job.entry) \in SUBSET Workers
  BY DEF Leased
<1>4. QED
  BY <1>1, <1>2, <1>3, OneLeaves DEF LeasesAgree

LEMMA WorkerKeepsTypes ==
    ASSUME SafetyInv, NEW w \in Workers, WorkerStep(w)
    PROVE  TypeOK'
<1> USE DEF SafetyInv, IInv
<1>1. ASSUME NEW pc \in WorkerPCs, Goto(w, pc)
      PROVE  worker' \in [Workers -> WorkerStates]
  BY <1>1 DEF Goto, TypeOK, WorkerStates
<1>2. CASE StartWorker(w)
  <2>1. queuedWorkers' \in Nat /\ active' \in Nat
    BY <1>2 DEF StartWorker, TypeOK
  <2>2. cancelled' \in SUBSET Entries
    BY <1>2 DEF StartWorker, NotifyInactive, TypeOK
  <2>3. worker' \in [Workers -> WorkerStates]
    BY <1>1, <1>2 DEF StartWorker, WorkerPCs, TypeOK
  <2>4. QED
    BY <1>2, <2>1, <2>2, <2>3 DEF StartWorker, browserVars, TypeOK
<1>3. CASE Shrink(w)
  <2>1. active >= 1
    BY <1>3, BusyIsCounted DEF Shrink, At
  <2>2. worker' \in [Workers -> WorkerStates]
    BY <1>1, <1>3 DEF Shrink, WorkerPCs
  <2>3. QED
    BY <1>3, <2>1, <2>2 DEF Shrink, browserVars, TypeOK
<1>4. CASE GiveWay(w)
  <2>1. worker' \in [Workers -> WorkerStates]
    BY <1>1, <1>4 DEF GiveWay, WorkerPCs
  <2>2. QED
    BY <1>4, <2>1 DEF GiveWay, countVars, browserVars, TypeOK
<1>5. CASE TakeNothing(w)
  <2>1. worker' \in [Workers -> WorkerStates]
    BY <1>1, <1>5 DEF TakeNothing, WorkerPCs
  <2>2. foregroundJobCount' \in {0, foregroundJobCount}
    <3>1. CASE jobs = {}
      BY <1>5, <3>1 DEF TakeNothing
    <3>2. CASE jobs # {}
      BY <1>5, <3>2 DEF TakeNothing
    <3>3. QED
      BY <3>1, <3>2
  <2>3. priorityScanNeeded' \in BOOLEAN
    BY <1>5 DEF TakeNothing, ScanAfter, TypeOK
  <2>4. QED
    BY <1>5, <2>1, <2>2, <2>3 DEF TakeNothing, countVars, browserVars, TypeOK
<1>6. ASSUME NEW j \in Jobs, TakeJob(w, j) PROVE TypeOK'
  <2>1. worker' \in [Workers -> WorkerStates]
    <3>1. CASE Goto(w, "again")
      BY <1>1, <3>1 DEF WorkerPCs
    <3>2. CASE worker' = [worker EXCEPT ![w] = [pc |-> "process", job |-> j,
                                                orphan |-> FALSE]]
      BY <3>2 DEF TypeOK, WorkerStates, WorkerPCs
    <3>3. QED
      BY <1>6, <3>1, <3>2 DEF TakeJob
  <2>2. jobs' \in SUBSET Jobs
    BY <1>6 DEF TakeJob, TypeOK
  <2>3. foregroundJobCount' \in Nat
    BY <1>6, CandidatesCanRun, UncountIsSafe DEF TakeJob
  <2>4. priorityScanNeeded' \in BOOLEAN
    BY <1>6 DEF TakeJob, ScanAfter
  <2>5. activeJpegJobs' \in Nat /\ activeUpgradeJobs' \in Nat
    BY <1>6 DEF TakeJob, TypeOK
  <2>6. QED
    BY <1>6, <2>1, <2>2, <2>3, <2>4, <2>5 DEF TakeJob, browserVars, TypeOK
<1>7. CASE BeginCallback(w)
  <2>1. worker' \in [Workers -> WorkerStates]
    BY <1>1, <1>7 DEF BeginCallback, WorkerPCs
  <2>2. callbacksInFlight' \in [Entries -> Nat]
    BY <1>7 DEF BeginCallback, TypeOK
  <2>3. QED
    BY <1>7, <2>1, <2>2 DEF BeginCallback, countVars, browserVars, TypeOK
<1>8. CASE FinishJob(w)
  <2>1. w \in Rendering
    BY <1>8 DEF FinishJob, At, Rendering
  <2>2. activeJpegJobs' \in Nat /\ activeUpgradeJobs' \in Nat
    BY <1>8, <2>1, RenderingIsCounted DEF FinishJob, TypeOK
  <2>3. worker' \in [Workers -> WorkerStates]
    BY <1>8 DEF FinishJob, TypeOK, WorkerStates, WorkerPCs, Off
  <2>4. QED
    BY <1>8, <2>2, <2>3 DEF FinishJob, browserVars, TypeOK
<1>9. CASE EndLease(w)
  <2>1. /\ worker[w].job.entry \in Entries
        /\ callbacksInFlight[worker[w].job.entry] >= 1
    BY <1>9, LeaseIsCounted DEF EndLease, At
  <2>2. callbacksInFlight' \in [Entries -> Nat]
    BY <1>9, <2>1 DEF EndLease, Returned, TypeOK
  <2>3. worker' \in [Workers -> WorkerStates]
    BY <1>9 DEF EndLease, TypeOK, WorkerStates, WorkerPCs, Off
  <2>4. QED
    BY <1>9, <2>2, <2>3 DEF EndLease, countVars, browserVars, TypeOK
<1>10. CASE Leave(w)
  <2>1. active >= 1
    BY <1>10, BusyIsCounted DEF Leave, At
  <2>2. worker' \in [Workers -> WorkerStates]
    BY <1>1, <1>10 DEF Leave, WorkerPCs
  <2>3. QED
    BY <1>10, <2>1, <2>2 DEF Leave, browserVars, TypeOK
<1>11. CASE LeaveSchedule(w)
  <2>1. Successors \in Nat
    BY ScheduleKeepsToPool DEF Successors, TypeOK
  <2>2. cancelled' \in SUBSET Entries
    BY <1>11 DEF LeaveSchedule, NotifyInactive, TypeOK
  <2>3. worker' \in [Workers -> WorkerStates]
    BY <1>1, <1>11 DEF LeaveSchedule, WorkerPCs
  <2>4. QED
    BY <1>11, <2>1, <2>2, <2>3
    DEF LeaveSchedule, countVars, browserVars, TypeOK
<1>12. QED
  BY <1>2, <1>3, <1>4, <1>5, <1>6, <1>7, <1>8, <1>9, <1>10, <1>11
  DEF WorkerStep

-----------------------------------------------------------------------------
(* What the GTK thread leaves to the workers, and the reverse.             *)

LEMMA GuiLeavesWorkers ==
    ASSUME TypeOK, UserStep \/ GuiStep
    PROVE  /\ UNCHANGED <<callbacksInFlight, countVars>>
           /\ \A w \in Workers : /\ worker'[w].pc = worker[w].pc
                                 /\ worker'[w].job = worker[w].job
           /\ (\A e \in Entries : ~ RemoveJobs(e)) => worker' = worker
<1>1. ASSUME NEW e \in Entries, RemoveJobs(e)
      PROVE  /\ UNCHANGED <<callbacksInFlight, countVars>>
             /\ \A w \in Workers : /\ worker'[w].pc = worker[w].pc
                                   /\ worker'[w].job = worker[w].job
  BY <1>1 DEF RemoveJobs, TypeOK, WorkerStates
<1>2. ASSUME \A e \in Entries : ~ RemoveJobs(e)
      PROVE  UNCHANGED <<callbacksInFlight, countVars, worker>>
  BY <1>2
  DEF UserStep, GuiStep, CreateEntry, Draw, Refresh, Pause, Resume,
      RemoveAllJobs, QueueVisible, PrioritiesChanged, ResumeSchedule,
      CloseBrowser, RemoveDone, AddJobs, queueVars, browserVars
<1>3. QED
  BY <1>1, <1>2

LEMMA WorkersLeaveGui ==
    ASSUME TypeOK, NEW w \in Workers, WorkerStep(w)
    PROVE  /\ UNCHANGED browserVars
           /\ jobs' \subseteq jobs
           /\ \A v \in Workers \ {w} : worker'[v] = worker[v]
<1>1. UNCHANGED browserVars /\ jobs' \subseteq jobs
  BY DEF WorkerStep, StartWorker, Shrink, GiveWay, TakeNothing, TakeJob,
         BeginCallback, FinishJob, EndLease, Leave, LeaveSchedule
<1>2. \/ worker' = worker
      \/ \E s : worker' = [worker EXCEPT ![w] = s]
      \/ \E pc : worker' = [worker EXCEPT ![w].pc = pc]
  BY DEF WorkerStep, StartWorker, Shrink, GiveWay, TakeNothing, TakeJob,
         BeginCallback, FinishJob, EndLease, Leave, LeaveSchedule, Goto
<1>3. QED
  BY <1>1, <1>2 DEF TypeOK

-----------------------------------------------------------------------------
(* The counters and the limits.                                            *)

LEMMA GuiKeepsCounters ==
    ASSUME SafetyInv, UserStep \/ GuiStep
    PROVE  CountersAgree'
<1> USE DEF SafetyInv, IInv
<1>1. /\ Busy' = Busy
      /\ Rendering' = Rendering
      /\ {w \in Rendering : Jpeg(worker[w].job)}'
            = {w \in Rendering : Jpeg(worker[w].job)}
      /\ {w \in Rendering : worker[w].job.upgrade}'
            = {w \in Rendering : worker[w].job.upgrade}
  BY GuiLeavesWorkers DEF Busy, Rendering, Jpeg
<1>2. UNCHANGED countVars
  BY GuiLeavesWorkers
<1>3. active + queuedWorkers' <= MaxThreadCount
  <2>1. CASE UNCHANGED queuedWorkers
    BY <2>1 DEF CountersAgree
  <2>2. ASSUME NEW j \in Jobs, Refresh(j)
        PROVE  active + queuedWorkers' <= MaxThreadCount
    BY <2>2, AddingKeepsTypes DEF Refresh
  <2>3. CASE QueueVisible
    <3>1. gui.batch \in SUBSET Jobs /\ AddJobs(gui.batch)
      BY <2>3 DEF QueueVisible, TypeOK, GuiStates
    <3>2. QED
      BY <3>1, AddingKeepsTypes
  <2>4. CASE PrioritiesChanged
    <3>1. Visible(jobs) \in SUBSET Jobs /\ jobs \in SUBSET Jobs
      BY DEF TypeOK, Visible
    <3>2. Cardinality(Visible(jobs)) \in Nat
      BY <3>1, JobsAreFinite
    <3>3. active + queuedWorkers
             + ScheduleWorkers(jobs, Cardinality(Visible(jobs)))
                <= MaxThreadCount
          /\ ScheduleWorkers(jobs, Cardinality(Visible(jobs))) \in Nat
      BY <3>1, <3>2, ScheduleKeepsToPool
    <3>4. QED
      BY <2>4, <3>3 DEF PrioritiesChanged, TypeOK
  <2>5. CASE ResumeSchedule
    <3>1. active + queuedWorkers + ResumeWorkers <= MaxThreadCount
          /\ ResumeWorkers \in Nat
      BY ScheduleKeepsToPool DEF ResumeWorkers, TypeOK
    <3>2. QED
      BY <2>5, <3>1 DEF ResumeSchedule, TypeOK
  <2>6. QED
    BY <2>1, <2>2, <2>3, <2>4, <2>5
    DEF UserStep, GuiStep, CreateEntry, RemoveJobs, Draw, Pause, Resume,
        RemoveAllJobs, CloseBrowser, RemoveDone, queueVars
<1>4. QED
  BY <1>1, <1>2, <1>3 DEF CountersAgree, countVars, MaxThreadCount

\* The slots of the jobs that are rendered.
SlotsAgree ==
    /\ activeJpegJobs = Cardinality({w \in Rendering : Jpeg(worker[w].job)})
    /\ activeJpegJobs <= MaxJpegJobs
    /\ activeUpgradeJobs =
          Cardinality({w \in Rendering : worker[w].job.upgrade})
    /\ activeUpgradeJobs <= MaxUpgradeJobs

\* A worker that neither takes nor finishes a job leaves them alone.
LEMMA OtherMovesKeepSlots ==
    ASSUME SafetyInv, NEW w \in Workers, WorkerStep(w),
           w \in Rendering <=> w \in Rendering',
           w \in Rendering => worker'[w].job = worker[w].job,
           UNCHANGED <<activeJpegJobs, activeUpgradeJobs>>
    PROVE  SlotsAgree'
<1>1. \A v \in Workers \ {w} : worker'[v] = worker[v]
  BY WorkersLeaveGui DEF SafetyInv
<1>2. Rendering' = Rendering
  BY <1>1 DEF Rendering
<1>3. /\ {v \in Rendering : Jpeg(worker[v].job)}'
            = {v \in Rendering : Jpeg(worker[v].job)}
      /\ {v \in Rendering : worker[v].job.upgrade}'
            = {v \in Rendering : worker[v].job.upgrade}
  BY <1>1, <1>2 DEF Rendering, Jpeg
<1>4. QED
  BY <1>3 DEF SafetyInv, IInv, CountersAgree, SlotsAgree

LEMMA TakingKeepsSlots ==
    ASSUME SafetyInv, NEW w \in Workers, NEW j \in Jobs, TakeJob(w, j)
    PROVE  SlotsAgree'
<1> USE DEF SafetyInv, IInv
<1> DEFINE jpegs == {v \in Rendering : Jpeg(worker[v].job)}
           upgrades == {v \in Rendering : worker[v].job.upgrade}
<1>1. w \notin Rendering
  BY DEF TakeJob, MayTake, At, Rendering
<1>2. CASE j.entry \in cancelled
  <2>1. w \notin Rendering'
    BY <1>2 DEF TakeJob, Goto, Rendering, TypeOK, WorkerStates
  <2>2. QED
    BY <1>1, <1>2, <2>1, OtherMovesKeepSlots DEF WorkerStep, TakeJob
<1>3. CASE j.entry \notin cancelled
  <2>1. worker' = [worker EXCEPT ![w] = [pc |-> "process", job |-> j,
                                         orphan |-> FALSE]]
    BY <1>3 DEF TakeJob
  <2>2. Rendering' = Rendering \cup {w}
    BY <2>1 DEF Rendering, TypeOK
  <2>3. /\ jpegs' = IF Jpeg(j) THEN jpegs \cup {w} ELSE jpegs
        /\ upgrades' = IF j.upgrade THEN upgrades \cup {w} ELSE upgrades
    BY <1>1, <2>1, <2>2 DEF Rendering, Jpeg, TypeOK
  <2>4. /\ jpegs \in SUBSET Workers /\ w \notin jpegs
        /\ upgrades \in SUBSET Workers /\ w \notin upgrades
    BY <1>1 DEF Rendering
  <2>5. CanRun(j)
    BY CandidatesCanRun DEF TakeJob
  <2>6. /\ activeJpegJobs' = activeJpegJobs + (IF Jpeg(j) THEN 1 ELSE 0)
        /\ activeUpgradeJobs'
              = activeUpgradeJobs + (IF j.upgrade THEN 1 ELSE 0)
    BY <1>3 DEF TakeJob
  <2>7. /\ activeJpegJobs = Cardinality(jpegs) /\ activeJpegJobs \in Nat
        /\ activeJpegJobs <= MaxJpegJobs
        /\ activeUpgradeJobs = Cardinality(upgrades)
        /\ activeUpgradeJobs \in Nat
        /\ activeUpgradeJobs <= MaxUpgradeJobs
    BY DEF CountersAgree, TypeOK
  <2> HIDE DEF jpegs, upgrades
  <2>8. activeJpegJobs' = Cardinality(jpegs')
        /\ activeJpegJobs' <= MaxJpegJobs
    BY <2>3, <2>4, <2>5, <2>6, <2>7, OneJoins, UpdaterAssumption DEF CanRun
  <2>9. activeUpgradeJobs' = Cardinality(upgrades')
        /\ activeUpgradeJobs' <= MaxUpgradeJobs
    BY <2>3, <2>4, <2>5, <2>6, <2>7, OneJoins, UpdaterAssumption DEF CanRun
  <2>10. QED
    BY <2>8, <2>9 DEF SlotsAgree, jpegs, upgrades
<1>4. QED
  BY <1>2, <1>3

LEMMA FinishingKeepsSlots ==
    ASSUME SafetyInv, NEW w \in Workers, FinishJob(w)
    PROVE  SlotsAgree'
<1> USE DEF SafetyInv, IInv
<1> DEFINE jpegs == {v \in Rendering : Jpeg(worker[v].job)}
           upgrades == {v \in Rendering : worker[v].job.upgrade}
           j == worker[w].job
<1>1. w \in Rendering
  BY DEF FinishJob, At, Rendering
<1>2. Rendering' = Rendering \ {w}
  BY <1>1 DEF FinishJob, Rendering, TypeOK, WorkerStates, Off
<1>3. \A v \in Workers \ {w} : worker'[v] = worker[v]
  BY DEF FinishJob, TypeOK
<1>4. /\ jpegs' = jpegs \ {w}
      /\ upgrades' = upgrades \ {w}
  BY <1>2, <1>3 DEF Rendering, Jpeg
<1>5. /\ jpegs \in SUBSET Workers
      /\ upgrades \in SUBSET Workers
      /\ w \in jpegs <=> Jpeg(j)
      /\ w \in upgrades <=> j.upgrade
  BY <1>1 DEF Rendering
<1>6. /\ activeJpegJobs' = activeJpegJobs - (IF Jpeg(j) THEN 1 ELSE 0)
      /\ activeUpgradeJobs' = activeUpgradeJobs - (IF j.upgrade THEN 1 ELSE 0)
  BY DEF FinishJob
<1>7. /\ activeJpegJobs = Cardinality(jpegs) /\ activeJpegJobs \in Nat
      /\ activeJpegJobs <= MaxJpegJobs
      /\ activeUpgradeJobs = Cardinality(upgrades)
      /\ activeUpgradeJobs \in Nat
      /\ activeUpgradeJobs <= MaxUpgradeJobs
  BY DEF CountersAgree, TypeOK
<1> HIDE DEF jpegs, upgrades, j
<1>8. activeJpegJobs' = Cardinality(jpegs') /\ activeJpegJobs' <= MaxJpegJobs
  <2>1. CASE Jpeg(j)
    BY <2>1, <1>4, <1>5, <1>6, <1>7, OneLeaves, UpdaterAssumption
  <2>2. CASE ~ Jpeg(j)
    <3>1. jpegs' = jpegs
      BY <2>2, <1>4, <1>5
    <3>2. QED
      BY <2>2, <3>1, <1>6, <1>7
  <2>3. QED
    BY <2>1, <2>2
<1>9. /\ activeUpgradeJobs' = Cardinality(upgrades')
      /\ activeUpgradeJobs' <= MaxUpgradeJobs
  <2>1. CASE j.upgrade
    BY <2>1, <1>4, <1>5, <1>6, <1>7, OneLeaves, UpdaterAssumption
  <2>2. CASE ~ j.upgrade
    <3>1. upgrades' = upgrades
      BY <2>2, <1>4, <1>5
    <3>2. QED
      BY <2>2, <3>1, <1>6, <1>7
  <2>3. QED
    BY <2>1, <2>2
<1>10. QED
  BY <1>8, <1>9 DEF SlotsAgree, jpegs, upgrades

LEMMA WorkerKeepsCounters ==
    ASSUME SafetyInv, NEW w \in Workers, WorkerStep(w)
    PROVE  CountersAgree'
<1> USE DEF SafetyInv, IInv
<1> DEFINE Pool == /\ active = Cardinality(Busy)
                   /\ active + queuedWorkers <= MaxThreadCount
<1>1. SlotsAgree' /\ Pool' => CountersAgree'
  BY DEF SlotsAgree, CountersAgree
<1>2. /\ \A v \in Workers \ {w} : worker'[v] = worker[v]
      /\ worker \in [Workers -> WorkerStates]
  BY WorkersLeaveGui DEF TypeOK
<1>3. /\ Pool
      /\ active \in Nat /\ queuedWorkers \in Nat /\ MaxThreadCount \in Nat
      /\ Busy \in SUBSET Workers
  BY WorkersAreFinite DEF CountersAgree, TypeOK, MaxThreadCount, Busy
<1>4. ASSUME active' = active, queuedWorkers' = queuedWorkers,
             w \in Busy <=> w \in Busy'
      PROVE  Pool'
  <2>1. Busy' = Busy
    BY <1>2, <1>4 DEF Busy
  <2>2. QED
    BY <1>3, <1>4, <2>1 DEF MaxThreadCount
<1>5. ASSUME active' = active - 1, queuedWorkers' = queuedWorkers,
             w \in Busy, w \notin Busy'
      PROVE  Pool'
  <2>1. Busy' = Busy \ {w}
    BY <1>2, <1>5 DEF Busy
  <2>2. Cardinality(Busy') = Cardinality(Busy) - 1
    BY <1>3, <1>5, <2>1, OneLeaves
  <2>3. QED
    BY <1>3, <1>5, <2>2 DEF MaxThreadCount
<1>6. CASE StartWorker(w)
  <2>1. SlotsAgree'
    <3>1. w \notin Rendering /\ w \notin Rendering'
      BY <1>2, <1>6 DEF StartWorker, At, Goto, Rendering, WorkerStates
    <3>2. QED
      BY <1>6, <3>1, OtherMovesKeepSlots DEF StartWorker
  <2>2. CASE NothingToDo
    <3>1. /\ Busy' = Busy
          /\ active' = active /\ queuedWorkers' = queuedWorkers - 1
      BY <1>6, <2>2 DEF StartWorker, Busy
    <3>2. QED
      BY <1>1, <1>3, <2>1, <3>1 DEF MaxThreadCount
  <2>3. CASE ~ NothingToDo
    <3>1. w \notin Busy /\ w \in Busy'
      BY <1>2, <1>6, <2>3 DEF StartWorker, At, Goto, Busy, WorkerStates
    <3>2. Busy' = Busy \cup {w}
      BY <1>2, <3>1 DEF Busy
    <3>3. Cardinality(Busy') = Cardinality(Busy) + 1
      BY <1>3, <3>1, <3>2, OneJoins
    <3>4. active' = active + 1 /\ queuedWorkers' = queuedWorkers - 1
      BY <1>6, <2>3 DEF StartWorker
    <3>5. QED
      BY <1>1, <1>3, <2>1, <3>3, <3>4 DEF MaxThreadCount
  <2>4. QED
    BY <2>2, <2>3
<1>7. CASE Shrink(w) \/ Leave(w)
  <2>1. /\ w \in Busy /\ w \notin Busy'
        /\ w \notin Rendering /\ w \notin Rendering'
    BY <1>2, <1>7 DEF Shrink, Leave, At, Goto, Busy, Rendering, WorkerStates
  <2>2. /\ active' = active - 1
        /\ UNCHANGED <<queuedWorkers, activeJpegJobs, activeUpgradeJobs>>
    BY <1>7 DEF Shrink, Leave
  <2>3. QED
    BY <1>1, <1>5, <2>1, <2>2, OtherMovesKeepSlots
<1>8. CASE GiveWay(w) \/ TakeNothing(w) \/ EndLease(w)
  <2>1. /\ w \in Busy /\ w \in Busy'
        /\ w \notin Rendering /\ w \notin Rendering'
    BY <1>2, <1>8
    DEF GiveWay, TakeNothing, EndLease, MayTake, At, Goto, Off, Busy,
        Rendering, WorkerStates
  <2>2. UNCHANGED <<queuedWorkers, countVars>>
    BY <1>8 DEF GiveWay, TakeNothing, EndLease
  <2>3. QED
    BY <1>1, <1>4, <2>1, <2>2, OtherMovesKeepSlots DEF countVars
<1>9. ASSUME NEW j \in Jobs, TakeJob(w, j) PROVE CountersAgree'
  <2>1. w \in Busy
    BY <1>9 DEF TakeJob, MayTake, At, Busy
  <2>2. w \in Busy'
    <3>1. CASE j.entry \in cancelled
      BY <1>2, <1>9, <3>1 DEF TakeJob, Goto, Busy, WorkerStates
    <3>2. CASE j.entry \notin cancelled
      BY <1>2, <1>9, <3>2 DEF TakeJob, Busy
    <3>3. QED
      BY <3>1, <3>2
  <2>3. UNCHANGED <<queuedWorkers, active>>
    BY <1>9 DEF TakeJob
  <2>4. QED
    BY <1>1, <1>4, <1>9, <2>1, <2>2, <2>3, TakingKeepsSlots
<1>10. CASE BeginCallback(w)
  <2>1. worker'[w].pc \in {"callback", "discard"}
        /\ worker'[w].job = worker[w].job
    BY <1>2, <1>10 DEF BeginCallback, Goto, WorkerStates
  <2>2. worker[w].pc = "process"
    BY <1>10 DEF BeginCallback, At
  <2>3. /\ w \in Busy /\ w \in Busy'
        /\ w \in Rendering /\ w \in Rendering'
    BY <2>1, <2>2 DEF Busy, Rendering
  <2>4. UNCHANGED <<queuedWorkers, countVars>>
    BY <1>10 DEF BeginCallback
  <2>5. QED
    BY <1>1, <1>4, <2>1, <2>3, <2>4, OtherMovesKeepSlots DEF countVars
<1>11. CASE FinishJob(w)
  <2>1. w \in Busy /\ w \in Busy'
    BY <1>2, <1>11 DEF FinishJob, At, Busy, Off, WorkerStates
  <2>2. UNCHANGED <<queuedWorkers, active>>
    BY <1>11 DEF FinishJob
  <2>3. QED
    BY <1>1, <1>4, <1>11, <2>1, <2>2, FinishingKeepsSlots
<1>12. CASE LeaveSchedule(w)
  <2>1. /\ w \notin Busy /\ w \notin Busy'
        /\ w \notin Rendering /\ w \notin Rendering'
    BY <1>2, <1>12 DEF LeaveSchedule, At, Goto, Busy, Rendering, WorkerStates
  <2>2. Busy' = Busy
    BY <1>2, <2>1 DEF Busy
  <2>3. /\ UNCHANGED countVars
        /\ queuedWorkers' = queuedWorkers + Successors
    BY <1>12 DEF LeaveSchedule
  <2>4. /\ Successors \in Nat
        /\ active + queuedWorkers + Successors <= MaxThreadCount
    BY ScheduleKeepsToPool DEF Successors, TypeOK
  <2>5. SlotsAgree'
    BY <2>1, <2>3, OtherMovesKeepSlots DEF countVars
  <2>6. Pool'
    BY <1>3, <2>2, <2>3, <2>4 DEF countVars, MaxThreadCount
  <2>7. QED
    BY <1>1, <2>5, <2>6
<1>13. QED
  BY <1>6, <1>7, <1>8, <1>9, <1>10, <1>11, <1>12 DEF WorkerStep

-----------------------------------------------------------------------------
(* Callbacks in flight.                                                    *)

LEMMA LeasesKept ==
    ASSUME SafetyInv, Next
    PROVE  LeasesAgree'
<1> USE DEF SafetyInv, IInv
<1>1. CASE UserStep \/ GuiStep
  <2>1. \A e \in Entries : Leased(e)' = Leased(e)
    BY <1>1, GuiLeavesWorkers DEF Leased
  <2>2. UNCHANGED callbacksInFlight
    BY <1>1, GuiLeavesWorkers
  <2>3. QED
    BY <2>1, <2>2 DEF LeasesAgree
<1>2. ASSUME NEW w \in Workers, WorkerStep(w) PROVE LeasesAgree'
  <2>1. /\ \A v \in Workers \ {w} : worker'[v] = worker[v]
        /\ worker \in [Workers -> WorkerStates]
    BY <1>2, WorkersLeaveGui DEF TypeOK
  <2>2. /\ callbacksInFlight \in [Entries -> Nat]
        /\ \A e \in Entries : Leased(e) \in SUBSET Workers
    BY DEF TypeOK, Leased
  <2>3. ASSUME UNCHANGED callbacksInFlight,
               \A e \in Entries : w \in Leased(e) <=> w \in Leased(e)'
        PROVE  LeasesAgree'
    <3>1. \A e \in Entries : Leased(e)' = Leased(e)
      BY <2>1, <2>3 DEF Leased
    <3>2. QED
      BY <2>3, <3>1 DEF LeasesAgree
  <2>4. CASE ~ BeginCallback(w) /\ ~ EndLease(w) /\ ~ FinishJob(w)
    <3>1. /\ worker[w].pc \notin {"callback", "lease"}
          /\ worker'[w].pc \notin {"callback", "lease"}
          /\ UNCHANGED callbacksInFlight
      <4>1. CASE \E j \in Jobs : TakeJob(w, j)
        <5>1. PICK j \in Jobs : TakeJob(w, j)
          BY <4>1
        <5>2. CASE j.entry \in cancelled
          BY <2>1, <5>1, <5>2 DEF TakeJob, MayTake, At, Goto, WorkerStates
        <5>3. CASE j.entry \notin cancelled
          BY <2>1, <5>1, <5>3 DEF TakeJob, MayTake, At
        <5>4. QED
          BY <5>2, <5>3
      <4>2. CASE StartWorker(w)
        BY <2>1, <4>2 DEF StartWorker, At, Goto, WorkerStates
      <4>3. CASE Shrink(w) \/ GiveWay(w) \/ TakeNothing(w)
        BY <2>1, <4>3
        DEF Shrink, GiveWay, TakeNothing, MayTake, At, Goto, WorkerStates
      <4>4. CASE Leave(w) \/ LeaveSchedule(w)
        BY <2>1, <4>4 DEF Leave, LeaveSchedule, At, Goto, WorkerStates
      <4>5. QED
        BY <1>2, <2>4, <4>1, <4>2, <4>3, <4>4 DEF WorkerStep
    <3>2. QED
      BY <2>3, <3>1 DEF Leased
  <2>5. CASE FinishJob(w)
    <3>1. /\ worker[w].pc = "callback" =>
                /\ worker'[w].pc = "lease"
                /\ worker'[w].job = worker[w].job
          /\ worker[w].pc # "callback" => worker'[w].pc = "take"
          /\ worker[w].pc \in {"callback", "discard"}
      BY <2>1, <2>5 DEF FinishJob, At, Off, WorkerStates
    <3>2. UNCHANGED callbacksInFlight
      BY <2>5 DEF FinishJob
    <3>3. QED
      BY <2>3, <3>1, <3>2 DEF Leased
  <2>6. CASE BeginCallback(w)
    <3>0. worker[w].pc = "process" /\ worker[w].job.entry \in Entries
      BY <2>6 DEF BeginCallback, At, TypeOK, WorkerStates, Jobs, ThreadShape
    <3>1. PICK a \in Entries : a = worker[w].job.entry
      BY <3>0
    <3>2. CASE a \in cancelled
      <4>1. worker'[w].pc = "discard" /\ UNCHANGED callbacksInFlight
        BY <2>1, <2>6, <3>1, <3>2 DEF BeginCallback, Goto, WorkerStates
      <4>2. QED
        BY <2>3, <3>0, <4>1 DEF Leased
    <3>3. CASE a \notin cancelled
      <4>1. /\ worker'[w].pc = "callback"
            /\ worker'[w].job = worker[w].job
            /\ callbacksInFlight' = [callbacksInFlight EXCEPT ![a] = @ + 1]
        BY <2>1, <2>6, <3>1, <3>3 DEF BeginCallback, Goto, WorkerStates
      <4>2. ASSUME NEW e \in Entries, e # a
            PROVE  Leased(e)' = Leased(e)
                   /\ callbacksInFlight'[e] = callbacksInFlight[e]
        BY <2>1, <2>2, <3>0, <3>1, <4>1, <4>2 DEF Leased
      <4>3. Leased(a)' = Leased(a) \cup {w} /\ w \notin Leased(a)
        BY <2>1, <3>0, <3>1, <4>1 DEF Leased
      <4>4. Cardinality(Leased(a)') = Cardinality(Leased(a)) + 1
        BY <2>2, <3>1, <4>3, OneJoins
      <4>5. callbacksInFlight'[a] = callbacksInFlight[a] + 1
        BY <2>2, <3>1, <4>1
      <4>6. ASSUME NEW e \in Entries
            PROVE  callbacksInFlight'[e] = Cardinality(Leased(e)')
        BY <3>1, <4>2, <4>4, <4>5 DEF LeasesAgree
      <4>7. QED
        BY <4>6 DEF LeasesAgree
    <3>4. QED
      BY <3>2, <3>3
  <2>7. CASE EndLease(w)
    <3>0. worker[w].pc = "lease" /\ worker[w].job.entry \in Entries
      BY <2>7, LeaseIsCounted DEF EndLease, At
    <3>1. PICK a \in Entries : a = worker[w].job.entry
      BY <3>0
    <3>2. /\ worker'[w].pc = "take"
          /\ callbacksInFlight' = [callbacksInFlight EXCEPT ![a] = @ - 1]
      BY <2>1, <2>7, <3>1 DEF EndLease, Returned, Off
    <3>3. ASSUME NEW e \in Entries, e # a
          PROVE  Leased(e)' = Leased(e)
                 /\ callbacksInFlight'[e] = callbacksInFlight[e]
      BY <2>1, <2>2, <3>0, <3>1, <3>2, <3>3 DEF Leased
    <3>4. Leased(a)' = Leased(a) \ {w} /\ w \in Leased(a)
      BY <2>1, <3>0, <3>1, <3>2 DEF Leased
    <3>5. Cardinality(Leased(a)') = Cardinality(Leased(a)) - 1
      BY <2>2, <3>1, <3>4, OneLeaves
    <3>6. callbacksInFlight'[a] = callbacksInFlight[a] - 1
      BY <2>2, <3>1, <3>2
    <3>7. ASSUME NEW e \in Entries
          PROVE  callbacksInFlight'[e] = Cardinality(Leased(e)')
      BY <3>1, <3>3, <3>5, <3>6 DEF LeasesAgree
    <3>8. QED
      BY <3>7 DEF LeasesAgree
  <2>8. QED
    BY <2>4, <2>5, <2>6, <2>7
<1>3. QED
  BY <1>1, <1>2 DEF Next

-----------------------------------------------------------------------------
(* Where the threads are, and whose jobs are queued.                       *)

\* A worker has a job in hand exactly between taking it and ending the lease.
JobInHand ==
    \A w \in Workers :
        worker[w].pc \in {"process", "callback", "discard", "lease"} <=>
            worker[w].job # NoJob

LEMMA JobInHandKept ==
    ASSUME SafetyInv, Next
    PROVE  JobInHand'
<1> USE DEF SafetyInv, IInv
<1>0. JobInHand
  BY DEF ThreadShape, JobInHand
<1>1. CASE UserStep \/ GuiStep
  BY <1>0, <1>1, GuiLeavesWorkers DEF JobInHand
<1>2. ASSUME NEW w \in Workers, WorkerStep(w) PROVE JobInHand'
  <2>1. /\ \A v \in Workers \ {w} : worker'[v] = worker[v]
        /\ worker \in [Workers -> WorkerStates]
    BY <1>2, WorkersLeaveGui DEF TypeOK
  <2>2. SUFFICES worker'[w].pc \in {"process", "callback", "discard", "lease"}
                    <=> worker'[w].job # NoJob
    BY <1>0, <2>1 DEF JobInHand
  <2>3. CASE StartWorker(w)
    BY <1>0, <2>1, <2>3 DEF StartWorker, At, Goto, JobInHand, WorkerStates
  <2>4. CASE Shrink(w) \/ GiveWay(w) \/ TakeNothing(w)
    <3>1. worker[w].pc \in {"take", "again"}
      BY <2>4 DEF Shrink, GiveWay, TakeNothing, MayTake, At
    <3>2. /\ worker'[w].pc \in {"left", "leave"}
          /\ worker'[w].job = worker[w].job
      BY <2>1, <2>4 DEF Shrink, GiveWay, TakeNothing, Goto, WorkerStates
    <3>3. QED
      BY <1>0, <3>1, <3>2 DEF JobInHand
  <2>5. ASSUME NEW j \in Jobs, TakeJob(w, j)
        PROVE  worker'[w].pc \in {"process", "callback", "discard", "lease"}
                    <=> worker'[w].job # NoJob
    <3>1. j # NoJob
      BY UpdaterAssumption DEF Jobs, NoJob
    <3>2. CASE j.entry \in cancelled
      BY <1>0, <2>1, <2>5, <3>2
      DEF TakeJob, MayTake, At, Goto, JobInHand, WorkerStates
    <3>3. CASE j.entry \notin cancelled
      BY <2>1, <2>5, <3>1, <3>3 DEF TakeJob
    <3>4. QED
      BY <3>2, <3>3
  <2>6. CASE BeginCallback(w)
    BY <1>0, <2>1, <2>6 DEF BeginCallback, At, Goto, JobInHand, WorkerStates
  <2>7. CASE FinishJob(w)
    BY <1>0, <2>1, <2>7 DEF FinishJob, At, Off, JobInHand, WorkerStates
  <2>8. CASE EndLease(w)
    BY <2>1, <2>8 DEF EndLease, Off
  <2>9. CASE Leave(w) \/ LeaveSchedule(w)
    BY <1>0, <2>1, <2>9
    DEF Leave, LeaveSchedule, At, Goto, JobInHand, WorkerStates
  <2>10. QED
    BY <1>2, <2>3, <2>4, <2>5, <2>6, <2>7, <2>8, <2>9 DEF WorkerStep
<1>3. QED
  BY <1>1, <1>2 DEF Next

\* What the GTK thread is at.
GuiShape ==
    /\ \A j \in gui.batch : gui.pc = "queue" /\ life[j.entry] = "shown"
    /\ gui.changed => gui.pc \in {"queue", "priorities"}
    /\ \A e \in Entries :
          life[e] = "removing" <=> gui.pc = "remove" /\ gui.on = e

LEMMA GuiShapeKept ==
    ASSUME SafetyInv, Next
    PROVE  GuiShape'
<1> USE DEF SafetyInv, IInv
<1>0. GuiShape
  BY DEF ThreadShape, GuiShape
<1>1. ASSUME NEW e \in Entries, CreateEntry(e) PROVE GuiShape'
  BY <1>0, <1>1 DEF CreateEntry, GuiShape, TypeOK
<1>2. ASSUME NEW e \in Entries, RemoveJobs(e) PROVE GuiShape'
  BY <1>0, <1>2 DEF RemoveJobs, GuiShape, TypeOK, GuiStates
<1>3. ASSUME NEW visible \in SUBSET Shown, NEW requests \in Requests(visible),
             Draw(visible, requests)
      PROVE  GuiShape'
  <2>1. \A j \in requests : life[j.entry] = "shown"
    BY DEF Requests, Shown
  <2>2. gui.pc = "idle" /\ life' = life
    BY <1>3 DEF Draw
  <2>3. CASE requests # {}
    <3>1. gui'.pc = "queue" /\ gui'.batch = requests
      BY <1>3, <2>3 DEF Draw, TypeOK, GuiStates
    <3>2. QED
      BY <1>0, <2>1, <2>2, <3>1 DEF GuiShape
  <2>4. CASE requests = {}
    <3>1. /\ gui'.pc \in {"priorities", "idle"} /\ gui'.batch = gui.batch
          /\ gui'.changed => gui'.pc = "priorities"
      BY <1>3, <2>4 DEF Draw, TypeOK, GuiStates
    <3>2. QED
      BY <1>0, <2>2, <3>1 DEF GuiShape
  <2>5. QED
    BY <2>3, <2>4
<1>4. CASE UNCHANGED <<life, gui>>
  BY <1>0, <1>4 DEF GuiShape
<1>5. CASE Resume \/ RemoveAllJobs
  BY <1>0, <1>5 DEF Resume, RemoveAllJobs, GuiShape, TypeOK, GuiStates
<1>6. CASE QueueVisible
  BY <1>0, <1>6 DEF QueueVisible, GuiShape, TypeOK, GuiStates
<1>7. CASE PrioritiesChanged \/ ResumeSchedule
  BY <1>0, <1>7 DEF PrioritiesChanged, ResumeSchedule, GuiShape, IdleGui
<1>8. CASE CloseBrowser
  BY <1>0, <1>8 DEF CloseBrowser, GuiShape, IdleGui, Shown
<1>9. ASSUME NEW e \in Entries, RemoveDone(e) PROVE GuiShape'
  BY <1>0, <1>9 DEF RemoveDone, GuiShape, IdleGui, TypeOK
<1>10. ASSUME NEW w \in Workers, WorkerStep(w) PROVE UNCHANGED <<life, gui>>
  BY <1>10, WorkersLeaveGui DEF browserVars
<1>11. ASSUME NEW j \in Jobs, Refresh(j) PROVE UNCHANGED <<life, gui>>
  BY <1>11 DEF Refresh, browserVars
<1>12. ASSUME Pause PROVE UNCHANGED <<life, gui>>
  BY <1>12 DEF Pause
<1>13. QED
  BY <1>1, <1>2, <1>3, <1>4, <1>5, <1>6, <1>7, <1>8, <1>9, <1>10, <1>11, <1>12
  DEF Next, UserStep, GuiStep

LEMMA NoDanglingJobKept ==
    ASSUME SafetyInv, Next
    PROVE  NoDanglingJob'
<1> USE DEF SafetyInv, IInv
<1>0. jobs \in SUBSET Jobs
  BY DEF TypeOK
<1>1. ASSUME NEW e \in Entries, CreateEntry(e) PROVE NoDanglingJob'
  BY <1>0, <1>1 DEF CreateEntry, queueVars, NoDanglingJob, TypeOK, Jobs
<1>2. ASSUME NEW e \in Entries, RemoveJobs(e) PROVE NoDanglingJob'
  BY <1>0, <1>2 DEF RemoveJobs, JobsOf, NoDanglingJob, TypeOK, Jobs
<1>3. ASSUME jobs' \subseteq jobs, UNCHANGED life PROVE NoDanglingJob'
  BY <1>3 DEF NoDanglingJob
<1>4. ASSUME NEW js \in SUBSET Jobs, AddJobs(js), UNCHANGED life,
             \A j \in js : life[j.entry] \in {"shown", "doomed"}
      PROVE  NoDanglingJob'
  BY <1>4 DEF AddJobs, NoDanglingJob
<1>5. ASSUME NEW j \in Jobs, Refresh(j) PROVE NoDanglingJob'
  BY <1>4, <1>5 DEF Refresh, browserVars
<1>6. CASE QueueVisible
  BY <1>4, <1>6 DEF QueueVisible, ThreadShape, TypeOK, GuiStates
<1>7. CASE CloseBrowser
  BY <1>0, <1>7 DEF CloseBrowser, queueVars, NoDanglingJob, Jobs
<1>8. ASSUME NEW e \in Entries, RemoveDone(e) PROVE NoDanglingJob'
  <2>1. life[e] = "removing"
    BY <1>8 DEF RemoveDone, ThreadShape
  <2>2. QED
    BY <1>0, <1>8, <2>1 DEF RemoveDone, queueVars, NoDanglingJob, TypeOK, Jobs
<1>9. ASSUME \/ Pause \/ Resume \/ RemoveAllJobs
             \/ PrioritiesChanged \/ ResumeSchedule
             \/ \E visible, requests : Draw(visible, requests)
      PROVE  jobs' \subseteq jobs /\ UNCHANGED life
  BY <1>9
  DEF Pause, Resume, RemoveAllJobs, PrioritiesChanged, ResumeSchedule, Draw,
      queueVars
<1>10. ASSUME NEW w \in Workers, WorkerStep(w)
       PROVE  jobs' \subseteq jobs /\ UNCHANGED life
  BY <1>10, WorkersLeaveGui DEF browserVars
<1>11. QED
  BY <1>1, <1>2, <1>3, <1>5, <1>6, <1>7, <1>8, <1>9, <1>10
  DEF Next, UserStep, GuiStep

-----------------------------------------------------------------------------
(* Whose job a worker has.                                                 *)

\* The list of removed listeners is not cleared under a worker that is at work.
LEMMA WorkKeepsTheList ==
    ASSUME TypeOK, CountersAgree, NEW w \in Workers,
           worker[w].pc \notin {"off", "left"},
           NEW queued, NEW listeners, NotifyInactive(active, queued, listeners)
    PROVE  cancelled' = listeners
<1>1. active >= 1 /\ active \in Nat
  BY BusyIsCounted
<1>2. QED
  BY <1>1 DEF NotifyInactive

LEMMA JobOwnersKept ==
    ASSUME SafetyInv, Next
    PROVE  JobOwners'
<1> USE DEF SafetyInv, IInv
<1>1. ASSUME UNCHANGED <<worker, life, cancelled>> PROVE JobOwners'
  BY <1>1 DEF JobOwners, At
<1>2. ASSUME NEW e \in Entries, CreateEntry(e) PROVE JobOwners'
  <2>1. /\ life[e] = "none" /\ life' = [life EXCEPT ![e] = "shown"]
        /\ worker' = worker /\ cancelled' = cancelled
    BY <1>2 DEF CreateEntry, queueVars
  <2>2. \A f : f = e \/ life'[f] = life[f]
    BY <2>1 DEF TypeOK
  <2>3. QED
    BY <2>1, <2>2 DEF JobOwners, At
<1>3. ASSUME NEW e \in Entries, RemoveJobs(e) PROVE JobOwners'
  <2>1. \A w \in Workers :
            /\ worker'[w].pc = worker[w].pc
            /\ worker'[w].job = worker[w].job
            /\ worker'[w].orphan
                  <=> worker[w].orphan \/ worker[w].job.entry = e
    BY <1>3 DEF RemoveJobs, TypeOK, WorkerStates
  <2>2. /\ life'[e] = "removing"
        /\ \A f : f = e \/ life'[f] = life[f]
    BY <1>3 DEF RemoveJobs, TypeOK
  <2>3. ASSUME NEW w \in Workers, At(w, "process")
        PROVE  cancelled' = cancelled \cup {e}
    <3>1. NotifyInactive(active, queuedWorkers, cancelled \cup {e})
      BY <1>3 DEF RemoveJobs
    <3>2. QED
      BY <2>3, <3>1, WorkKeepsTheList DEF At
  <2>4. ASSUME NEW w \in Workers,
               worker[w].pc \in {"callback", "lease"}, worker[w].orphan
        PROVE  FALSE
    <3>1. life[worker[w].job.entry] = "removing"
      BY <2>4 DEF JobOwners
    <3>2. worker[w].job.entry \in Entries
      BY <2>4, LeaseIsCounted
    <3>3. QED
      BY <1>3, <3>1, <3>2 DEF RemoveJobs, ThreadShape
  <2>5. QED
    BY <2>1, <2>2, <2>3, <2>4 DEF JobOwners, At
<1>4. CASE CloseBrowser
  <2>1. \A e \in Entries :
            \/ life'[e] = life[e]
            \/ life[e] = "shown" /\ life'[e] = "doomed"
    BY <1>4 DEF CloseBrowser, Shown
  <2>2. worker' = worker /\ cancelled' = cancelled
    BY <1>4 DEF CloseBrowser, queueVars
  <2>3. \A w \in Workers :
            worker[w].pc \in {"process", "callback", "lease"} =>
                worker[w].job.entry \in Entries
    BY DEF TypeOK, WorkerStates, Jobs, ThreadShape
  <2>4. QED
    BY <2>1, <2>2, <2>3 DEF JobOwners, At
<1>5. ASSUME NEW e \in Entries, RemoveDone(e) PROVE JobOwners'
  <2>1. life[e] = "removing"
    BY <1>5 DEF RemoveDone, ThreadShape
  <2>2. ASSUME NEW w \in Workers, worker[w].pc \in {"callback", "lease"}
        PROVE  worker[w].job.entry # e
    <3>1. callbacksInFlight[worker[w].job.entry] >= 1
      BY <2>2, LeaseIsCounted
    <3>2. QED
      BY <1>5, <3>1 DEF RemoveDone
  <2>3. /\ worker' = worker /\ cancelled' = cancelled
        /\ \A f : f = e \/ life'[f] = life[f]
    BY <1>5 DEF RemoveDone, queueVars, TypeOK
  <2>4. QED
    BY <2>1, <2>2, <2>3 DEF JobOwners, At
<1>6. ASSUME \/ \E j \in Jobs : Refresh(j)
             \/ QueueVisible \/ PrioritiesChanged \/ ResumeSchedule
             \/ Pause \/ Resume \/ RemoveAllJobs
             \/ \E visible, requests : Draw(visible, requests)
      PROVE  UNCHANGED <<worker, life, cancelled>>
  BY <1>6
  DEF Refresh, QueueVisible, PrioritiesChanged, ResumeSchedule, Pause, Resume,
      RemoveAllJobs, Draw, AddJobs, StillCancelled, queueVars, browserVars
<1>7. ASSUME NEW w \in Workers, WorkerStep(w) PROVE JobOwners'
  <2>1. /\ \A v \in Workers \ {w} : worker'[v] = worker[v]
        /\ worker \in [Workers -> WorkerStates]
        /\ life' = life
    BY <1>7, WorkersLeaveGui DEF TypeOK, browserVars
  <2>2. ASSUME NEW v \in Workers, worker[v].pc \notin {"off", "left"}
        PROVE  cancelled' = cancelled
    <3>1. CASE StartWorker(w)
      <4>1. CASE NothingToDo
        BY <2>2, <3>1, <4>1, WorkKeepsTheList DEF StartWorker
      <4>2. CASE ~ NothingToDo
        BY <3>1, <4>2 DEF StartWorker
      <4>3. QED
        BY <4>1, <4>2
    <3>2. CASE LeaveSchedule(w)
      BY <2>2, <3>2, WorkKeepsTheList DEF LeaveSchedule
    <3>3. CASE ~ StartWorker(w) /\ ~ LeaveSchedule(w)
      BY <1>7, <3>3
      DEF WorkerStep, Shrink, GiveWay, TakeNothing, TakeJob, BeginCallback,
          FinishJob, EndLease, Leave
    <3>4. QED
      BY <3>1, <3>2, <3>3
  <2>3. SUFFICES
            LET e == worker'[w].job.entry IN
            /\ worker'[w].pc = "process" /\ worker'[w].orphan => e \in cancelled'
            /\ worker'[w].pc \in {"process", "callback", "lease"}
                  /\ ~ worker'[w].orphan
               => life[e] \in {"shown", "doomed"}
            /\ worker'[w].pc \in {"callback", "lease"} /\ worker'[w].orphan
               => life[e] = "removing"
    BY <2>1, <2>2 DEF JobOwners, At
  <2>4. CASE worker'[w].pc \notin {"process", "callback", "lease"}
    BY <2>4
  <2>5. ASSUME NEW j \in Jobs, TakeJob(w, j), j.entry \notin cancelled
        PROVE  /\ worker'[w].job = j /\ worker'[w].orphan = FALSE
               /\ life[j.entry] \in {"shown", "doomed"}
    BY <2>1, <2>5, CandidatesCanRun DEF TakeJob, NoDanglingJob
  <2>6. CASE BeginCallback(w) /\ worker'[w].pc = "callback"
    <3>1. /\ worker[w].pc = "process"
          /\ worker'[w].job = worker[w].job
          /\ worker'[w].orphan = worker[w].orphan
          /\ worker[w].job.entry \notin cancelled
      BY <2>1, <2>6 DEF BeginCallback, At, Goto, WorkerStates
    <3>2. ~ worker[w].orphan /\ life[worker[w].job.entry] \in {"shown", "doomed"}
      BY <3>1 DEF JobOwners, At
    <3>3. QED
      BY <2>6, <3>1, <3>2
  <2>7. CASE FinishJob(w) /\ worker'[w].pc = "lease"
    <3>1. /\ worker[w].pc = "callback"
          /\ worker'[w].job = worker[w].job
          /\ worker'[w].orphan = worker[w].orphan
      BY <2>1, <2>7 DEF FinishJob, At, Off, WorkerStates
    <3>2. QED
      BY <2>7, <3>1 DEF JobOwners, At
  <2>8. CASE \E j \in Jobs : TakeJob(w, j) /\ worker'[w].pc = "process"
    <3>1. PICK j \in Jobs : TakeJob(w, j) /\ worker'[w].pc = "process"
      BY <2>8
    <3>2. j.entry \notin cancelled
      BY <2>1, <3>1 DEF TakeJob, Goto, WorkerStates
    <3>3. QED
      BY <2>5, <3>1, <3>2
  <2>9. ASSUME worker'[w].pc \in {"process", "callback", "lease"}
        PROVE  \/ BeginCallback(w) /\ worker'[w].pc = "callback"
               \/ FinishJob(w) /\ worker'[w].pc = "lease"
               \/ \E j \in Jobs : TakeJob(w, j) /\ worker'[w].pc = "process"
    <3>1. CASE StartWorker(w)
      BY <2>1, <2>9, <3>1 DEF StartWorker, At, Goto, WorkerStates
    <3>2. CASE Shrink(w) \/ GiveWay(w) \/ TakeNothing(w)
      BY <2>1, <2>9, <3>2, ZenonT(30) DEF Shrink, GiveWay, TakeNothing, Goto, WorkerStates
    <3>3. ASSUME NEW j \in Jobs, TakeJob(w, j)
          PROVE  worker'[w].pc = "process"
      <4>1. CASE j.entry \in cancelled
        BY <2>1, <2>9, <3>3, <4>1 DEF TakeJob, Goto, WorkerStates
      <4>2. CASE j.entry \notin cancelled
        BY <2>1, <3>3, <4>2 DEF TakeJob
      <4>3. QED
        BY <4>1, <4>2
    <3>4. CASE BeginCallback(w)
      BY <2>1, <2>9, <3>4 DEF BeginCallback, Goto, WorkerStates
    <3>5. CASE FinishJob(w)
      BY <2>1, <2>9, <3>5 DEF FinishJob, At, Off, WorkerStates
    <3>6. CASE EndLease(w)
      BY <2>1, <2>9, <3>6 DEF EndLease, Off
    <3>7. CASE Leave(w) \/ LeaveSchedule(w)
      BY <2>1, <2>9, <3>7 DEF Leave, LeaveSchedule, Goto, WorkerStates
    <3>8. QED
      BY <1>7, <3>1, <3>2, <3>3, <3>4, <3>5, <3>6, <3>7 DEF WorkerStep
  <2>10. QED
    BY <2>4, <2>6, <2>7, <2>8, <2>9
<1>8. QED
  BY <1>1, <1>2, <1>3, <1>4, <1>5, <1>6, <1>7 DEF Next, UserStep, GuiStep

-----------------------------------------------------------------------------
(* The count of visible jobs.                                              *)

LEMMA VisibleCountKept ==
    ASSUME SafetyInv, Next
    PROVE  VisibleIsCounted'
<1> USE DEF SafetyInv, IInv
<1>0. /\ foregroundJobCount \in Nat /\ jobs \in SUBSET Jobs
      /\ gui.pc \notin {"queue", "priorities"} => ~ gui.changed
  BY DEF TypeOK, ThreadShape, GuiStates
<1>1. ASSUME UNCHANGED <<foregroundJobCount, jobs, updatepriority>>,
             ~ gui'.changed => ~ gui.changed
      PROVE  VisibleIsCounted'
  BY <1>1 DEF VisibleIsCounted, Visible, Foreground
<1>2. ASSUME NEW e \in Entries, CreateEntry(e) PROVE VisibleIsCounted'
  <2>1. /\ jobs' = jobs /\ gui' = gui
        /\ foregroundJobCount' = foregroundJobCount
        /\ updatepriority' = [updatepriority EXCEPT ![e] = FALSE]
    BY <1>2 DEF CreateEntry, queueVars
  <2>2. Visible(jobs)' \in SUBSET Visible(jobs) /\ Visible(jobs) \in SUBSET Jobs
    BY <1>0, <2>1 DEF Visible, Foreground, TypeOK
  <2>3. /\ Cardinality(Visible(jobs)') <= Cardinality(Visible(jobs))
        /\ Cardinality(Visible(jobs)) \in Nat
        /\ Cardinality(Visible(jobs)') \in Nat
    BY <2>2, JobsAreFinite, FS_Subset
  <2>4. QED
    BY <1>0, <2>1, <2>3 DEF VisibleIsCounted
<1>3. ASSUME NEW visible, NEW requests, Draw(visible, requests)
      PROVE  VisibleIsCounted'
  <2>1. CASE updatepriority' # updatepriority
    <3>1. gui'.changed = TRUE
      BY <1>3, <2>1 DEF Draw, TypeOK, GuiStates
    <3>2. QED
      BY <3>1 DEF VisibleIsCounted
  <2>2. CASE updatepriority' = updatepriority
    BY <1>0, <1>1, <1>3, <2>2 DEF Draw, queueVars
  <2>3. QED
    BY <2>1, <2>2
<1>4. ASSUME NEW js \in SUBSET Jobs, AddJobs(js), UNCHANGED updatepriority,
             gui'.changed = gui.changed
      PROVE  VisibleIsCounted'
  <2>1. /\ jobs' = jobs \cup js
        /\ foregroundJobCount' = foregroundJobCount + CountVisible(js \ jobs)
    BY <1>4 DEF AddJobs
  <2>2. Visible(jobs)' = Visible(jobs \cup js)
    BY <1>4, <2>1 DEF Visible, Foreground
  <2>3. QED
    BY <1>4, <2>1, <2>2, CountIsSafe DEF VisibleIsCounted
<1>5. ASSUME NEW j \in Jobs, Refresh(j) PROVE VisibleIsCounted'
  BY <1>4, <1>5 DEF Refresh, browserVars
<1>6. CASE QueueVisible
  <2>1. /\ gui.batch \in SUBSET Jobs /\ AddJobs(gui.batch)
        /\ gui'.changed = gui.changed /\ UNCHANGED updatepriority
    BY <1>6 DEF QueueVisible, TypeOK, GuiStates
  <2>2. QED
    BY <1>4, <2>1
<1>7. CASE PrioritiesChanged
  <2>1. Visible(jobs)' = Visible(jobs) /\ Visible(jobs) \in SUBSET Jobs
    BY <1>0, <1>7 DEF PrioritiesChanged, Visible, Foreground
  <2>2. Cardinality(Visible(jobs)) \in Nat
    BY <2>1, JobsAreFinite
  <2>3. QED
    BY <1>7, <2>1, <2>2 DEF PrioritiesChanged, VisibleIsCounted
<1>8. ASSUME Visible(jobs)' = {}, foregroundJobCount' \in Nat
      PROVE  VisibleIsCounted'
  BY <1>8, FS_EmptySet DEF VisibleIsCounted
<1>9. CASE RemoveAllJobs
  BY <1>8, <1>9 DEF RemoveAllJobs, Visible
<1>10. CASE CloseBrowser
  <2>1. Visible(jobs)' = {}
    BY <1>0, <1>10 DEF CloseBrowser, queueVars, Visible, Foreground, Jobs
  <2>2. foregroundJobCount' = foregroundJobCount
    BY <1>10 DEF CloseBrowser, queueVars
  <2>3. QED
    BY <1>0, <1>8, <2>1, <2>2
<1>11. ASSUME NEW js \in SUBSET jobs, jobs' = jobs \ js,
              foregroundJobCount' = Uncount(js), UNCHANGED updatepriority,
              ~ gui'.changed => ~ gui.changed
       PROVE  VisibleIsCounted'
  <2>1. Visible(jobs)' = Visible(jobs \ js)
    BY <1>11 DEF Visible, Foreground
  <2>2. QED
    BY <1>11, <2>1, UncountIsSafe DEF VisibleIsCounted
<1>12. ASSUME NEW e \in Entries, RemoveJobs(e) PROVE VisibleIsCounted'
  <2>1. JobsOf(e) \in SUBSET jobs
    BY DEF JobsOf
  <2>2. ~ gui.changed
    BY <1>0, <1>12 DEF RemoveJobs
  <2>3. QED
    BY <1>11, <1>12, <2>1, <2>2 DEF RemoveJobs
<1>13. CASE Pause \/ Resume
  BY <1>0, <1>1, <1>13 DEF Pause, Resume, queueVars
<1>14. CASE ResumeSchedule
  BY <1>0, <1>1, <1>14 DEF ResumeSchedule
<1>15. ASSUME NEW e \in Entries, RemoveDone(e) PROVE VisibleIsCounted'
  BY <1>0, <1>1, <1>15 DEF RemoveDone, queueVars
<1>16. ASSUME NEW w \in Workers, WorkerStep(w) PROVE VisibleIsCounted'
  <2>1. UNCHANGED <<updatepriority, gui>>
    BY <1>16, WorkersLeaveGui DEF browserVars
  <2>2. ASSUME NEW j \in Jobs, TakeJob(w, j) PROVE VisibleIsCounted'
    <3>1. {j} \in SUBSET jobs
      BY <2>2, CandidatesCanRun DEF TakeJob
    <3>2. jobs' = jobs \ {j} /\ foregroundJobCount' = Uncount({j})
      BY <2>2 DEF TakeJob
    <3>3. QED
      BY <1>11, <2>1, <3>1, <3>2
  <2>3. CASE TakeNothing(w)
    <3>1. CASE foregroundJobCount' = foregroundJobCount
      BY <1>1, <2>1, <2>3, <3>1 DEF TakeNothing
    <3>2. CASE foregroundJobCount' # foregroundJobCount
      <4>1. foregroundJobCount' = 0 /\ Visible(jobs) = {} /\ jobs' = jobs
        <5>1. CASE jobs = {}
          BY <2>3, <3>2, <5>1 DEF TakeNothing
        <5>2. CASE jobs # {}
          BY <2>3, <3>2, <5>2 DEF TakeNothing
        <5>3. QED
          BY <5>1, <5>2
      <4>2. Visible(jobs)' = {}
        BY <2>1, <4>1 DEF Visible, Foreground
      <4>3. QED
        BY <1>8, <4>1, <4>2
    <3>3. QED
      BY <3>1, <3>2
  <2>4. CASE /\ ~ TakeNothing(w)
             /\ \A j \in Jobs : ~ TakeJob(w, j)
    <3>1. UNCHANGED <<jobs, foregroundJobCount>>
      BY <1>16, <2>4
      DEF WorkerStep, StartWorker, Shrink, GiveWay, BeginCallback, FinishJob,
          EndLease, Leave, LeaveSchedule
    <3>2. QED
      BY <1>1, <2>1, <3>1
  <2>5. QED
    BY <2>2, <2>3, <2>4
<1>17. QED
  BY <1>2, <1>3, <1>5, <1>6, <1>7, <1>9, <1>10, <1>12, <1>13, <1>14, <1>15,
     <1>16
  DEF Next, UserStep, GuiStep

-----------------------------------------------------------------------------
(* The theorems.                                                           *)

LEMMA InitEstablishes == Init => SafetyInv
<1> SUFFICES ASSUME Init PROVE SafetyInv
  OBVIOUS
<1>1. TypeOK
  BY DEF Init, TypeOK, WorkerStates, WorkerPCs, Off, IdleGui, GuiStates
<1>2. ThreadShape
  BY DEF Init, ThreadShape, Off, IdleGui
<1>3. CountersAgree
  <2>1. /\ Busy = {} /\ Rendering = {}
        /\ {w \in Rendering : Jpeg(worker[w].job)} = {}
        /\ {w \in Rendering : worker[w].job.upgrade} = {}
    BY DEF Init, Busy, Rendering, Off
  <2>2. MaxThreadCount \in Nat
    BY WorkersAreFinite DEF MaxThreadCount
  <2>3. QED
    BY <2>1, <2>2, FS_EmptySet, UpdaterAssumption DEF Init, CountersAgree
<1>4. LeasesAgree
  <2>1. \A e \in Entries : Leased(e) = {}
    BY DEF Init, Leased, Off
  <2>2. QED
    BY <2>1, FS_EmptySet DEF Init, LeasesAgree
<1>5. JobOwners
  BY DEF Init, JobOwners, At, Off
<1>6. Visible(jobs) = {}
  BY DEF Init, Visible
<1>7. NoDanglingJob /\ VisibleIsCounted
  BY <1>6, FS_EmptySet DEF Init, NoDanglingJob, VisibleIsCounted
<1>8. QED
  BY <1>1, <1>2, <1>3, <1>4, <1>5, <1>7 DEF SafetyInv, IInv

LEMMA StepKeeps == SafetyInv /\ [Next]_vars => SafetyInv'
<1> SUFFICES ASSUME SafetyInv, [Next]_vars PROVE SafetyInv'
  OBVIOUS
<1>1. CASE Next
  <2>1. TypeOK'
    BY <1>1, GuiKeepsTypes, WorkerKeepsTypes DEF Next
  <2>2. CountersAgree'
    BY <1>1, GuiKeepsCounters, WorkerKeepsCounters DEF Next
  <2>3. ThreadShape'
    BY <1>1, JobInHandKept, GuiShapeKept DEF JobInHand, GuiShape, ThreadShape
  <2>4. QED
    BY <1>1, <2>1, <2>2, <2>3, LeasesKept, NoDanglingJobKept, JobOwnersKept,
       VisibleCountKept
    DEF SafetyInv, IInv
<1>2. CASE UNCHANGED vars
  BY <1>2
  DEF vars, countVars, browserVars, SafetyInv, IInv, TypeOK, ThreadShape,
      NoDanglingJob, CountersAgree, LeasesAgree, JobOwners, VisibleIsCounted,
      Busy, Rendering, Leased, Visible, Foreground, Jpeg, At, MaxThreadCount
<1>3. QED
  BY <1>1, <1>2

\* Every variable keeps its type: no counter of the updater becomes negative.
THEOREM UpdaterTypeCorrect == Spec => []TypeOK
<1>1. SafetyInv => TypeOK
  BY DEF SafetyInv
<1>2. QED
  BY <1>1, InitEstablishes, StepKeeps, PTL DEF Spec

\* The inductive invariant: counters, leases, owners of jobs, visible jobs.
THEOREM UpdaterInductive == Spec => []IInv
<1>1. SafetyInv => IInv
  BY DEF SafetyInv
<1>2. QED
  BY <1>1, InitEstablishes, StepKeeps, PTL DEF Spec

\* The counters are what the threads do, and keep to the limits of the pool, of
\* JPEGs and of upgrades.
THEOREM UpdaterKeepsLimits == Spec => []CountersAgree
<1>1. IInv => CountersAgree
  BY DEF IInv
<1>2. QED
  BY <1>1, UpdaterInductive, PTL

\* The queue holds jobs of live entries only.
THEOREM UpdaterQueueIsLive == Spec => []NoDanglingJob
<1>1. IInv => NoDanglingJob
  BY DEF IInv
<1>2. QED
  BY <1>1, UpdaterInductive, PTL

\* No callback reaches a deleted entry, nor one that was allocated in its place.
THEOREM UpdaterCallsTheLiving == Spec => []NoStaleCallback
<1>1. IInv => NoStaleCallback
  BY DEF IInv, JobOwners, NoStaleCallback, At
<1>2. QED
  BY <1>1, UpdaterInductive, PTL

\* The count that lets visible jobs through a pause is never too low.
THEOREM UpdaterCountsVisible == Spec => []VisibleIsCounted
<1>1. IInv => VisibleIsCounted
  BY DEF IInv
<1>2. QED
  BY <1>1, UpdaterInductive, PTL

-----------------------------------------------------------------------------
(* Nobody is stranded.                                                     *)

\* No pool task is queued and no thread of the pool is at work.
PoolSleeps == queuedWorkers = 0 /\ \A w \in Workers : At(w, "off")

\* While the pool sleeps nothing may run, except for what the GTK thread is
\* about to tell it: flags that have changed, or the end of a pause.
SleepIsJustified ==
    PoolSleeps /\ ~ gui.changed /\ gui.pc # "resume" => Wanted = {}

\* With no worker in a loop every slot is free.
LEMMA IdleSlots ==
    ASSUME CountersAgree, \A w \in Workers : worker[w].pc \in {"off", "left"}
    PROVE  active = 0 /\ activeJpegJobs = 0 /\ activeUpgradeJobs = 0
<1>1. /\ Busy = {}
      /\ {w \in Rendering : Jpeg(worker[w].job)} = {}
      /\ {w \in Rendering : worker[w].job.upgrade} = {}
  BY DEF Busy, Rendering
<1>2. QED
  BY <1>1, FS_EmptySet DEF CountersAgree

\* Some job can run when every slot is free.
LEMMA SomethingRuns ==
    ASSUME NEW ks \in SUBSET Jobs, RunnableJobs(ks) <= 0,
           activeJpegJobs = 0, activeUpgradeJobs = 0
    PROVE  ks = {}
<1> DEFINE upgrades == {j \in ks : j.upgrade}
           jpegs == {j \in ks \ upgrades : Jpeg(j)}
           plain == ks \ (upgrades \cup jpegs)
           a == Cardinality(plain)
           b == Cardinality(upgrades)
           c == Cardinality(jpegs)
<1>1. /\ a \in Nat /\ b \in Nat /\ c \in Nat
      /\ IsFiniteSet(plain) /\ IsFiniteSet(upgrades) /\ IsFiniteSet(jpegs)
  BY JobsAreFinite
<1>2. a = 0 /\ b = 0 /\ c = 0
  <2>1. RunnableJobs(ks)
           = a + Smaller(b, Larger(0, MaxUpgradeJobs - activeUpgradeJobs))
               + Smaller(c, Larger(0, MaxJpegJobs - activeJpegJobs))
    BY DEF RunnableJobs
  <2> HIDE DEF a, b, c
  <2>2. QED
    BY <1>1, <2>1, UpdaterAssumption DEF Smaller, Larger
<1>3. plain = {} /\ upgrades = {} /\ jpegs = {}
  BY <1>1, <1>2, FS_EmptySet
<1>4. QED
  BY <1>3

\* scheduleWorkersLocked_() lets the pool sleep only if nothing may run, or if
\* the hint says that nothing visible is queued.
LEMMA SleepIsDecided ==
    ASSUME TypeOK, CountersAgree, NEW js \in SUBSET Jobs, NEW v \in Nat,
           \A w \in Workers : worker[w].pc \in {"off", "left"},
           queuedWorkers + ScheduleWorkers(js, v) = 0
    PROVE  (paused /\ v = 0) \/ (IF paused THEN Visible(js) ELSE js) = {}
<1> DEFINE ks == IF paused THEN Visible(js) ELSE js
<1>1. active = 0 /\ activeJpegJobs = 0 /\ activeUpgradeJobs = 0
  BY IdleSlots
<1>2. ScheduleWorkers(js, v) = 0 /\ queuedWorkers = 0
  BY ScheduleKeepsToPool DEF TypeOK
<1>3. ks \in SUBSET Jobs /\ (js = {} => ks = {})
  BY DEF Visible
<1>4. MaxThreadCount \in Nat /\ WorkerLimit(v) \in Nat \ {0}
  <2>1. MaxThreadCount \in Nat
    BY WorkersAreFinite DEF MaxThreadCount
  <2>2. QED
    BY <2>1, UpdaterAssumption DEF WorkerLimit
<1>5. CASE ~ (js = {} \/ (paused /\ v = 0))
  <2>1. ScheduleWorkers(js, v)
           = Larger(0, Smaller(WorkerLimit(v) - active - queuedWorkers,
                               RunnableJobs(ks) - queuedWorkers))
    BY <1>5 DEF ScheduleWorkers
  <2>2. RunnableJobs(ks) \in Nat
    BY <1>1, <1>3, RunnableIsNat
  <2> HIDE DEF ks
  <2>3. RunnableJobs(ks) <= 0
    BY <1>1, <1>2, <1>4, <2>1, <2>2 DEF Smaller, Larger
  <2>4. ks = {}
    BY <1>1, <1>3, <2>3, SomethingRuns
  <2>5. QED
    BY <2>4 DEF ks
<1>6. QED
  BY <1>3, <1>5

\* No job is among none.
LEMMA NoneCounted ==
    ASSUME NEW js \in SUBSET Jobs, Cardinality(js) <= 0
    PROVE  js = {}
<1>1. Cardinality(js) = 0
  BY JobsAreFinite
<1>2. QED
  BY <1>1, JobsAreFinite, FS_EmptySet

\* When the hint says that nothing visible is queued, that is so.
LEMMA HintIsTrue ==
    ASSUME TypeOK, VisibleIsCounted, ~ gui.changed, foregroundJobCount = 0
    PROVE  Visible(jobs) = {}
<1>1. Visible(jobs) \in SUBSET Jobs
  BY DEF TypeOK, Visible
<1>2. Cardinality(Visible(jobs)) <= 0
  BY DEF VisibleIsCounted
<1>3. QED
  BY <1>1, <1>2, NoneCounted

\* The GTK thread leaves nothing behind that may run.
LEMMA GuiLetsNobodySleep ==
    ASSUME SafetyInv, SafetyInv', SleepIsJustified, UserStep \/ GuiStep
    PROVE  SleepIsJustified'
<1> SUFFICES ASSUME PoolSleeps', ~ gui'.changed, gui'.pc # "resume"
             PROVE  Wanted' = {}
  BY DEF SleepIsJustified
<1> USE DEF SafetyInv, IInv
<1>0. /\ jobs \in SUBSET Jobs /\ queuedWorkers \in Nat
      /\ foregroundJobCount \in Nat
      /\ gui.pc = "idle" => ~ gui.changed
  BY DEF TypeOK, ThreadShape
<1>1. ASSUME UNCHANGED <<worker, queuedWorkers>>,
             ~ gui.changed, gui.pc # "resume"
      PROVE  Wanted = {}
  BY <1>1 DEF SleepIsJustified, PoolSleeps, At
<1>2. ASSUME UNCHANGED worker PROVE \A w \in Workers : worker[w].pc \in {"off", "left"}
  BY <1>2 DEF PoolSleeps, At
<1>3. ASSUME NEW js \in SUBSET Jobs, AddJobs(js),
             UNCHANGED <<paused, updatepriority>>,
             ~ gui.changed, gui.pc # "resume"
      PROVE  Wanted' = {}
  <2> DEFINE visible == foregroundJobCount + CountVisible(js \ jobs)
  <2>1. visible \in Nat /\ jobs' = jobs \cup js /\ UNCHANGED worker
    BY <1>3, CountIsSafe DEF AddJobs
  <2>2. CASE js \subseteq jobs
    <3>1. jobs' = jobs /\ queuedWorkers' = queuedWorkers
      BY <1>3, <2>2 DEF AddJobs
    <3>2. QED
      BY <1>1, <1>3, <2>1, <3>1 DEF Wanted, Visible, Foreground
  <2>3. CASE ~ (js \subseteq jobs)
    <3>1. /\ queuedWorkers' = queuedWorkers + ScheduleWorkers(jobs \cup js, visible)
          /\ foregroundJobCount' = visible
      BY <1>3, <2>3 DEF AddJobs
    <3>2. queuedWorkers + ScheduleWorkers(jobs \cup js, visible) = 0
      BY <3>1 DEF PoolSleeps
    <3> HIDE DEF visible
    <3>3. \/ paused /\ visible = 0
          \/ (IF paused THEN Visible(jobs \cup js) ELSE jobs \cup js) = {}
      BY <1>0, <1>2, <2>1, <3>2, SleepIsDecided
    <3>4. CASE paused /\ visible = 0
      <4>1. Visible(jobs)' \in SUBSET Jobs
        BY DEF TypeOK, Visible
      <4>2. Cardinality(Visible(jobs)') <= 0
        BY <3>1, <3>4 DEF VisibleIsCounted
      <4>3. Visible(jobs)' = {}
        BY <4>1, <4>2, NoneCounted
      <4>4. QED
        BY <1>3, <3>4, <4>3 DEF Wanted
    <3>5. QED
      BY <1>3, <2>1, <3>3, <3>4 DEF Wanted, Visible, Foreground
  <2>4. QED
    BY <2>2, <2>3
<1>4. ASSUME NEW e \in Entries, CreateEntry(e) PROVE Wanted' = {}
  <2>1. Wanted = {}
    BY <1>0, <1>1, <1>4 DEF CreateEntry, queueVars, countVars
  <2>2. Wanted' \subseteq Wanted
    BY <1>0, <1>4 DEF CreateEntry, queueVars, Wanted, Visible, Foreground, TypeOK, Jobs
  <2>3. QED
    BY <2>1, <2>2
<1>5. ASSUME NEW e \in Entries, RemoveJobs(e) PROVE Wanted' = {}
  <2>1. \A w \in Workers : worker'[w].pc = worker[w].pc
    BY <1>5 DEF RemoveJobs, TypeOK, WorkerStates
  <2>2. Wanted = {}
    BY <1>0, <1>5, <2>1 DEF RemoveJobs, SleepIsJustified, PoolSleeps, At
  <2>3. Wanted' \subseteq Wanted
    BY <1>5 DEF RemoveJobs, Wanted, Visible, Foreground
  <2>4. QED
    BY <2>2, <2>3
<1>6. ASSUME NEW visible \in SUBSET Shown, NEW requests \in Requests(visible),
             Draw(visible, requests)
      PROVE  Wanted' = {}
  <2>1. Wanted = {}
    BY <1>0, <1>1, <1>6 DEF Draw, queueVars, countVars
  <2>2. updatepriority' = updatepriority
    BY <1>6 DEF Draw, TypeOK, GuiStates
  <2>3. QED
    BY <1>6, <2>1, <2>2 DEF Draw, queueVars, Wanted, Visible, Foreground
<1>7. ASSUME NEW j \in Jobs, Refresh(j) PROVE Wanted' = {}
  BY <1>0, <1>3, <1>7 DEF Refresh, browserVars
<1>8. CASE Pause
  <2>1. Wanted = {}
    BY <1>0, <1>1, <1>8 DEF Pause, queueVars, countVars
  <2>2. Wanted' \subseteq Wanted
    BY <1>8 DEF Pause, queueVars, Wanted, Visible, Foreground
  <2>3. QED
    BY <2>1, <2>2
<1>9. CASE Resume
  BY <1>9 DEF Resume, TypeOK, GuiStates
<1>10. CASE RemoveAllJobs
  BY <1>10 DEF RemoveAllJobs, Wanted, Visible
<1>11. CASE QueueVisible
  <2>1. ~ gui.changed /\ gui.pc # "resume" /\ gui.batch \in SUBSET Jobs
    BY <1>11 DEF QueueVisible, TypeOK, GuiStates
  <2>2. QED
    BY <1>3, <1>11, <2>1 DEF QueueVisible
<1>12. CASE PrioritiesChanged
  <2> DEFINE visible == Cardinality(Visible(jobs))
  <2>1. /\ UNCHANGED <<worker, jobs, paused, updatepriority>>
        /\ queuedWorkers + ScheduleWorkers(jobs, visible) = 0
    BY <1>12 DEF PrioritiesChanged, PoolSleeps
  <2>2. visible \in Nat /\ (visible = 0 => Visible(jobs) = {})
    <3>1. Visible(jobs) \in SUBSET Jobs
      BY <1>0 DEF Visible
    <3>2. QED
      BY <3>1, JobsAreFinite, FS_EmptySet
  <2> HIDE DEF visible
  <2>3. Wanted = {}
    BY <1>0, <1>2, <2>1, <2>2, SleepIsDecided DEF Wanted
  <2>4. QED
    BY <2>1, <2>3 DEF Wanted, Visible, Foreground
<1>13. CASE ResumeSchedule
  <2>1. /\ UNCHANGED <<worker, jobs, paused, updatepriority, foregroundJobCount>>
        /\ queuedWorkers + ScheduleWorkers(jobs, foregroundJobCount) = 0
        /\ ~ gui.changed
    BY <1>13 DEF ResumeSchedule, ResumeWorkers, PoolSleeps, ThreadShape
  <2>2. (paused /\ foregroundJobCount = 0) \/ Wanted = {}
    BY <1>0, <1>2, <2>1, SleepIsDecided DEF Wanted
  <2>3. Wanted = {}
    BY <2>1, <2>2, HintIsTrue DEF Wanted
  <2>4. QED
    BY <2>1, <2>3 DEF Wanted, Visible, Foreground
<1>14. CASE CloseBrowser
  <2>1. Wanted = {}
    BY <1>0, <1>1, <1>14 DEF CloseBrowser, queueVars, countVars, ThreadShape
  <2>2. Wanted' \subseteq Wanted
    BY <1>0, <1>14 DEF CloseBrowser, queueVars, Wanted, Visible, Foreground, Jobs
  <2>3. QED
    BY <2>1, <2>2
<1>15. ASSUME NEW e \in Entries, RemoveDone(e) PROVE Wanted' = {}
  <2>1. Wanted = {}
    BY <1>0, <1>1, <1>15 DEF RemoveDone, queueVars, countVars, ThreadShape
  <2>2. QED
    BY <1>15, <2>1 DEF RemoveDone, queueVars, Wanted, Visible, Foreground
<1>16. QED
  BY <1>4, <1>5, <1>6, <1>7, <1>8, <1>9, <1>10, <1>11, <1>12, <1>13, <1>14, <1>15
  DEF UserStep, GuiStep

\* The last worker that goes to sleep leaves nothing behind that may run.
LEMMA WorkersLeaveNothing ==
    ASSUME SafetyInv, SleepIsJustified, NEW w \in Workers, WorkerStep(w)
    PROVE  SleepIsJustified'
<1> SUFFICES ASSUME PoolSleeps', ~ gui'.changed, gui'.pc # "resume"
             PROVE  Wanted' = {}
  BY DEF SleepIsJustified
<1> USE DEF SafetyInv, IInv
<1>0. /\ jobs \in SUBSET Jobs /\ queuedWorkers \in Nat
      /\ foregroundJobCount \in Nat
      /\ worker \in [Workers -> WorkerStates]
  BY DEF TypeOK
<1>1. UNCHANGED browserVars /\ ~ gui.changed
  BY WorkersLeaveGui DEF browserVars
<1>2. worker'[w].pc = "off" /\ queuedWorkers' = 0
  BY DEF PoolSleeps, At
<1>3. StartWorker(w) \/ LeaveSchedule(w)
  <2>1. \A pc \in WorkerPCs \ {"off"} : ~ Goto(w, pc)
    BY <1>0, <1>2 DEF Goto, WorkerStates
  <2>2. ~ Shrink(w) /\ ~ GiveWay(w) /\ ~ TakeNothing(w) /\ ~ Leave(w)
    BY <2>1 DEF Shrink, GiveWay, TakeNothing, Leave, WorkerPCs
  <2>3. ~ BeginCallback(w)
    BY <2>1 DEF BeginCallback, WorkerPCs
  <2>4. ~ FinishJob(w) /\ ~ EndLease(w)
    BY <1>0, <1>2 DEF FinishJob, EndLease, At, Off, WorkerStates
  <2>5. ASSUME NEW j \in Jobs, TakeJob(w, j) PROVE FALSE
    <3>1. worker' # [worker EXCEPT ![w] = [pc |-> "process", job |-> j, orphan |-> FALSE]]
      BY <1>0, <1>2
    <3>2. ~ Goto(w, "again")
      BY <2>1 DEF WorkerPCs
    <3>3. QED
      BY <2>5, <3>1, <3>2 DEF TakeJob
  <2>6. QED
    BY <2>2, <2>3, <2>4, <2>5 DEF WorkerStep
<1>4. /\ UNCHANGED <<jobs, foregroundJobCount>>
      /\ Wanted' = Wanted
  BY <1>1, <1>3
  DEF StartWorker, LeaveSchedule, browserVars, Wanted, Visible, Foreground
<1>5. CASE StartWorker(w)
  <2>1. NothingToDo
    BY <1>0, <1>2, <1>5 DEF StartWorker, Goto, WorkerStates
  <2>2. QED
    BY <1>1, <1>4, <2>1, HintIsTrue DEF NothingToDo, Wanted, Visible
<1>6. CASE LeaveSchedule(w)
  <2>1. \A v \in Workers : worker[v].pc \in {"off", "left"}
    BY <1>0, <1>6 DEF LeaveSchedule, Goto, PoolSleeps, At
  <2>2. queuedWorkers + ScheduleWorkers(jobs, foregroundJobCount) = 0
    BY <1>2, <1>6 DEF LeaveSchedule, Successors
  <2>3. (paused /\ foregroundJobCount = 0) \/ Wanted = {}
    BY <1>0, <2>1, <2>2, SleepIsDecided DEF Wanted
  <2>4. QED
    BY <1>1, <1>4, <2>3, HintIsTrue DEF Wanted
<1>7. QED
  BY <1>3, <1>5, <1>6

\* The pool sleeps only when nothing may run.
THEOREM UpdaterSleepsWhenDone == Spec => []SleepIsJustified
<1>1. Init => SleepIsJustified
  BY DEF Init, SleepIsJustified, Wanted, Visible
<1>2. SafetyInv /\ SafetyInv' /\ SleepIsJustified /\ [Next]_vars => SleepIsJustified'
  <2> SUFFICES ASSUME SafetyInv, SafetyInv', SleepIsJustified, [Next]_vars
               PROVE  SleepIsJustified'
    OBVIOUS
  <2>1. CASE Next
    BY <2>1, GuiLetsNobodySleep, WorkersLeaveNothing DEF Next
  <2>2. CASE UNCHANGED vars
    BY <2>2
    DEF vars, browserVars, SleepIsJustified, PoolSleeps, Wanted, Visible, Foreground, At
  <2>3. QED
    BY <2>1, <2>2
<1>3. QED
  BY <1>1, <1>2, InitEstablishes, StepKeeps, PTL DEF Spec

\* No job is stranded: while the GTK thread rests, a job that the pause does not
\* hold up has a worker that will look at the queue.
THEOREM UpdaterStrandsNoJob == Spec => []NoStrandedJob
<1>1. SafetyInv /\ SleepIsJustified => NoStrandedJob
  BY DEF SafetyInv, IInv, TypeOK, ThreadShape, SleepIsJustified, PoolSleeps, NoStrandedJob
<1>2. QED
  BY <1>1, InitEstablishes, StepKeeps, UpdaterSleepsWhenDone, PTL DEF Spec

=============================================================================
