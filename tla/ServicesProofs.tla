---------------------------- MODULE ServicesProofs -----------------------------
(***************************************************************************)
(* Proofs about what works beside the editor (MCServices): the previews of *)
(* a folder, the MCP server and the export queue.                          *)
(*                                                                         *)
(* The folder: NoFileLost counts what a worker has in its hands, also when *)
(* it is going to delete it, and so is not inductive.  Covered counts only *)
(* the jobs and batches of this generation, and those no check can stop    *)
(* any more; it is kept because jobs in the set are of this generation     *)
(* (JobsCurrent) and because a worker that leaves has nothing left         *)
(* (EmptyHands).                                                           *)
(*                                                                         *)
(* The server: a request that is answered does nothing any more because    *)
(* a task that can still run is the one its request waits for              *)
(* (TasksAreAwaited), because no slot is used for two tasks                *)
(* (SlotsAreFresh), and because what a request has done shows in how far   *)
(* it is (EffectsShow).                                                    *)
(*                                                                         *)
(* The export queue, until the program dies: ListInv ties the head of the  *)
(* list to the thread that develops it, so that the thread removes what    *)
(* it has developed.  FileInv adds the disk: at rest queue.csv is the list *)
(* because, whenever nobody is about to save, each of its lines is right   *)
(* or is still to be written (Written); and a parameter file is deleted    *)
(* only of a photo that has left for good (Owned).                         *)
(***************************************************************************)
EXTENDS MCServices, FiniteSetTheorems, SequenceTheorems, TLAPS

(* The previews of a folder. *)

Locals == [pc : PCs, job : Jobs \cup {NoJob}, batch : SUBSET Entries, gen : Nat,
           first : BOOLEAN, lastDir : Dirs, leaving : BOOLEAN]

Local(p, j, b, g, f, d, l) ==
    [pc |-> p, job |-> j, batch |-> b, gen |-> g, first |-> f, lastDir |-> d, leaving |-> l]

\* A single field of a worker's locals.
LEMMA LocalFields ==
    ASSUME NEW m \in Locals
    PROVE  /\ m = Local(m.pc, m.job, m.batch, m.gen, m.first, m.lastDir, m.leaving)
           /\ \A x : [m EXCEPT !.pc = x]
                        = Local(x, m.job, m.batch, m.gen, m.first, m.lastDir, m.leaving)
           /\ \A x : [m EXCEPT !.job = x]
                        = Local(m.pc, x, m.batch, m.gen, m.first, m.lastDir, m.leaving)
           /\ \A x : [m EXCEPT !.batch = x]
                        = Local(m.pc, m.job, x, m.gen, m.first, m.lastDir, m.leaving)
           /\ \A x : [m EXCEPT !.gen = x]
                        = Local(m.pc, m.job, m.batch, x, m.first, m.lastDir, m.leaving)
           /\ \A x : [m EXCEPT !.first = x]
                        = Local(m.pc, m.job, m.batch, m.gen, x, m.lastDir, m.leaving)
           /\ \A x : [m EXCEPT !.lastDir = x]
                        = Local(m.pc, m.job, m.batch, m.gen, m.first, x, m.leaving)
           /\ \A x : [m EXCEPT !.leaving = x]
                        = Local(m.pc, m.job, m.batch, m.gen, m.first, m.lastDir, x)
BY DEF Locals, Local

\* Locals put together from fields of the right types.
LEMMA LocalIn ==
    ASSUME NEW p \in PCs, NEW j \in Jobs \cup {NoJob}, NEW b \in SUBSET Entries, NEW g \in Nat,
           NEW f \in BOOLEAN, NEW d \in Dirs, NEW l \in BOOLEAN
    PROVE  /\ Local(p, j, b, g, f, d, l) \in Locals
           /\ Local(p, j, b, g, f, d, l).pc = p
           /\ Local(p, j, b, g, f, d, l).job = j
           /\ Local(p, j, b, g, f, d, l).batch = b
           /\ Local(p, j, b, g, f, d, l).gen = g
           /\ Local(p, j, b, g, f, d, l).first = f
           /\ Local(p, j, b, g, f, d, l).lastDir = d
           /\ Local(p, j, b, g, f, d, l).leaving = l
BY DEF Locals, Local

\* The fields of a worker's locals have their types.
LEMMA LocalOut ==
    ASSUME NEW m \in Locals
    PROVE  /\ m.pc \in PCs /\ m.job \in Jobs \cup {NoJob} /\ m.batch \in SUBSET Entries
           /\ m.gen \in Nat /\ m.first \in BOOLEAN /\ m.lastDir \in Dirs
           /\ m.leaving \in BOOLEAN
BY DEF Locals

\* Two and three of them.
LEMMA PcAndJob ==
    ASSUME NEW m \in Locals, NEW p \in PCs, NEW j \in Jobs \cup {NoJob}
    PROVE  [m EXCEPT !.pc = p, !.job = j]
               = Local(p, j, m.batch, m.gen, m.first, m.lastDir, m.leaving)
<1> DEFINE n == [m EXCEPT !.pc = p]
<1>1. [m EXCEPT !.pc = p, !.job = j] = [n EXCEPT !.job = j]
  OBVIOUS
<1>2. n = Local(p, m.job, m.batch, m.gen, m.first, m.lastDir, m.leaving)
  BY LocalFields
<1> HIDE DEF n
<1>3. /\ n \in Locals /\ n.pc = p /\ n.batch = m.batch /\ n.gen = m.gen /\ n.first = m.first
      /\ n.lastDir = m.lastDir /\ n.leaving = m.leaving
  BY <1>2 DEF Local, Locals
<1>4. QED
  BY <1>1, <1>3, LocalFields

\* As a worker that is going to leave sets them.
LEMMA PcAndLeaving ==
    ASSUME NEW m \in Locals, NEW p \in PCs, NEW l \in BOOLEAN
    PROVE  [m EXCEPT !.pc = p, !.leaving = l]
               = Local(p, m.job, m.batch, m.gen, m.first, m.lastDir, l)
<1> DEFINE n == [m EXCEPT !.pc = p]
<1>1. [m EXCEPT !.pc = p, !.leaving = l] = [n EXCEPT !.leaving = l]
  OBVIOUS
<1>2. n = Local(p, m.job, m.batch, m.gen, m.first, m.lastDir, m.leaving)
  BY LocalFields
<1> HIDE DEF n
<1>3. /\ n \in Locals /\ n.pc = p /\ n.batch = m.batch /\ n.gen = m.gen /\ n.first = m.first
      /\ n.lastDir = m.lastDir /\ n.job = m.job
  BY <1>2 DEF Local, Locals
<1>4. QED
  BY <1>1, <1>3, LocalFields

\* As a worker sets them that has its thumbnail.
LEMMA BatchAndPc ==
    ASSUME NEW m \in Locals, NEW p \in PCs, NEW b \in SUBSET Entries
    PROVE  [m EXCEPT !.batch = b, !.pc = p]
               = Local(p, m.job, b, m.gen, m.first, m.lastDir, m.leaving)
<1> DEFINE n == [m EXCEPT !.batch = b]
<1>1. [m EXCEPT !.batch = b, !.pc = p] = [n EXCEPT !.pc = p]
  OBVIOUS
<1>2. n = Local(m.pc, m.job, b, m.gen, m.first, m.lastDir, m.leaving)
  BY LocalFields
<1> HIDE DEF n
<1>3. /\ n \in Locals /\ n.job = m.job /\ n.batch = b /\ n.gen = m.gen /\ n.first = m.first
      /\ n.lastDir = m.lastDir /\ n.leaving = m.leaving
  BY <1>2 DEF Local, Locals
<1>4. QED
  BY <1>1, <1>3, LocalFields

\* Three of them.
LEMMA PcBatchAndGen ==
    ASSUME NEW m \in Locals, NEW p \in PCs, NEW b \in SUBSET Entries, NEW g \in Nat
    PROVE  [m EXCEPT !.pc = p, !.batch = b, !.gen = g]
               = Local(p, m.job, b, g, m.first, m.lastDir, m.leaving)
<1> DEFINE n == [m EXCEPT !.pc = p]
           k == [n EXCEPT !.batch = b]
<1>1. [m EXCEPT !.pc = p, !.batch = b, !.gen = g] = [k EXCEPT !.gen = g]
  OBVIOUS
<1>2. n = Local(p, m.job, m.batch, m.gen, m.first, m.lastDir, m.leaving)
  BY LocalFields
<1> HIDE DEF n
<1>3. /\ n \in Locals /\ n.pc = p /\ n.job = m.job /\ n.gen = m.gen /\ n.first = m.first
      /\ n.lastDir = m.lastDir /\ n.leaving = m.leaving
  BY <1>2 DEF Local, Locals
<1>4. k = Local(p, m.job, b, m.gen, m.first, m.lastDir, m.leaving)
  BY <1>3, LocalFields
<1> HIDE DEF k
<1>5. /\ k \in Locals /\ k.pc = p /\ k.job = m.job /\ k.batch = b /\ k.first = m.first
      /\ k.lastDir = m.lastDir /\ k.leaving = m.leaving
  BY <1>4 DEF Local, Locals
<1>6. QED
  BY <1>1, <1>5, LocalFields

\* One worker's locals.
LEMMA OneWorker ==
    ASSUME NEW f \in [Workers -> Locals], NEW w \in Workers, NEW m \in Locals
    PROVE  /\ [f EXCEPT ![w] = m] \in [Workers -> Locals]
           /\ [f EXCEPT ![w] = m][w] = m
           /\ \A v \in Workers \ {w} : [f EXCEPT ![w] = m][v] = f[v]
OBVIOUS

\* Four fields, as Delivered and Account set them.
AfterDelivery(f, w, p, b, g, x) ==
    [f EXCEPT ![w].pc = p, ![w].batch = b, ![w].gen = g, ![w].first = x]

AfterJob(f, w, p, l, d, j) ==
    [f EXCEPT ![w].pc = p, ![w].leaving = l, ![w].lastDir = d, ![w].job = j]

\* AfterDelivery gives the worker w these locals.
LEMMA DeliveredLocals ==
    ASSUME NEW f \in [Workers -> Locals], NEW w \in Workers, NEW p \in PCs,
           NEW b \in SUBSET Entries, NEW g \in Nat, NEW x \in BOOLEAN
    PROVE  AfterDelivery(f, w, p, b, g, x)
               = [f EXCEPT ![w] = Local(p, f[w].job, b, g, x, f[w].lastDir, f[w].leaving)]
<1> DEFINE m1 == [f[w] EXCEPT !.pc = p]
           m2 == [m1 EXCEPT !.batch = b]
           m3 == [m2 EXCEPT !.gen = g]
           m4 == [m3 EXCEPT !.first = x]
<1>1. AfterDelivery(f, w, p, b, g, x)
          = [[[[f EXCEPT ![w].pc = p] EXCEPT ![w].batch = b] EXCEPT ![w].gen = g]
                EXCEPT ![w].first = x]
  BY DEF AfterDelivery
<1>2. [f EXCEPT ![w].pc = p] = [f EXCEPT ![w] = m1]
  OBVIOUS
<1>3. f[w] \in Locals
  OBVIOUS
<1>4. m1 = Local(p, f[w].job, f[w].batch, f[w].gen, f[w].first, f[w].lastDir, f[w].leaving)
  BY <1>3, LocalFields
<1> HIDE DEF m1
<1>5. m1 \in Locals /\ m1.pc = p /\ m1.job = f[w].job /\ m1.gen = f[w].gen
      /\ m1.first = f[w].first /\ m1.lastDir = f[w].lastDir /\ m1.leaving = f[w].leaving
  BY <1>3, <1>4 DEF Local, Locals
<1>6. [[f EXCEPT ![w] = m1] EXCEPT ![w].batch = b] = [f EXCEPT ![w] = m2]
  OBVIOUS
<1>7. m2 = Local(p, f[w].job, b, f[w].gen, f[w].first, f[w].lastDir, f[w].leaving)
  BY <1>5, LocalFields
<1> HIDE DEF m2
<1>8. m2 \in Locals /\ m2.pc = p /\ m2.job = f[w].job /\ m2.batch = b
      /\ m2.first = f[w].first /\ m2.lastDir = f[w].lastDir /\ m2.leaving = f[w].leaving
  BY <1>3, <1>7 DEF Local, Locals
<1>9. [[f EXCEPT ![w] = m2] EXCEPT ![w].gen = g] = [f EXCEPT ![w] = m3]
  OBVIOUS
<1>10. m3 = Local(p, f[w].job, b, g, f[w].first, f[w].lastDir, f[w].leaving)
  BY <1>8, LocalFields
<1> HIDE DEF m3
<1>11. m3 \in Locals /\ m3.pc = p /\ m3.job = f[w].job /\ m3.batch = b /\ m3.gen = g
      /\ m3.lastDir = f[w].lastDir /\ m3.leaving = f[w].leaving
  BY <1>3, <1>10 DEF Local, Locals
<1>12. [[f EXCEPT ![w] = m3] EXCEPT ![w].first = x] = [f EXCEPT ![w] = m4]
  OBVIOUS
<1>13. m4 = Local(p, f[w].job, b, g, x, f[w].lastDir, f[w].leaving)
  BY <1>11, LocalFields, SMTT(20), ZenonT(20)
<1> HIDE DEF m4
<1>14. [[f EXCEPT ![w].pc = p] EXCEPT ![w].batch = b] = [f EXCEPT ![w] = m2]
  BY <1>2, <1>6
<1>15. [[[f EXCEPT ![w].pc = p] EXCEPT ![w].batch = b] EXCEPT ![w].gen = g]
           = [f EXCEPT ![w] = m3]
  BY <1>9, <1>14
<1>16. QED
  BY <1>1, <1>12, <1>13, <1>15

\* AfterJob gives the worker w these locals.
LEMMA AccountLocals ==
    ASSUME NEW f \in [Workers -> Locals], NEW w \in Workers, NEW p \in PCs, NEW l \in BOOLEAN,
           NEW d \in Dirs, NEW j \in Jobs \cup {NoJob}
    PROVE  AfterJob(f, w, p, l, d, j)
               = [f EXCEPT ![w] = Local(p, j, f[w].batch, f[w].gen, f[w].first, d, l)]
<1> DEFINE m1 == [f[w] EXCEPT !.pc = p]
           m2 == [m1 EXCEPT !.leaving = l]
           m3 == [m2 EXCEPT !.lastDir = d]
           m4 == [m3 EXCEPT !.job = j]
<1>1. AfterJob(f, w, p, l, d, j)
          = [[[[f EXCEPT ![w].pc = p] EXCEPT ![w].leaving = l] EXCEPT ![w].lastDir = d]
                EXCEPT ![w].job = j]
  BY DEF AfterJob
<1>2. [f EXCEPT ![w].pc = p] = [f EXCEPT ![w] = m1]
  OBVIOUS
<1>3. f[w] \in Locals
  OBVIOUS
<1>4. m1 = Local(p, f[w].job, f[w].batch, f[w].gen, f[w].first, f[w].lastDir, f[w].leaving)
  BY <1>3, LocalFields
<1> HIDE DEF m1
<1>5. m1 \in Locals /\ m1.pc = p /\ m1.job = f[w].job /\ m1.batch = f[w].batch
      /\ m1.gen = f[w].gen /\ m1.first = f[w].first /\ m1.lastDir = f[w].lastDir
  BY <1>3, <1>4 DEF Local, Locals
<1>6. [[f EXCEPT ![w] = m1] EXCEPT ![w].leaving = l] = [f EXCEPT ![w] = m2]
  OBVIOUS
<1>7. m2 = Local(p, f[w].job, f[w].batch, f[w].gen, f[w].first, f[w].lastDir, l)
  BY <1>5, LocalFields
<1> HIDE DEF m2
<1>8. m2 \in Locals /\ m2.pc = p /\ m2.job = f[w].job /\ m2.batch = f[w].batch
      /\ m2.gen = f[w].gen /\ m2.first = f[w].first /\ m2.leaving = l
  BY <1>3, <1>7 DEF Local, Locals
<1>9. [[f EXCEPT ![w] = m2] EXCEPT ![w].lastDir = d] = [f EXCEPT ![w] = m3]
  OBVIOUS
<1>10. m3 = Local(p, f[w].job, f[w].batch, f[w].gen, f[w].first, d, l)
  BY <1>8, LocalFields
<1> HIDE DEF m3
<1>11. m3 \in Locals /\ m3.pc = p /\ m3.batch = f[w].batch /\ m3.gen = f[w].gen
      /\ m3.first = f[w].first /\ m3.lastDir = d /\ m3.leaving = l
  BY <1>3, <1>10 DEF Local, Locals
<1>12. [[f EXCEPT ![w] = m3] EXCEPT ![w].job = j] = [f EXCEPT ![w] = m4]
  OBVIOUS
<1>13. m4 = Local(p, j, f[w].batch, f[w].gen, f[w].first, d, l)
  BY <1>11, LocalFields
<1> HIDE DEF m4
<1>14. [[f EXCEPT ![w].pc = p] EXCEPT ![w].leaving = l] = [f EXCEPT ![w] = m2]
  BY <1>2, <1>6
<1>15. [[[f EXCEPT ![w].pc = p] EXCEPT ![w].leaving = l] EXCEPT ![w].lastDir = d]
           = [f EXCEPT ![w] = m3]
  BY <1>9, <1>14
<1>16. QED
  BY <1>1, <1>12, <1>13, <1>15

CatalogTypes ==
    /\ selectedDir \in Dirs
    /\ scan \in [dir : Dirs, all : SUBSET Files, left : SUBSET Files]
    /\ posts \in Seq(Posts)
    /\ onDisk \subseteq Files /\ queuedKeys \subseteq Files /\ fileNameList \subseteq Files

FolderTypes ==
    /\ jobs \subseteq Jobs
    /\ generation \in Nat
    /\ worker \in [Workers -> Locals]
    /\ CatalogTypes

\* Only jobs of this generation are queued.
JobsCurrent == \A j \in jobs : j.gen = generation

\* A worker that has delivered has nothing left.
EmptyHands ==
    \A w \in Workers : worker[w].pc \in {"idle", "leave", "tail"} => worker[w].batch = {}

\* A worker with locals m has the entry e, and will deliver it.
Carries(m, e) ==
    \/ m.pc \in {"check", "load"} /\ m.job.gen = generation /\ m.job.entry = e
    \/ e \in m.batch /\ (m.gen = generation \/ m.pc \in {"filter", "append"})

Settled == browser \cup pending \cup failed \cup removed

CoveredBy(e) ==
    \/ e \in Settled
    \/ \E j \in jobs : j.entry = e
    \/ \E w \in Workers : Carries(worker[w], e)

\* A queued file of the folder that is open is not lost; unlike NoFileLost,
\* this does not count what a worker is going to delete.
Covered ==
    gui \in {"free", "finish"} =>
        \A f \in queuedKeys : CoveredBy(<<selectedDir, f>>)

LoaderInv == FolderTypes /\ JobsCurrent /\ EmptyHands

\* A worker goes on with the locals m.
LEMMA HandOver ==
    ASSUME LoaderInv, NEW w \in Workers, NEW m \in Locals,
           worker' = [worker EXCEPT ![w] = m],
           UNCHANGED <<generation, selectedDir>>,
           m.pc \in {"idle", "leave", "tail"} => m.batch = {},
           Settled \subseteq Settled',
           \A e : e[1] = selectedDir /\ Carries(worker[w], e) => Carries(m, e) \/ e \in Settled',
           \A j \in jobs : j \in jobs' \/ Carries(m, j.entry)
    PROVE  /\ worker' \in [Workers -> Locals]
           /\ EmptyHands'
           /\ \A e : e[1] = selectedDir /\ CoveredBy(e) => CoveredBy(e)'
<1>1. /\ worker' \in [Workers -> Locals]
      /\ worker'[w] = m
      /\ \A v \in Workers \ {w} : worker'[v] = worker[v]
  BY OneWorker DEF LoaderInv, FolderTypes
<1>2. EmptyHands'
  BY <1>1 DEF LoaderInv, EmptyHands
<1>3. ASSUME NEW e, e[1] = selectedDir, CoveredBy(e)
      PROVE  CoveredBy(e)'
  <2>1. CASE e \in Settled
    BY <2>1 DEF CoveredBy
  <2>2. Carries(m, e) => CoveredBy(e)'
    BY <1>1 DEF CoveredBy, Carries
  <2>3. CASE \E j \in jobs : j.entry = e
    BY <2>2, <2>3 DEF CoveredBy
  <2>4. CASE \E v \in Workers : Carries(worker[v], e)
    <3>1. PICK v \in Workers : Carries(worker[v], e)
      BY <2>4
    <3>2. CASE v = w
      BY <1>3, <2>2, <3>1, <3>2 DEF CoveredBy
    <3>3. CASE v # w
      BY <1>1, <3>1, <3>3 DEF CoveredBy, Carries
    <3>4. QED
      BY <3>2, <3>3
  <2>5. QED
    BY <1>3, <2>1, <2>3, <2>4 DEF CoveredBy
<1>4. QED
  BY <1>1, <1>2, <1>3

\* What a step of a worker keeps.
Kept ==
    /\ worker' \in [Workers -> Locals]
    /\ EmptyHands'
    /\ \A e : e[1] = selectedDir /\ CoveredBy(e) => CoveredBy(e)'

Aside == UNCHANGED <<generation, selectedDir, browser, pending, failed, removed>>

\* A step of a worker that changes no locals keeps everything.
LEMMA StandStill ==
    ASSUME LoaderInv, UNCHANGED <<worker, generation>>, Settled \subseteq Settled',
           jobs \subseteq jobs'
    PROVE  Kept
BY DEF LoaderInv, FolderTypes, EmptyHands, CoveredBy, Carries, Kept

\* A thread that starts has nothing in its hands.
LEMMA StartKeeps ==
    ASSUME LoaderInv, NEW w \in Workers, Start(w), Aside
    PROVE  Kept
<1>1. worker[w] \in Locals
  BY DEF LoaderInv, FolderTypes
<1>2. worker[w].pc = "idle" /\ UNCHANGED jobs
  BY DEF Start
<1>3. CASE UNCHANGED worker
  BY <1>2, <1>3, StandStill DEF Aside, Settled
<1>4. CASE worker' = [worker EXCEPT ![w].pc = "pick"]
  <2> DEFINE m == [worker[w] EXCEPT !.pc = "pick"]
  <2>1. worker' = [worker EXCEPT ![w] = m]
    BY <1>4
  <2>2. m \in Locals /\ m.pc = "pick" /\ m.batch = worker[w].batch
    BY <1>1, LocalFields DEF Local, Locals, PCs
  <2>3. worker[w].batch = {}
    BY <1>2 DEF LoaderInv, EmptyHands
  <2> HIDE DEF m
  <2>4. \A e : ~Carries(worker[w], e)
    BY <1>2, <2>3 DEF Carries
  <2>5. QED
    BY <1>2, <2>1, <2>2, <2>4, HandOver DEF Kept, Aside, Settled
<1>5. QED
  BY <1>3, <1>4 DEF Start

\* The job a worker takes out of the set is in its hands.
LEMMA PickKeeps ==
    ASSUME LoaderInv, NEW w \in Workers, Pick(w), Aside
    PROVE  Kept
<1>1. worker[w] \in Locals
  BY DEF LoaderInv, FolderTypes
<1>2. worker[w].pc = "pick"
  BY DEF Pick
<1>3. CASE /\ worker' = [worker EXCEPT ![w].pc = "flush", ![w].leaving = TRUE]
           /\ UNCHANGED jobs
  <2> DEFINE m == [worker[w] EXCEPT !.pc = "flush", !.leaving = TRUE]
  <2>1. worker' = [worker EXCEPT ![w] = m]
    BY <1>1, <1>3
  <2>2. m = Local("flush", worker[w].job, worker[w].batch, worker[w].gen, worker[w].first,
                  worker[w].lastDir, TRUE)
    BY <1>1, PcAndLeaving DEF PCs
  <2>3. m \in Locals /\ m.pc = "flush" /\ m.batch = worker[w].batch /\ m.gen = worker[w].gen
    BY <1>1, <2>2 DEF Local, Locals, PCs
  <2> HIDE DEF m
  <2>4. \A e : Carries(worker[w], e) => Carries(m, e)
    BY <1>2, <2>3 DEF Carries
  <2>5. QED
    BY <1>3, <2>1, <2>3, <2>4, HandOver DEF Kept, Aside, Settled
<1>4. CASE \E j \in jobs : /\ jobs' = jobs \ {j}
                           /\ worker' = [worker EXCEPT ![w].pc = "check", ![w].job = j]
  <2>1. PICK j \in jobs : /\ jobs' = jobs \ {j}
                          /\ worker' = [worker EXCEPT ![w].pc = "check", ![w].job = j]
    BY <1>4
  <2> DEFINE m == [worker[w] EXCEPT !.pc = "check", !.job = j]
  <2>2. worker' = [worker EXCEPT ![w] = m]
    BY <1>1, <2>1
  <2>3. j \in Jobs /\ j.gen = generation
    BY Zenon DEF LoaderInv, FolderTypes, JobsCurrent
  <2>4. m = Local("check", j, worker[w].batch, worker[w].gen, worker[w].first,
                  worker[w].lastDir, worker[w].leaving)
    BY <1>1, <2>3, PcAndJob DEF PCs
  <2>5. /\ m \in Locals /\ m.pc = "check" /\ m.job = j
        /\ m.batch = worker[w].batch /\ m.gen = worker[w].gen
    BY <1>1, <2>3, <2>4 DEF Local, Locals, PCs
  <2> HIDE DEF m
  <2>6. \A e : Carries(worker[w], e) => Carries(m, e)
    BY <1>2, <2>5 DEF Carries
  <2>7. Carries(m, j.entry)
    BY <2>3, <2>5 DEF Carries
  <2>8. QED
    BY <2>1, <2>2, <2>5, <2>6, <2>7, HandOver DEF Kept, Aside, Settled
<1>5. QED
  BY <1>3, <1>4 DEF Pick

\* A worker lets go of a job only when the generation has moved on.
LEMMA CheckKeeps ==
    ASSUME LoaderInv, NEW w \in Workers, CheckJob(w), Aside
    PROVE  Kept
<1>1. worker[w] \in Locals
  BY DEF LoaderInv, FolderTypes
<1>2. worker[w].pc = "check" /\ UNCHANGED jobs
  BY DEF CheckJob
<1> DEFINE m == IF worker[w].job.gen = generation THEN [worker[w] EXCEPT !.pc = "load"]
                ELSE [worker[w] EXCEPT !.pc = "pick", !.job = NoJob]
<1>3. worker' = [worker EXCEPT ![w] = m]
  BY <1>1 DEF CheckJob, LoaderInv, FolderTypes
<1>4. CASE worker[w].job.gen = generation
  <2>1. m = Local("load", worker[w].job, worker[w].batch, worker[w].gen, worker[w].first,
                  worker[w].lastDir, worker[w].leaving)
    BY <1>1, <1>4, LocalFields
  <2> HIDE DEF m
  <2>2. /\ m \in Locals /\ m.pc = "load" /\ m.job = worker[w].job
        /\ m.batch = worker[w].batch /\ m.gen = worker[w].gen
    BY <1>1, <2>1 DEF Local, Locals, PCs
  <2>3. \A e : Carries(worker[w], e) => Carries(m, e)
    BY <1>2, <2>2 DEF Carries
  <2>4. QED
    BY <1>2, <1>3, <2>2, <2>3, HandOver DEF Kept, Aside, Settled
<1>5. CASE worker[w].job.gen # generation
  <2>1. m = Local("pick", NoJob, worker[w].batch, worker[w].gen, worker[w].first,
                  worker[w].lastDir, worker[w].leaving)
    BY <1>1, <1>5, PcAndJob DEF PCs
  <2> HIDE DEF m
  <2>2. /\ m \in Locals /\ m.pc = "pick"
        /\ m.batch = worker[w].batch /\ m.gen = worker[w].gen
    BY <1>1, <2>1 DEF Local, Locals, PCs
  <2>3. \A e : Carries(worker[w], e) => Carries(m, e)
    BY <1>2, <1>5, <2>2 DEF Carries
  <2>4. QED
    BY <1>2, <1>3, <2>2, <2>3, HandOver DEF Kept, Aside, Settled
<1>6. QED
  BY <1>4, <1>5

\* The thumbnail of the job joins the batch, or the file has failed.
LEMMA LoadKeeps ==
    ASSUME LoaderInv, NEW w \in Workers, LoadFile(w)
    PROVE  Kept
<1>1. worker[w] \in Locals
  BY DEF LoaderInv, FolderTypes
<1>2. /\ worker[w].pc = "load"
      /\ UNCHANGED <<jobs, generation, selectedDir, browser, pending, removed>>
      /\ failed' = IF worker[w].job.entry[2] \in onDisk THEN failed
                   ELSE failed \cup {worker[w].job.entry}
  BY DEF LoadFile, Load, batch, shown
<1> DEFINE mine == worker[w].job
           before == IF worker[w].gen = mine.gen THEN worker[w].batch ELSE {}
           new == before \cup {mine.entry}
<1>3. PICK p \in {"flush", "account"} :
        worker' = [worker EXCEPT ![w] =
            IF mine.entry[2] \notin onDisk THEN [worker[w] EXCEPT !.pc = "account"]
            ELSE IF mine.gen # generation THEN [worker[w] EXCEPT !.pc = "pick", !.job = NoJob]
            ELSE [worker[w] EXCEPT !.pc = p, !.batch = new, !.gen = mine.gen]]
  BY DEF LoadFile, Load
<1>4. Settled \subseteq Settled'
  BY <1>2 DEF Settled
<1>5. CASE mine.entry[2] \notin onDisk
  <2> DEFINE m == [worker[w] EXCEPT !.pc = "account"]
  <2>1. worker' = [worker EXCEPT ![w] = m]
    BY <1>3, <1>5
  <2>2. m = Local("account", mine, worker[w].batch, worker[w].gen, worker[w].first,
                  worker[w].lastDir, worker[w].leaving)
    BY <1>1, LocalFields
  <2> HIDE DEF m
  <2>3. /\ m \in Locals /\ m.pc = "account"
        /\ m.batch = worker[w].batch /\ m.gen = worker[w].gen
    BY <1>1, <2>2 DEF Local, Locals, PCs
  <2>4. mine.entry \in Settled'
    BY <1>2, <1>5 DEF Settled
  <2>5. \A e : Carries(worker[w], e) => Carries(m, e) \/ e \in Settled'
    BY <1>2, <2>3, <2>4 DEF Carries
  <2> HIDE DEF mine
  <2>6. QED
    BY <1>2, <1>4, <2>1, <2>3, <2>5, HandOver DEF Kept
<1>6. CASE mine.entry[2] \in onDisk /\ mine.gen # generation
  <2> DEFINE m == [worker[w] EXCEPT !.pc = "pick", !.job = NoJob]
  <2>1. worker' = [worker EXCEPT ![w] = m]
    BY <1>3, <1>6
  <2>2. m = Local("pick", NoJob, worker[w].batch, worker[w].gen, worker[w].first,
                  worker[w].lastDir, worker[w].leaving)
    BY <1>1, PcAndJob DEF PCs
  <2> HIDE DEF m
  <2>3. /\ m \in Locals /\ m.pc = "pick"
        /\ m.batch = worker[w].batch /\ m.gen = worker[w].gen
    BY <1>1, <2>2 DEF Local, Locals, PCs
  <2>4. \A e : Carries(worker[w], e) => Carries(m, e)
    BY <1>2, <1>6, <2>3 DEF Carries
  <2>5. QED
    BY <1>2, <1>4, <2>1, <2>3, <2>4, HandOver DEF Kept
<1>7. CASE mine.entry[2] \in onDisk /\ mine.gen = generation
  <2> DEFINE m == [worker[w] EXCEPT !.pc = p, !.batch = new, !.gen = mine.gen]
  <2>1. worker' = [worker EXCEPT ![w] = m]
    BY <1>3, <1>7
  <2>2. mine \in Jobs
    BY <1>1, <1>7, LoaderAssumption DEF Locals, NoJob, LoaderInv, FolderTypes, CatalogTypes
  <2>3. new \in SUBSET Entries /\ mine.gen \in Nat
    <3>1. worker[w].batch \in SUBSET Entries
      BY <1>1 DEF Locals
    <3>2. mine.entry \in Entries /\ mine.gen \in Nat
      BY <2>2 DEF Jobs
    <3>3. QED
      BY <3>1, <3>2
  <2>4. m = Local(p, mine, new, mine.gen, worker[w].first, worker[w].lastDir, worker[w].leaving)
    <3>1. p \in PCs
      BY DEF PCs
    <3> HIDE DEF new
    <3>2. QED
      BY <1>1, <2>3, <3>1, PcBatchAndGen
  <2>5. /\ m \in Locals /\ m.pc = p /\ m.batch = new /\ m.gen = generation
    BY <1>1, <1>7, <2>3, <2>4 DEF Local, Locals, PCs
  <2>6. \A e : Carries(worker[w], e) => e \in new
    BY <1>2, <1>7 DEF Carries
  <2> HIDE DEF m, mine, new
  <2>7. \A e : Carries(worker[w], e) => Carries(m, e)
    BY <2>5, <2>6 DEF Carries
  <2>8. QED
    BY <1>2, <1>4, <2>1, <2>5, <2>7, HandOver DEF Kept
<1>8. QED
  BY <1>5, <1>6, <1>7

\* A batch that is flushed is on its way unless its generation is over.
LEMMA FlushKeeps ==
    ASSUME LoaderInv, NEW w \in Workers, Flush(w), Aside
    PROVE  Kept
<1>1. worker[w] \in Locals
  BY DEF LoaderInv, FolderTypes
<1>2. worker[w].pc = "flush" /\ UNCHANGED jobs
  BY DEF Flush
<1>3. CASE worker[w].batch # {} /\ worker[w].gen = generation
  <2> DEFINE m == [worker[w] EXCEPT !.pc = "filter"]
  <2>1. worker' = [worker EXCEPT ![w] = m]
    BY <1>1, <1>3 DEF Flush, LoaderInv, FolderTypes
  <2>2. m = Local("filter", worker[w].job, worker[w].batch, worker[w].gen, worker[w].first,
                  worker[w].lastDir, worker[w].leaving)
    BY <1>1, LocalFields
  <2> HIDE DEF m
  <2>3. m \in Locals /\ m.pc = "filter" /\ m.batch = worker[w].batch
    BY <1>1, <2>2 DEF Local, Locals, PCs
  <2>4. \A e : Carries(worker[w], e) => Carries(m, e)
    BY <1>2, <2>3 DEF Carries
  <2>5. QED
    BY <1>2, <2>1, <2>3, <2>4, HandOver DEF Kept, Aside, Settled
<1>4. CASE ~(worker[w].batch # {} /\ worker[w].gen = generation)
  <2> DEFINE m == [worker[w] EXCEPT !.pc = AfterFlush(w), !.batch = {}, !.gen = 0]
  <2>1. worker' = [worker EXCEPT ![w] = m]
    BY <1>1, <1>4 DEF Flush, LoaderInv, FolderTypes
  <2>2. AfterFlush(w) \in PCs /\ {} \in SUBSET Entries /\ 0 \in Nat
    BY DEF AfterFlush, PCs
  <2>3. m = Local(AfterFlush(w), worker[w].job, {}, 0, worker[w].first,
                  worker[w].lastDir, worker[w].leaving)
    BY <1>1, <2>2, PcBatchAndGen
  <2> HIDE DEF m
  <2>4. m \in Locals /\ m.batch = {}
    BY <1>1, <2>2, <2>3 DEF Local, Locals
  <2>5. \A e : ~Carries(worker[w], e)
    BY <1>2, <1>4 DEF Carries
  <2>6. QED
    BY <1>2, <2>1, <2>4, <2>5, HandOver DEF Kept, Aside, Settled
<1>5. QED
  BY <1>3, <1>4

\* The catalog has the batch, or does not want it.
LEMMA DeliveredKeeps ==
    ASSUME LoaderInv, NEW w \in Workers, Delivered(w),
           worker[w].pc \in {"filter", "append"},
           UNCHANGED <<jobs, generation, selectedDir>>,
           Settled \subseteq Settled',
           \A e \in worker[w].batch : e[1] = selectedDir => e \in Settled'
    PROVE  Kept
<1>1. worker[w] \in Locals /\ worker \in [Workers -> Locals]
  BY DEF LoaderInv, FolderTypes
<1>2. AfterFlush(w) \in PCs /\ {} \in SUBSET Entries /\ 0 \in Nat /\ FALSE \in BOOLEAN
  BY DEF AfterFlush, PCs
<1> DEFINE m == Local(AfterFlush(w), worker[w].job, {}, 0, FALSE, worker[w].lastDir,
                      worker[w].leaving)
<1>3. worker' = [worker EXCEPT ![w] = m]
  <2>1. worker' = AfterDelivery(worker, w, AfterFlush(w), {}, 0, FALSE)
    BY DEF Delivered, AfterDelivery
  <2>2. AfterDelivery(worker, w, AfterFlush(w), {}, 0, FALSE) = [worker EXCEPT ![w] = m]
    <3>1. PICK b \in SUBSET Entries, g \in Nat, x \in BOOLEAN : b = {} /\ g = 0 /\ x = FALSE
      BY <1>2
    <3>2. AfterDelivery(worker, w, AfterFlush(w), b, g, x)
              = [worker EXCEPT ![w] = Local(AfterFlush(w), worker[w].job, b, g, x,
                                            worker[w].lastDir, worker[w].leaving)]
      BY <1>1, <1>2, DeliveredLocals
    <3>3. QED
      BY <3>1, <3>2
  <2>3. QED
    BY <2>1, <2>2
<1>4. m \in Locals /\ m.batch = {}
  BY <1>1, <1>2 DEF Local, Locals
<1> HIDE DEF m
<1>5. \A e : Carries(worker[w], e) => e \in worker[w].batch
  BY DEF Carries
<1>6. QED
  BY <1>3, <1>4, <1>5, HandOver DEF Kept

\* What the filter leaves out was of another folder.
LEMMA FilterKeeps ==
    ASSUME LoaderInv, NEW w \in Workers, Filter(w)
    PROVE  Kept
<1>1. worker[w] \in Locals
  BY DEF LoaderInv, FolderTypes
<1>2. /\ worker[w].pc = "filter"
      /\ UNCHANGED <<jobs, generation, selectedDir, browser, pending, failed, removed>>
  BY DEF Filter, batch, shown, world
<1> DEFINE keep == {e \in worker[w].batch : e[1] = selectedDir}
<1>3. CASE keep = {}
  <2>1. Delivered(w)
    BY <1>3 DEF Filter
  <2>2. QED
    BY <1>2, <1>3, <2>1, DeliveredKeeps DEF Settled
<1>4. CASE keep # {}
  <2> DEFINE m == [worker[w] EXCEPT !.batch = keep, !.pc = "append"]
  <2>1. worker' = [worker EXCEPT ![w] = m]
    <3>1. worker' = [worker EXCEPT ![w].batch = keep, ![w].pc = "append"]
      BY <1>4 DEF Filter
    <3> HIDE DEF keep
    <3>2. QED
      BY <1>1, <3>1
  <2>2. keep \in SUBSET Entries
    BY <1>1, Zenon DEF Locals
  <2>3. m = Local("append", worker[w].job, keep, worker[w].gen, worker[w].first,
                  worker[w].lastDir, worker[w].leaving)
    BY <1>1, <2>2, BatchAndPc DEF PCs
  <2> HIDE DEF m
  <2>4. m \in Locals /\ m.pc = "append" /\ m.batch = keep
    BY <1>1, <2>2, <2>3 DEF Local, Locals, PCs
  <2>5. \A e : e[1] = selectedDir /\ Carries(worker[w], e) => Carries(m, e)
    BY <1>2, <2>4 DEF Carries
  <2>6. QED
    BY <1>2, <2>1, <2>4, <2>5, HandOver DEF Kept, Settled
<1>5. QED
  BY <1>3, <1>4

\* What a worker appends is pending.
LEMMA AppendKeeps ==
    ASSUME LoaderInv, NEW w \in Workers, AppendBatch(w)
    PROVE  Kept
<1>1. /\ worker[w].pc = "append" /\ Delivered(w)
      /\ pending' = pending \cup worker[w].batch
      /\ UNCHANGED <<jobs, generation, selectedDir, browser, failed, removed>>
  BY DEF AppendBatch, shown, world
<1>2. QED
  BY <1>1, DeliveredKeeps DEF Settled

\* A worker that retires flushes its batch before it leaves.
LEMMA AccountKeeps ==
    ASSUME LoaderInv, NEW w \in Workers, Account(w), Aside
    PROVE  Kept
<1>1. worker[w] \in Locals /\ worker \in [Workers -> Locals]
  BY DEF LoaderInv, FolderTypes
<1>2. worker[w].pc = "account" /\ UNCHANGED jobs
  BY Zenon DEF Account
<1>3. PICK p \in {"flush", "pick"}, l \in BOOLEAN :
        worker' = [worker EXCEPT ![w].pc = p, ![w].leaving = l,
                                 ![w].lastDir = worker[w].job.entry[1], ![w].job = NoJob]
  <2>1. PICK target \in Targets :
            worker' = [worker EXCEPT ![w].pc = IF running > target THEN "flush" ELSE "pick",
                                     ![w].leaving = running > target,
                                     ![w].lastDir = worker[w].job.entry[1], ![w].job = NoJob]
    BY DEF Account
  <2>2. (running > target) \in BOOLEAN
    OBVIOUS
  <2>3. QED
    BY <2>1, <2>2
<1>4. worker[w].job.entry[1] \in Dirs
  BY <1>1, LoaderAssumption DEF Locals, Jobs, NoJob, Entries, Dirs
<1>10. PICK d \in Dirs : d = worker[w].job.entry[1]
  BY <1>4
<1> DEFINE m == Local(p, NoJob, worker[w].batch, worker[w].gen, worker[w].first,
                      d, l)
<1>5. p \in PCs
  BY DEF PCs
<1>6. worker' = [worker EXCEPT ![w] = m]
  <2>1. worker' = AfterJob(worker, w, p, l, d, NoJob)
    BY <1>3, <1>10 DEF AfterJob
  <2>2. NoJob \in Jobs \cup {NoJob}
    OBVIOUS
  <2>3. AfterJob(worker, w, p, l, d, NoJob) = [worker EXCEPT ![w] = m]
    BY <1>1, <1>5, <2>2, AccountLocals
  <2>4. QED
    BY <2>1, <2>3
<1>7. /\ m \in Locals /\ m.pc = p
      /\ m.batch = worker[w].batch /\ m.gen = worker[w].gen
  BY <1>1, <1>5 DEF Local, Locals
<1> HIDE DEF m
<1>8. \A e : Carries(worker[w], e) => Carries(m, e)
  BY <1>2, <1>7 DEF Carries
<1>9. QED
  BY <1>2, <1>6, <1>7, <1>8, HandOver DEF Kept, Aside, Settled

\* The locals of a worker that is done.
LEMMA IdleIn == Idle \in Locals /\ Idle.batch = {}
BY LoaderAssumption DEF Idle, Locals, PCs, Dirs

\* What the end of a job may leave of the worker's locals.
LEMMA TailLocals ==
    ASSUME NEW i \in Locals, NEW d \in Dirs, NEW l \in BOOLEAN
    PROVE  [i EXCEPT !.pc = "tail", !.leaving = l, !.lastDir = d]
               = Local("tail", i.job, i.batch, i.gen, i.first, d, l)
<1> DEFINE n == [i EXCEPT !.pc = "tail"]
           k == [n EXCEPT !.leaving = l]
<1>1. [i EXCEPT !.pc = "tail", !.leaving = l, !.lastDir = d] = [k EXCEPT !.lastDir = d]
  OBVIOUS
<1>2. n = Local("tail", i.job, i.batch, i.gen, i.first, i.lastDir, i.leaving)
  BY LocalFields
<1> HIDE DEF n
<1>3. /\ n \in Locals /\ n.pc = "tail" /\ n.job = i.job /\ n.batch = i.batch
      /\ n.gen = i.gen /\ n.first = i.first /\ n.lastDir = i.lastDir
  BY <1>2 DEF Local, Locals, PCs
<1>4. k = Local("tail", i.job, i.batch, i.gen, i.first, i.lastDir, l)
  BY <1>3, LocalFields
<1> HIDE DEF k
<1>5. /\ k \in Locals /\ k.pc = "tail" /\ k.job = i.job /\ k.batch = i.batch
      /\ k.gen = i.gen /\ k.first = i.first /\ k.leaving = l
  BY <1>4 DEF Local, Locals, PCs
<1>6. QED
  BY <1>1, <1>5, LocalFields

\* A worker that leaves has delivered.
LEMMA LeaveKeeps ==
    ASSUME LoaderInv, NEW w \in Workers, Leave(w), Aside
    PROVE  Kept
<1>1. worker[w] \in Locals /\ worker \in [Workers -> Locals]
  BY DEF LoaderInv, FolderTypes
<1>2. worker[w].pc = "leave" /\ UNCHANGED jobs
  BY DEF Leave
<1>3. PICK l \in BOOLEAN, d \in Dirs :
        worker' = [worker EXCEPT ![w] = [Idle EXCEPT !.pc = "tail", !.leaving = l, !.lastDir = d]]
  <2>1. worker' = [worker EXCEPT ![w] =
                      [Idle EXCEPT !.pc = "tail", !.leaving = (running = 1),
                                   !.lastDir = worker[w].lastDir]]
    BY DEF Leave
  <2>2. (running = 1) \in BOOLEAN /\ worker[w].lastDir \in Dirs
    BY <1>1 DEF Locals
  <2>3. QED
    BY <2>1, <2>2
<1> DEFINE m == [Idle EXCEPT !.pc = "tail", !.leaving = l, !.lastDir = d]
<1>4. m = Local("tail", Idle.job, Idle.batch, Idle.gen, Idle.first, d, l)
  BY IdleIn, TailLocals
<1>5. m \in Locals /\ m.batch = {}
  <2> HIDE DEF m
  <2>1. QED
    BY <1>4, IdleIn DEF Local, Locals, PCs
<1>6. worker' = [worker EXCEPT ![w] = m]
  BY <1>3
<1> HIDE DEF m
<1>7. \A e : ~Carries(worker[w], e)
  BY <1>2 DEF Carries, LoaderInv, EmptyHands
<1>8. QED
  BY <1>2, <1>5, <1>6, <1>7, HandOver DEF Kept, Aside, Settled

\* A thread that ends has nothing left.
LEMMA ExitKeeps ==
    ASSUME LoaderInv, NEW w \in Workers, Exit(w), Aside
    PROVE  Kept
<1>1. worker[w] \in Locals /\ worker \in [Workers -> Locals]
  BY DEF LoaderInv, FolderTypes
<1>2. worker[w].pc = "tail" /\ UNCHANGED jobs /\ worker' = [worker EXCEPT ![w] = Idle]
  BY DEF Exit
<1>3. Idle \in Locals /\ Idle.batch = {}
  BY LoaderAssumption DEF Idle, Locals, PCs, Dirs
<1>4. \A e : ~Carries(worker[w], e)
  BY <1>2 DEF Carries, LoaderInv, EmptyHands
<1>5. QED
  BY <1>2, <1>3, <1>4, HandOver DEF Kept, Aside, Settled

\* No worker loses an entry of the folder that is open.
LEMMA WorkerKeeps ==
    ASSUME LoaderInv, NEW w \in Workers, WorkerStep(w)
    PROVE  /\ Kept
           /\ jobs' \subseteq jobs
           /\ UNCHANGED <<generation, gui, selectedDir, scan, posts, onDisk,
                          queuedKeys, fileNameList, browser>>
<1>1. CASE Quiet(w)
  <2>1. /\ UNCHANGED <<gui, selectedDir, scan, posts, onDisk, queuedKeys,
                       fileNameList, browser, pending, failed, removed>>
        /\ Start(w) \/ Pick(w) \/ CheckJob(w) \/ Flush(w) \/ Account(w) \/ Leave(w)
    BY <1>1, Zenon DEF Quiet, scanning, batch, shown, world
  <2>2. generation' = generation /\ jobs' \subseteq jobs
    BY <2>1 DEF Start, Pick, CheckJob, Flush, Account, Leave
  <2>3. Aside
    BY <2>1, <2>2 DEF Aside
  <2>4. QED
    BY <2>1, <2>2, <2>3, StartKeeps, PickKeeps, CheckKeeps, FlushKeeps, AccountKeeps,
       LeaveKeeps
<1>2. CASE LoadFile(w)
  <2>1. /\ UNCHANGED <<gui, selectedDir, scan, posts, onDisk, queuedKeys,
                       fileNameList, browser, generation, jobs>>
    BY <1>2 DEF LoadFile, Load, scanning, shown
  <2>2. QED
    BY <1>2, <2>1, LoadKeeps
<1>3. CASE Filter(w)
  <2>1. /\ UNCHANGED <<gui, selectedDir, scan, posts, onDisk, queuedKeys,
                       fileNameList, browser, generation, jobs>>
    BY <1>3 DEF Filter, scanning, shown, world
  <2>2. QED
    BY <1>3, <2>1, FilterKeeps
<1>4. CASE AppendBatch(w)
  <2>1. /\ UNCHANGED <<gui, selectedDir, scan, posts, onDisk, queuedKeys,
                       fileNameList, browser, generation, jobs>>
    BY <1>4 DEF AppendBatch, scanning, shown, world
  <2>2. QED
    BY <1>4, <2>1, AppendKeeps
<1>5. CASE Finish(w)
  <2>1. /\ UNCHANGED <<gui, selectedDir, scan, posts, onDisk, queuedKeys,
                       fileNameList, browser, generation, jobs, pending, failed, removed>>
    BY <1>5 DEF Finish, Exit, scanning, batch, shown, world
  <2>2. Exit(w) /\ Aside
    BY <1>5, <2>1 DEF Finish, Aside
  <2>3. QED
    BY <2>1, <2>2, ExitKeeps
<1>6. QED
  BY <1>1, <1>2, <1>3, <1>4, <1>5 DEF WorkerStep

\* What addJobs adds is of this generation, and every file has a job then.
LEMMA AddJobsAdds ==
    ASSUME LoaderInv, NEW dir \in Dirs, NEW fs \in SUBSET Files, AddJobs(dir, fs)
    PROVE  /\ jobs \subseteq jobs' /\ jobs' \subseteq Jobs /\ JobsCurrent'
           /\ \A f \in fs : \E j \in jobs' : j.entry = <<dir, f>>
           /\ UNCHANGED <<generation, worker>>
<1> DEFINE new == [entry : {dir} \X fs, gen : {generation}]
<1>1. /\ jobs' = jobs \cup {j \in new : \A k \in jobs : k.entry # j.entry}
      /\ UNCHANGED <<generation, worker>>
  BY DEF AddJobs, Insert
<1>2. \A j \in new : j \in Jobs /\ j.gen = generation
  BY DEF LoaderInv, FolderTypes, Jobs, Entries
<1>3. ASSUME NEW f \in fs
      PROVE  \E j \in jobs' : j.entry = <<dir, f>>
  <2> DEFINE j == [entry |-> <<dir, f>>, gen |-> generation]
  <2>1. j \in new /\ j.entry = <<dir, f>>
    OBVIOUS
  <2> HIDE DEF j, new
  <2>2. CASE \A k \in jobs : k.entry # j.entry
    BY <1>1, <2>1, <2>2
  <2>3. CASE \E k \in jobs : k.entry = j.entry
    BY <1>1, <2>1, <2>3
  <2>4. QED
    BY <2>2, <2>3
<1> HIDE DEF new
<1>4. jobs' \subseteq Jobs /\ jobs \subseteq jobs'
  BY <1>1, <1>2 DEF LoaderInv, FolderTypes
<1>5. JobsCurrent'
  BY <1>1, <1>2 DEF LoaderInv, JobsCurrent
<1>6. QED
  BY <1>1, <1>3, <1>4, <1>5

\* addFiles() queues a job for each new file, and forgets none.
LEMMA AddFilesAdds ==
    ASSUME LoaderInv, NEW keys \in SUBSET Files, NEW fs \in SUBSET Files, AddFiles(keys, fs)
    PROVE  /\ jobs \subseteq jobs' /\ jobs' \subseteq Jobs /\ JobsCurrent'
           /\ queuedKeys' = keys \cup fs
           /\ \A f \in fs \ keys : \E j \in jobs' : j.entry = <<selectedDir, f>>
           /\ UNCHANGED <<generation, worker>>
<1>1. selectedDir \in Dirs
  BY DEF LoaderInv, FolderTypes, CatalogTypes
<1>2. CASE fs \subseteq keys
  BY <1>2 DEF AddFiles, loader, LoaderInv, FolderTypes, JobsCurrent
<1>3. CASE ~(fs \subseteq keys)
  BY <1>1, <1>3, AddJobsAdds DEF AddFiles
<1>4. QED
  BY <1>2, <1>3

\* A step of the catalog that leaves the workers alone.
LEMMA CatalogKeeps ==
    ASSUME LoaderInv, UNCHANGED <<worker, generation>>,
           jobs' \subseteq Jobs, JobsCurrent', CatalogTypes'
    PROVE  LoaderInv'
BY DEF LoaderInv, FolderTypes, EmptyHands

\* The files a scan adds are covered by the jobs it queues.
LEMMA CatalogCovers ==
    ASSUME Covered, UNCHANGED <<worker, generation, selectedDir>>, jobs \subseteq jobs',
           gui \in {"free", "finish"},
           \A f \in queuedKeys' :
               \/ /\ f \in queuedKeys
                  /\ <<selectedDir, f>> \in Settled => <<selectedDir, f>> \in Settled'
               \/ \E j \in jobs' : j.entry = <<selectedDir, f>>
    PROVE  Covered'
<1>1. SUFFICES ASSUME NEW f \in queuedKeys'
               PROVE  CoveredBy(<<selectedDir, f>>)'
  BY DEF Covered
<1>2. CASE \E j \in jobs' : j.entry = <<selectedDir, f>>
  BY <1>2 DEF CoveredBy
<1>3. CASE /\ f \in queuedKeys
           /\ <<selectedDir, f>> \in Settled => <<selectedDir, f>> \in Settled'
  <2>1. CoveredBy(<<selectedDir, f>>)
    BY <1>1, <1>3 DEF Covered
  <2>2. QED
    BY <1>3, <2>1 DEF CoveredBy, Carries
<1>4. QED
  BY <1>2, <1>3

\* Steps that change neither the loader's jobs nor what is shown.
LEMMA OthersKeep ==
    ASSUME LoaderInv, Covered, UNCHANGED <<worker, generation, jobs, selectedDir,
                                           queuedKeys, browser, pending, failed, removed>>,
           CatalogTypes',
           gui' \in {"free", "finish"} => gui \in {"free", "finish"}
    PROVE  LoaderInv' /\ Covered'
<1>1. JobsCurrent' /\ jobs' \subseteq Jobs
  BY DEF LoaderInv, FolderTypes, JobsCurrent
<1>2. Covered'
  <2>1. CASE gui \in {"free", "finish"}
    BY <2>1, CatalogCovers DEF Settled
  <2>2. CASE gui \notin {"free", "finish"}
    BY <2>2 DEF Covered
  <2>3. QED
    BY <2>1, <2>2
<1>3. QED
  BY <1>1, <1>2, CatalogKeeps

\* What was posted is a set of files.
LEMMA PostTypes ==
    ASSUME CatalogTypes, posts # <<>>
    PROVE  /\ Head(posts).files \in SUBSET Files
           /\ SubSeq(posts, 2, Len(posts)) \in Seq(Posts)
<1>1. Head(posts) \in Posts
  BY DEF CatalogTypes
<1>2. posts \in Seq(Posts)
  BY DEF CatalogTypes
<1>3. SubSeq(posts, 2, Len(posts)) \in Seq(Posts)
  BY <1>2
<1>4. QED
  BY <1>1, <1>3 DEF Posts

\* Selecting a folder forgets the files of the other.
LEMMA SelectKeeps == ASSUME LoaderInv, Covered, SelectDir PROVE LoaderInv' /\ Covered'
<1>1. /\ UNCHANGED <<worker, generation, jobs>> /\ gui' = "stop"
      /\ UNCHANGED <<scan, posts, onDisk, queuedKeys, fileNameList, browser>>
      /\ selectedDir' = selectedDir + 1 /\ selectedDir < MaxDirs
  BY DEF SelectDir, loader, scanning, shown, world
<1>2. CatalogTypes'
  BY <1>1, LoaderAssumption DEF LoaderInv, FolderTypes, CatalogTypes, Dirs
<1>3. JobsCurrent' /\ jobs' \subseteq Jobs
  BY <1>1 DEF LoaderInv, FolderTypes, JobsCurrent
<1>4. QED
  BY <1>1, <1>2, <1>3, CatalogKeeps DEF Covered

\* The loader is stopped on the way to another folder, of which nothing is queued yet.
LEMMA StopKeeps == ASSUME LoaderInv, Covered, StopLoading PROVE LoaderInv' /\ Covered'
<1>1. /\ UNCHANGED <<worker, selectedDir, scan, posts, onDisk>>
      /\ jobs' = {} /\ generation' = generation + 1 /\ gui' = "open"
      /\ queuedKeys' = {} /\ fileNameList' = {} /\ browser' = {}
  BY DEF StopLoading, RemoveAllJobs, scanning
<1>2. CatalogTypes'
  BY <1>1 DEF LoaderInv, FolderTypes, CatalogTypes
<1>3. JobsCurrent'
  BY <1>1 DEF JobsCurrent
<1>4. EmptyHands'
  BY <1>1 DEF LoaderInv, EmptyHands
<1>5. jobs' \subseteq Jobs /\ generation' \in Nat /\ worker' \in [Workers -> Locals]
  BY <1>1 DEF LoaderInv, FolderTypes
<1>6. QED
  BY <1>1, <1>2, <1>3, <1>4, <1>5 DEF Covered, LoaderInv, FolderTypes

\* The recursive switch: what the loader had not handed over is removed, and the
\* rest stays on its way.
LEMMA ToggleKeeps == ASSUME LoaderInv, Covered, ToggleRecursive PROVE LoaderInv' /\ Covered'
<1>1. /\ UNCHANGED <<worker, gui, selectedDir, scan, posts, onDisk, queuedKeys, fileNameList,
                     browser, pending, failed>>
      /\ gui = "free" /\ jobs' = {} /\ generation' = generation + 1
      /\ removed' = removed \cup {j.entry : j \in jobs} \cup UNION {Unflushed(w) : w \in Workers}
  BY DEF ToggleRecursive, RemoveAllJobs, scanning, batch, shown
<1>2. CatalogTypes'
  BY <1>1 DEF LoaderInv, FolderTypes, CatalogTypes
<1>3. JobsCurrent'
  BY <1>1 DEF JobsCurrent
<1>4. EmptyHands'
  BY <1>1 DEF LoaderInv, EmptyHands
<1>5. jobs' \subseteq Jobs /\ generation' \in Nat /\ worker' \in [Workers -> Locals]
  BY <1>1 DEF LoaderInv, FolderTypes
<1>6. ASSUME NEW e, CoveredBy(e)
      PROVE  CoveredBy(e)'
  <2>1. CASE e \in Settled
    BY <1>1, <2>1 DEF Settled, CoveredBy
  <2>2. CASE \E j \in jobs : j.entry = e
    BY <1>1, <2>2 DEF Settled, CoveredBy
  <2>3. ASSUME NEW w \in Workers, Carries(worker[w], e)
        PROVE  CoveredBy(e)'
    <3>1. CASE e \in Unflushed(w)
      BY <1>1, <3>1 DEF Settled, CoveredBy
    <3>2. CASE worker[w].pc \in {"filter", "append"} /\ e \in worker[w].batch
      BY <1>1, <3>2 DEF CoveredBy, Carries
    <3>3. QED
      BY <2>3, <3>1, <3>2 DEF Carries, Unflushed
  <2>4. QED
    BY <1>6, <2>1, <2>2, <2>3 DEF CoveredBy
<1>7. Covered'
  BY <1>1, <1>6 DEF Covered
<1>8. QED
  BY <1>2, <1>3, <1>4, <1>5, <1>7 DEF LoaderInv, FolderTypes

\* A scan starts from no file.
LEMMA ScanKeeps == ASSUME LoaderInv, Covered, StartScan PROVE LoaderInv' /\ Covered'
<1>1. PICK first \in {{}} \cup {{f} : f \in onDisk} :
        /\ queuedKeys' = first
        /\ IF first = {} THEN UNCHANGED loader ELSE AddJobs(selectedDir, first)
  BY DEF StartScan
<1>2. /\ UNCHANGED <<selectedDir, posts, fileNameList, browser, onDisk>>
      /\ scan' = [dir |-> selectedDir, all |-> onDisk, left |-> onDisk]
  BY DEF StartScan, world
<1>3. first \in SUBSET Files /\ selectedDir \in Dirs
  BY DEF LoaderInv, FolderTypes, CatalogTypes
<1>4. CatalogTypes'
  BY <1>1, <1>2, <1>3 DEF LoaderInv, FolderTypes, CatalogTypes
<1>5. /\ jobs' \subseteq Jobs /\ JobsCurrent'
      /\ \A f \in first : \E j \in jobs' : j.entry = <<selectedDir, f>>
      /\ UNCHANGED <<generation, worker>>
  <2>1. CASE first = {}
    BY <1>1, <2>1 DEF loader, LoaderInv, FolderTypes, JobsCurrent
  <2>2. CASE first # {}
    BY <1>1, <1>3, <2>2, AddJobsAdds
  <2>3. QED
    BY <2>1, <2>2
<1>6. Covered'
  BY <1>1, <1>2, <1>5 DEF Covered, CoveredBy
<1>7. QED
  BY <1>4, <1>5, <1>6, CatalogKeeps

\* What the scan posts is added to the folder it was started for.
LEMMA PostedKeeps == ASSUME LoaderInv, Covered, RunPost PROVE LoaderInv' /\ Covered'
<1>1. /\ gui = "free" /\ posts # <<>>
      /\ posts' = SubSeq(posts, 2, Len(posts))
      /\ UNCHANGED <<gui, selectedDir, scan, browser, pending, failed, removed, onDisk>>
  BY DEF RunPost, batch, world
<1>2. CatalogTypes
  BY DEF LoaderInv, FolderTypes
<1>3. /\ Head(posts).files \in SUBSET Files
      /\ posts' \in Seq(Posts)
  BY <1>1, <1>2, PostTypes
<1>4. CASE AddFiles(queuedKeys, Head(posts).files) /\ UNCHANGED fileNameList
  <2>1. /\ jobs \subseteq jobs' /\ jobs' \subseteq Jobs /\ JobsCurrent'
        /\ queuedKeys' = queuedKeys \cup Head(posts).files
        /\ \A f \in Head(posts).files \ queuedKeys :
               \E j \in jobs' : j.entry = <<selectedDir, f>>
        /\ UNCHANGED <<generation, worker>>
    <3>1. queuedKeys \in SUBSET Files
      BY <1>2 DEF CatalogTypes
    <3>2. QED
      BY <1>3, <1>4, <3>1, AddFilesAdds
  <2>2. CatalogTypes'
    BY <1>1, <1>2, <1>3, <1>4, <2>1 DEF CatalogTypes
  <2>3. LoaderInv'
    BY <2>1, <2>2, CatalogKeeps
  <2>4. Settled' = Settled
    BY <1>1 DEF Settled
  <2>5. Covered'
    BY <1>1, <2>1, <2>4, CatalogCovers
  <2>6. QED
    BY <2>3, <2>5
<1>5. CASE /\ UNCHANGED <<jobs, generation, worker, queuedKeys>>
           /\ fileNameList' = fileNameList \/ fileNameList' = Head(posts).files
  <2>1. CatalogTypes'
    BY <1>1, <1>2, <1>3, <1>5 DEF CatalogTypes
  <2>2. QED
    BY <1>1, <1>5, <2>1, OthersKeep
<1>6. QED
  BY <1>4, <1>5 DEF RunPost, loader, WakePendingWorkers

\* A reparse queues the new files and drops those that are gone.
LEMMA ReparseKeeps == ASSUME LoaderInv, Covered, Reparse PROVE LoaderInv' /\ Covered'
<1> DEFINE lost == {e \in browser : e[2] \notin onDisk}
           keys == queuedKeys \ {e[2] : e \in lost}
           fs == onDisk \ fileNameList
<1>1. /\ gui = "free" /\ fileNameList' = onDisk
      /\ UNCHANGED <<gui, selectedDir, scan, posts, pending, failed, removed, onDisk>>
      /\ browser' = browser \ lost
      /\ AddFiles(keys, fs)
  BY DEF Reparse, scanning, batch, world
<1>2. CatalogTypes
  BY DEF LoaderInv, FolderTypes
<1>3. keys \in SUBSET Files /\ fs \in SUBSET Files
  BY <1>2 DEF CatalogTypes
<1>4. ASSUME NEW f \in keys, <<selectedDir, f>> \in browser
      PROVE  <<selectedDir, f>> \notin lost
  <2>1. <<selectedDir, f>>[2] = f
    OBVIOUS
  <2>2. QED
    BY <2>1
<1>5. keys \subseteq queuedKeys
  OBVIOUS
<1> HIDE DEF lost, keys, fs
<1>6. /\ jobs \subseteq jobs' /\ jobs' \subseteq Jobs /\ JobsCurrent'
      /\ queuedKeys' = keys \cup fs
      /\ \A f \in fs \ keys : \E j \in jobs' : j.entry = <<selectedDir, f>>
      /\ UNCHANGED <<generation, worker>>
  BY <1>1, <1>3, AddFilesAdds
<1>7. CatalogTypes'
  BY <1>1, <1>2, <1>3, <1>6 DEF CatalogTypes
<1>8. \A f \in keys : <<selectedDir, f>> \in Settled => <<selectedDir, f>> \in Settled'
  BY <1>1, <1>4 DEF Settled
<1>9. Covered'
  BY <1>1, <1>5, <1>6, <1>8, CatalogCovers
<1>10. QED
  BY <1>6, <1>7, <1>9, CatalogKeeps

\* The browser takes everything that is pending for this folder.
LEMMA DrainKeeps == ASSUME LoaderInv, Covered, Drain PROVE LoaderInv' /\ Covered'
<1>1. /\ gui = "free"
      /\ UNCHANGED <<jobs, generation, worker, gui, selectedDir, scan, posts,
                     queuedKeys, fileNameList, failed, removed, onDisk>>
  BY DEF Drain, loader, scanning, world
<1>2. PICK some \in SUBSET pending :
        /\ browser' = browser \cup {e \in some : e[1] = selectedDir}
        /\ pending' = pending \ some
  <2>1. CASE UNCHANGED <<pending, browser>>
    <3>1. browser' = browser \cup {e \in {} : e[1] = selectedDir} /\ pending' = pending \ {}
      BY <2>1
    <3>2. QED
      BY <3>1
  <2>2. CASE \E some \in SUBSET pending :
                /\ browser' = browser \cup {e \in some : e[1] = selectedDir}
                /\ pending' = pending \ some
    BY <2>2
  <2>3. QED
    BY <2>1, <2>2 DEF Drain
<1>3. CatalogTypes'
  BY <1>1 DEF LoaderInv, FolderTypes, CatalogTypes
<1>4. JobsCurrent' /\ jobs' \subseteq Jobs
  BY <1>1 DEF LoaderInv, FolderTypes, JobsCurrent
<1>5. \A f : <<selectedDir, f>> \in Settled => <<selectedDir, f>> \in Settled'
  BY <1>1, <1>2 DEF Settled
<1>6. Covered'
  BY <1>1, <1>5, CatalogCovers
<1>7. QED
  BY <1>1, <1>3, <1>4, <1>6, CatalogKeeps

\* The scan thread only posts what it has found.
LEMMA ListKeeps ==
    ASSUME LoaderInv, Covered, ScanSome \/ ScanEnds
    PROVE  LoaderInv' /\ Covered'
<1>1. CatalogTypes
  BY DEF LoaderInv, FolderTypes
<1>2. UNCHANGED <<jobs, generation, worker, gui, selectedDir, queuedKeys, fileNameList,
                  browser, pending, failed, removed, onDisk>>
  BY DEF ScanSome, ScanEnds, loader, batch, shown, world
<1>3. /\ \E fs \in SUBSET Files, last \in BOOLEAN : Post(fs, last)
      /\ scan' \in [dir : Dirs, all : SUBSET Files, left : SUBSET Files]
  <2>1. CASE ScanSome
    <3>1. PICK fs \in IF scan.left = scan.all THEN {{f} : f \in scan.all} ELSE {scan.left} :
            scan' = [scan EXCEPT !.left = @ \ fs] /\ Post(fs, FALSE)
      BY <2>1 DEF ScanSome
    <3>2. scan.all \in SUBSET Files /\ scan.left \in SUBSET Files
      BY <1>1 DEF CatalogTypes
    <3>3. fs \in SUBSET Files
      BY <3>1, <3>2
    <3>4. scan.left \ fs \in SUBSET Files
      BY <3>2
    <3>5. scan' \in [dir : Dirs, all : SUBSET Files, left : SUBSET Files]
      BY <1>1, <3>1, <3>4 DEF CatalogTypes
    <3>6. QED
      BY <3>1, <3>3, <3>5
  <2>2. CASE ScanEnds
    <3>1. scan' = NoScan /\ Post(scan.all, TRUE)
      BY <2>2 DEF ScanEnds
    <3>2. scan.all \in SUBSET Files
      BY <1>1 DEF CatalogTypes
    <3>3. NoScan \in [dir : Dirs, all : SUBSET Files, left : SUBSET Files]
      BY LoaderAssumption DEF NoScan, Dirs
    <3>4. QED
      BY <3>1, <3>2, <3>3
  <2>3. QED
    BY <2>1, <2>2
<1>4. posts' \in Seq(Posts)
  <2>1. PICK fs \in SUBSET Files, last \in BOOLEAN : Post(fs, last)
    BY <1>3
  <2>2. [dir |-> scan.dir, files |-> fs, last |-> last] \in Posts
    BY <1>1 DEF CatalogTypes, Posts
  <2>3. QED
    BY <1>1, <2>1, <2>2 DEF Post, CatalogTypes
<1>5. CatalogTypes'
  BY <1>1, <1>2, <1>3, <1>4 DEF CatalogTypes
<1>6. QED
  BY <1>2, <1>5, OthersKeep

\* previewsFinishedUI and its retries change no job and no entry.
LEMMA FinishingKeeps ==
    ASSUME LoaderInv, Covered, FinishFolder \/ \E d \in Dirs : RunFinIdle(d) \/ Timer(d)
    PROVE  LoaderInv' /\ Covered'
<1>1. CatalogTypes
  BY DEF LoaderInv, FolderTypes
<1>2. /\ UNCHANGED <<jobs, generation, worker, selectedDir, queuedKeys, fileNameList,
                     browser, pending, failed, removed, onDisk, scan, posts>>
      /\ gui \in {"free", "finish"}
  <2>1. CASE FinishFolder
    BY <2>1 DEF FinishFolder, WakePendingWorkers, loader, scanning, batch, shown, world
  <2>2. ASSUME NEW d \in Dirs, RunFinIdle(d) \/ Timer(d)
        PROVE  /\ UNCHANGED <<jobs, generation, worker, selectedDir, queuedKeys,
                              fileNameList, browser, pending, failed, removed, onDisk, scan, posts>>
               /\ gui \in {"free", "finish"}
    BY <2>2 DEF RunFinIdle, Timer, loader, scanning, batch, shown, world
  <2>3. QED
    BY <2>1, <2>2
<1>3. CatalogTypes'
  BY <1>1, <1>2 DEF CatalogTypes
<1>4. QED
  BY <1>2, <1>3, OthersKeep

\* Neither do the foreground's pauses and the files that change on disk.
LEMMA ForegroundKeeps ==
    ASSUME LoaderInv, Covered, PauseWork \/ ResumeWork \/ Nudge \/ EditDisk \/ UNCHANGED vars
    PROVE  LoaderInv' /\ Covered'
<1>1. CatalogTypes
  BY DEF LoaderInv, FolderTypes
<1>2. /\ UNCHANGED <<jobs, generation, worker, gui, selectedDir, queuedKeys,
                     fileNameList, browser, pending, failed, removed, scan, posts>>
      /\ onDisk' \subseteq Files
  <2>1. CASE PauseWork
    BY <1>1, <2>1 DEF PauseWork, PauseLoader, scanning, shown, CatalogTypes
  <2>2. CASE ResumeWork
    BY <1>1, <2>2 DEF ResumeWork, ResumeLoader, scanning, shown, world, CatalogTypes
  <2>3. CASE Nudge
    BY <1>1, <2>3 DEF Nudge, ResumeLoader, scanning, batch, shown, world, CatalogTypes
  <2>4. CASE EditDisk
    <3>1. PICK f \in Files : onDisk' = IF f \in onDisk THEN onDisk \ {f} ELSE onDisk \cup {f}
      BY <2>4 DEF EditDisk
    <3>2. onDisk' \subseteq Files
      BY <1>1, <3>1 DEF CatalogTypes
    <3>3. QED
      BY <2>4, <3>2 DEF EditDisk, loader, scanning, batch, shown
  <2>5. CASE UNCHANGED vars
    BY <1>1, <2>5 DEF vars, loader, scanning, batch, shown, world, CatalogTypes
  <2>6. QED
    BY <2>1, <2>2, <2>3, <2>4, <2>5
<1>3. CatalogTypes'
  BY <1>1, <1>2 DEF CatalogTypes
<1>4. QED
  BY <1>2, <1>3, OthersKeep

\* At first no file is queued.
LEMMA FolderInit == ASSUME Init PROVE LoaderInv /\ Covered
<1>1. Idle \in Locals /\ Idle.batch = {}
  BY IdleIn
<1>2. CatalogTypes
  <2>1. NoScan \in [dir : Dirs, all : SUBSET Files, left : SUBSET Files] /\ 0 \in Dirs
    BY LoaderAssumption DEF NoScan, Dirs
  <2>2. onDisk \subseteq Files
    BY FolderAssumption DEF Init
  <2>3. QED
    BY <2>1, <2>2 DEF Init, CatalogTypes
<1>3. FolderTypes /\ JobsCurrent /\ EmptyHands
  BY <1>1, <1>2 DEF Init, LoaderInit, FolderTypes, JobsCurrent, EmptyHands
<1>4. Covered
  BY DEF Init, Covered
<1>5. QED
  BY <1>3, <1>4 DEF LoaderInv

\* Every step keeps the invariant of the folder.
LEMMA FolderStep ==
    ASSUME LoaderInv, Covered, [Next]_vars
    PROVE  LoaderInv' /\ Covered'
<1>1. ASSUME NEW w \in Workers, WorkerStep(w)
      PROVE  LoaderInv' /\ Covered'
  <2>1. /\ Kept
        /\ jobs' \subseteq jobs
        /\ UNCHANGED <<generation, gui, selectedDir, scan, posts, onDisk,
                       queuedKeys, fileNameList, browser>>
    BY <1>1, WorkerKeeps
  <2>2. LoaderInv'
    BY <2>1 DEF LoaderInv, FolderTypes, CatalogTypes, JobsCurrent, Kept
  <2>3. \A f : CoveredBy(<<selectedDir, f>>) => CoveredBy(<<selectedDir, f>>)'
    <3>1. \A f : <<selectedDir, f>>[1] = selectedDir
      OBVIOUS
    <3>2. \A f, e : e = <<selectedDir, f>> /\ CoveredBy(e) => CoveredBy(e)'
      BY <2>1, <3>1 DEF Kept
    <3>3. QED
      BY <2>1, <3>2
  <2>4. Covered'
    BY <2>1, <2>3 DEF Covered
  <2>5. QED
    BY <2>2, <2>4
<1>2. QED
  BY <1>1, SelectKeeps, StopKeeps, ToggleKeeps, ScanKeeps, PostedKeeps, ReparseKeeps,
     DrainKeeps,
     ListKeeps, FinishingKeeps, ForegroundKeeps
  DEF Next, GuiStep

\* No file that was queued for the folder that is open is lost, whatever the
\* workers, the scan and the user do, unless the recursive switch has made the
\* loader forget it (PreviewLoader, FileCatalog).
THEOREM QueuedFilesAreNotLost == Spec => []NoFileLost
<1>1. Init => LoaderInv /\ Covered
  BY FolderInit
<1>2. LoaderInv /\ Covered /\ [Next]_vars => (LoaderInv /\ Covered)'
  BY FolderStep
<1>3. LoaderInv /\ Covered => NoFileLost
  <2>1. LoaderInv => DOMAIN worker = Workers
    BY DEF LoaderInv, FolderTypes
  <2>2. ASSUME NEW w \in Workers, NEW e, Carries(worker[w], e)
        PROVE  e \in Held(w)
    BY <2>2 DEF Carries, Held
  <2>3. QED
    BY <2>1, <2>2 DEF Covered, CoveredBy, Settled, NoFileLost
<1>4. QED
  BY <1>1, <1>2, <1>3, PTL DEF Spec

\* The browser shows only what belongs to the folder that is open, although
\* workers still deliver entries of the one before
\* (FileCatalog::previewReadyBatch, processPendingPreviews).
THEOREM BrowserShowsTheFolder == Spec => []OnlyThisFolder
<1>1. Init => OnlyThisFolder
  BY DEF Init, OnlyThisFolder
<1>2. ASSUME OnlyThisFolder, [Next]_vars
      PROVE  OnlyThisFolder'
  <2>1. ASSUME NEW w \in Workers, WorkerStep(w)
        PROVE  UNCHANGED <<gui, selectedDir, browser>>
    BY <2>1 DEF WorkerStep, Quiet, LoadFile, Filter, AppendBatch, Finish, shown
  <2>2. CASE UNCHANGED <<gui, selectedDir, browser>>
    BY <1>2, <2>2 DEF OnlyThisFolder
  <2>3. CASE SelectDir \/ StopLoading
    BY <2>3 DEF SelectDir, StopLoading, OnlyThisFolder
  <2>4. CASE Drain
    <3>1. UNCHANGED <<gui, selectedDir>> /\ gui = "free"
      BY <2>4 DEF Drain
    <3>2. \A e \in browser' : e \in browser \/ e[1] = selectedDir
      BY <2>4 DEF Drain
    <3>3. QED
      BY <1>2, <3>1, <3>2 DEF OnlyThisFolder
  <2>5. CASE Reparse
    BY <1>2, <2>5 DEF Reparse, OnlyThisFolder
  <2>6. CASE StartScan \/ FinishFolder \/ \E d \in Dirs : RunFinIdle(d) \/ Timer(d)
    <3>1. UNCHANGED <<selectedDir, browser>> /\ gui # "stop"
      BY <2>6 DEF StartScan, FinishFolder, RunFinIdle, Timer, shown
    <3>2. QED
      BY <1>2, <3>1 DEF OnlyThisFolder
  <2>7. CASE \/ RunPost \/ ScanSome \/ ScanEnds \/ ToggleRecursive
             \/ PauseWork \/ ResumeWork \/ Nudge \/ EditDisk \/ UNCHANGED vars
    <3>1. UNCHANGED <<gui, selectedDir, browser>>
      BY <2>7 DEF RunPost, ScanSome, ScanEnds, ToggleRecursive, PauseWork, ResumeWork,
         Nudge,
                  EditDisk, vars, shown
    <3>2. QED
      BY <2>2, <3>1
  <2>8. QED
    BY <1>2, <2>1, <2>2, <2>3, <2>4, <2>5, <2>6, <2>7 DEF Next, GuiStep
<1>3. QED
  BY <1>1, <1>2, PTL DEF Spec

-----------------------------------------------------------------------------
(* The MCP server. *)

McpStages == {"tool", "get", "apply", "release"}

RequestRecords == [pc : {"new", "wait", "edit", "answered"}, stage : McpStages,
                   apply : BOOLEAN, got : BOOLEAN]

McpTypes ==
    /\ request \in [Requests -> RequestRecords]
    /\ mTasks \subseteq Requests \X McpStages
    /\ idles \subseteq Requests \X McpStages
    /\ reply \in [Requests -> {"none", "ok", "failed", "timeout", "applied"}]

\* The stages a request has posted a task for.
Reached(r) ==
    {st \in McpStages :
        /\ request[r].pc # "new"
        /\ st \in {"tool", "get"} => st = request[r].stage \/ (st = "get" /\ request[r].stage # "tool")
        /\ st = "apply" => request[r].stage \in {"apply", "release"}
        /\ st = "release" => request[r].stage = "release"}

\* A task that can still run is the one its request waits for.
TasksAreAwaited ==
    \A r \in Requests, st \in McpStages :
        /\ <<r, st>> \in mTasks =>
               request[r].pc = "wait" /\ request[r].stage = st /\ <<r, st>> \notin done
        /\ gtk = <<"task", <<r, st>>>> => <<r, st>> \in mTasks

\* A slot is used for one task.
SlotsAreFresh ==
    \A r \in Requests, st \in McpStages :
        <<r, st>> \in idles \cup mTasks \cup done => st \in Reached(r)

\* What a request has done shows in how far it is.
EffectsShow ==
    \A r \in Requests :
        /\ request[r].pc = "new" => request[r].stage = "tool" /\ r \notin acted
        /\ request[r].pc = "edit" => request[r].stage = "get"
        /\ request[r].stage = "get" => r \notin acted
        /\ request[r].stage = "tool" /\ request[r].pc = "wait" /\ r \in acted => <<r, "tool">> \in done
        /\ request[r].stage = "tool" \/ <<r, "get">> \in mTasks => ~request[r].got
        /\ ~request[r].got => r \notin held

\* A time-out or a failure is the last word.
RepliesAreFinal ==
    \A r \in Requests :
        /\ reply[r] # "none" => request[r].pc = "answered"
        /\ reply[r] \in {"timeout", "failed"} => r \notin acted /\ r \notin held

McpInv == McpTypes /\ TasksAreAwaited /\ SlotsAreFresh /\ EffectsShow /\ RepliesAreFinal

\* At first no request has come.
LEMMA McpInit == ASSUME Mcp!Init PROVE McpInv
<1>1. McpTypes
  BY DEF Mcp!Init, Mcp!New, McpTypes, RequestRecords, McpStages
<1>2. TasksAreAwaited /\ SlotsAreFresh
  BY DEF Mcp!Init, Mcp!New, Mcp!Free, TasksAreAwaited, SlotsAreFresh
<1>3. EffectsShow /\ RepliesAreFinal
  BY DEF Mcp!Init, Mcp!New, EffectsShow, RepliesAreFinal
<1>4. QED
  BY <1>1, <1>2, <1>3 DEF McpInv

\* Single fields of a request.
LEMMA RequestFields ==
    ASSUME NEW q \in RequestRecords
    PROVE  /\ \A p \in {"new", "wait", "edit", "answered"} :
                [q EXCEPT !.pc = p] = [pc |-> p, stage |-> q.stage, apply |-> q.apply, got |-> q.got]
           /\ \A st \in McpStages :
                [q EXCEPT !.stage = st] = [pc |-> q.pc, stage |-> st, apply |-> q.apply, got |-> q.got]
           /\ \A a \in BOOLEAN :
                [q EXCEPT !.apply = a] = [pc |-> q.pc, stage |-> q.stage, apply |-> a, got |-> q.got]
           /\ \A g \in BOOLEAN :
                [q EXCEPT !.got = g] = [pc |-> q.pc, stage |-> q.stage, apply |-> q.apply, got |-> g]
BY DEF RequestRecords

\* Two fields at once.
LEMMA StageAndApply ==
    ASSUME NEW q \in RequestRecords, NEW st \in McpStages, NEW a \in BOOLEAN
    PROVE  [q EXCEPT !.stage = st, !.apply = a]
               = [pc |-> q.pc, stage |-> st, apply |-> a, got |-> q.got]
<1> DEFINE m == [q EXCEPT !.stage = st]
<1>1. [q EXCEPT !.stage = st, !.apply = a] = [m EXCEPT !.apply = a]
  OBVIOUS
<1>2. m = [pc |-> q.pc, stage |-> st, apply |-> q.apply, got |-> q.got]
  BY RequestFields
<1>3. m \in RequestRecords
  BY <1>2 DEF RequestRecords
<1> HIDE DEF m
<1>4. [m EXCEPT !.apply = a] = [pc |-> m.pc, stage |-> m.stage, apply |-> a, got |-> m.got]
  BY <1>3, RequestFields
<1>5. QED
  BY <1>1, <1>2, <1>4

\* What changes when a request goes on: it has let its task go, and may post
\* one for a later stage.
Goes(r, q) ==
    /\ q \in RequestRecords
    /\ request' = [request EXCEPT ![r] = q]
    /\ q.got = request[r].got
    /\ mTasks' \subseteq mTasks \cup (IF q.pc = "wait" THEN {<<r, q.stage>>} ELSE {})
    /\ idles' \subseteq idles \cup (IF q.pc = "wait" THEN {<<r, q.stage>>} ELSE {})
    /\ \A x \in Requests, st \in McpStages : x # r /\ <<x, st>> \in mTasks => <<x, st>> \in mTasks'
    /\ \A st \in McpStages : (st = q.stage /\ q.pc = "wait") \/ <<r, st>> \notin mTasks'
    /\ UNCHANGED <<done, held, acted, gtk>>

\* Its task is not running then.
LetGo(r) == \A st \in McpStages : gtk # <<"task", <<r, st>>>>

\* A request that goes on keeps the types.
LEMMA GoesKeepsTypes ==
    ASSUME McpInv, NEW r \in Requests, NEW q, Goes(r, q),
           reply' \in [Requests -> {"none", "ok", "failed", "timeout", "applied"}]
    PROVE  McpTypes'
<1>1. request' \in [Requests -> RequestRecords]
  BY DEF McpInv, McpTypes, Goes
<1>2. q.stage \in McpStages
  BY DEF Goes, RequestRecords
<1>3. mTasks' \subseteq Requests \X McpStages
  <2>1. mTasks' \subseteq mTasks \cup {<<r, q.stage>>}
    BY DEF Goes
  <2>2. QED
    BY <1>2, <2>1 DEF McpInv, McpTypes
<1>4. idles' \subseteq Requests \X McpStages
  <2>1. idles' \subseteq idles \cup {<<r, q.stage>>}
    BY DEF Goes
  <2>2. QED
    BY <1>2, <2>1 DEF McpInv, McpTypes
<1>5. QED
  BY <1>1, <1>3, <1>4 DEF McpTypes

\* A request posts its next task.
LEMMA PostKeeps ==
    ASSUME McpInv, NEW r \in Requests, NEW q, Goes(r, q), LetGo(r), q.pc = "wait",
           UNCHANGED reply, reply[r] = "none",
           \/ request[r].pc = "new" /\ q.stage \in {"tool", "get"}
           \/ request[r].pc = "edit" /\ q.stage \in {"apply", "release"}
           \/ request[r].stage = "apply" /\ request[r].pc # "new" /\ q.stage = "release"
    PROVE  McpInv'
<1>1. McpTypes'
  BY GoesKeepsTypes DEF McpInv, McpTypes
<1>2. /\ request'[r] = q /\ q.stage \in McpStages
      /\ \A x \in Requests \ {r} : request'[x] = request[x]
  BY DEF McpInv, McpTypes, Goes, RequestRecords
<1>3. /\ q.stage \notin Reached(r) /\ q.stage \in Reached(r)'
      /\ Reached(r) \subseteq Reached(r)'
      /\ \A x \in Requests \ {r} : Reached(x)' = Reached(x)
  <2>1. request[r].pc \in {"new", "edit"} \/ request[r].stage = "apply"
    OBVIOUS
  <2>2. request[r].pc = "edit" => request[r].stage = "get"
    BY DEF McpInv, EffectsShow
  <2>3. request[r].stage \in McpStages
    BY DEF McpInv, McpTypes, RequestRecords
  <2>4. QED
    BY <1>2, <2>1, <2>2, <2>3 DEF Reached, McpStages
<1>4. SlotsAreFresh'
  BY <1>2, <1>3 DEF McpInv, SlotsAreFresh, Goes
<1>5. <<r, q.stage>> \notin done
  BY <1>2, <1>3 DEF McpInv, SlotsAreFresh
<1>6. TasksAreAwaited'
  <2>1. ASSUME NEW x \in Requests, NEW st \in McpStages
        PROVE  /\ <<x, st>> \in mTasks' =>
                    request'[x].pc = "wait" /\ request'[x].stage = st /\ <<x, st>> \notin done'
               /\ gtk' = <<"task", <<x, st>>>> => <<x, st>> \in mTasks'
    <3>1. CASE x = r
      BY <1>2, <1>5, <3>1 DEF Goes, LetGo
    <3>2. CASE x # r
      BY <1>2, <3>2 DEF McpInv, TasksAreAwaited, Goes
    <3>3. QED
      BY <3>1, <3>2
  <2>2. QED
    BY <2>1 DEF TasksAreAwaited
<1>7. EffectsShow'
  <2>1. ASSUME NEW x \in Requests
        PROVE  /\ request'[x].pc = "new" => request'[x].stage = "tool" /\ x \notin acted'
               /\ request'[x].pc = "edit" => request'[x].stage = "get"
               /\ request'[x].stage = "get" => x \notin acted'
               /\ request'[x].stage = "tool" /\ request'[x].pc = "wait" /\ x \in acted' => <<x, "tool">> \in done'
               /\ request'[x].stage = "tool" \/ <<x, "get">> \in mTasks' => ~request'[x].got
               /\ ~request'[x].got => x \notin held'
    <3>1. CASE x = r
      <4>1. /\ q.stage = "get" \/ q.stage = "tool" => r \notin acted /\ ~request[r].got
        BY DEF McpInv, EffectsShow
      <4>2. q.stage = "get" \/ <<r, "get">> \notin mTasks'
        BY DEF Goes, McpStages
      <4>3. ~request[r].got => r \notin held
        BY DEF McpInv, EffectsShow
      <4>4. q.got = request[r].got /\ UNCHANGED <<acted, held>>
        BY DEF Goes
      <4>5. QED
        BY <1>2, <3>1, <4>1, <4>2, <4>3, <4>4
    <3>2. CASE x # r
      <4>1. <<x, "get">> \in mTasks' => <<x, "get">> \in mTasks
        BY <3>2 DEF Goes
      <4>2. UNCHANGED <<request[x], acted, held, done>>
        BY <1>2, <3>2 DEF Goes
      <4>3. QED
        BY <4>1, <4>2 DEF McpInv, EffectsShow
    <3>3. QED
      BY <3>1, <3>2
  <2>2. QED
    BY <2>1 DEF EffectsShow
<1>8. RepliesAreFinal'
  BY <1>2 DEF McpInv, RepliesAreFinal, Goes
<1>9. QED
  BY <1>1, <1>4, <1>6, <1>7, <1>8 DEF McpInv

\* A request goes on without one, to its edit or to its answer.
LEMMA EndKeeps ==
    ASSUME McpInv, NEW r \in Requests, NEW q, Goes(r, q), LetGo(r),
           q.pc \in {"edit", "answered"}, q.stage = request[r].stage, request[r].pc = "wait",
           reply' \in [Requests -> {"none", "ok", "failed", "timeout", "applied"}],
           \A x \in Requests \ {r} : reply'[x] = reply[x],
           reply'[r] # "none" => q.pc = "answered",
           reply'[r] \in {"timeout", "failed"} => r \notin acted /\ r \notin held,
           q.pc = "edit" => q.stage = "get"
    PROVE  McpInv'
<1>1. McpTypes'
  BY GoesKeepsTypes
<1>2. /\ request'[r] = q
      /\ \A x \in Requests \ {r} : request'[x] = request[x]
  BY DEF McpInv, McpTypes, Goes
<1>3. \A x \in Requests : Reached(x)' = Reached(x)
  BY <1>2 DEF Reached
<1>4. SlotsAreFresh'
  BY <1>3 DEF McpInv, SlotsAreFresh, Goes
<1>5. TasksAreAwaited'
  <2>1. ASSUME NEW x \in Requests, NEW st \in McpStages
        PROVE  /\ <<x, st>> \in mTasks' =>
                    request'[x].pc = "wait" /\ request'[x].stage = st /\ <<x, st>> \notin done'
               /\ gtk' = <<"task", <<x, st>>>> => <<x, st>> \in mTasks'
    <3>1. CASE x = r
      BY <1>2, <3>1 DEF Goes, LetGo
    <3>2. CASE x # r
      BY <1>2, <3>2 DEF McpInv, TasksAreAwaited, Goes
    <3>3. QED
      BY <3>1, <3>2
  <2>2. QED
    BY <2>1 DEF TasksAreAwaited
<1>6. EffectsShow'
  <2>1. \A x \in Requests : <<x, "get">> \in mTasks' => <<x, "get">> \in mTasks
    BY DEF Goes
  <2>2. \A x \in Requests : /\ request'[x].stage = request[x].stage
                            /\ request'[x].got = request[x].got
                            /\ request'[x].pc = request[x].pc \/ x = r
    BY <1>2 DEF Goes
  <2>3. UNCHANGED <<acted, held, done>>
    BY DEF Goes
  <2>4. QED
    BY <1>2, <2>1, <2>2, <2>3, ZenonT(30) DEF McpInv, EffectsShow
<1>7. RepliesAreFinal'
  BY <1>2 DEF McpInv, RepliesAreFinal, Goes
<1>8. QED
  BY <1>1, <1>4, <1>5, <1>6, <1>7 DEF McpInv

\* A request that comes is new: it has no task, and nothing was done for it.
LEMMA ArriveKeeps ==
    ASSUME McpInv, NEW r \in Requests, Mcp!Arrive(r)
    PROVE  McpInv'
<1>1. PICK rec \in {[Mcp!New EXCEPT !.stage = "tool"], [Mcp!New EXCEPT !.stage = "get"],
                    [Mcp!New EXCEPT !.stage = "get", !.apply = TRUE]} :
            Mcp!Dispatch(r, rec, mTasks)
  BY DEF Mcp!Arrive
<1>2. /\ request[r].pc = "new"
      /\ UNCHANGED <<gtk, held, acted, reply>>
  BY DEF Mcp!Arrive, Mcp!effects
<1>3. /\ rec \in RequestRecords
      /\ rec.stage \in {"tool", "get"}
      /\ rec.got = FALSE
  <2>1. Mcp!New \in RequestRecords /\ Mcp!New.got = FALSE
    BY DEF Mcp!New, RequestRecords, McpStages
  <2>2. \A st \in McpStages :
            /\ [Mcp!New EXCEPT !.stage = st] \in RequestRecords
            /\ [Mcp!New EXCEPT !.stage = st].stage = st
            /\ [Mcp!New EXCEPT !.stage = st].got = FALSE
    BY DEF Mcp!New, RequestRecords
  <2>3. [Mcp!New EXCEPT !.stage = "get", !.apply = TRUE]
            = [pc |-> "new", stage |-> "get", apply |-> TRUE, got |-> FALSE]
    <3>1. \A st \in McpStages, a \in BOOLEAN :
              [Mcp!New EXCEPT !.stage = st, !.apply = a]
                  = [pc |-> Mcp!New.pc, stage |-> st, apply |-> a, got |-> Mcp!New.got]
      BY <2>1, StageAndApply
    <3>2. QED
      BY <3>1 DEF Mcp!New, McpStages
  <2>4. QED
    BY <1>1, <2>2, <2>3 DEF RequestRecords, McpStages
<1> DEFINE q == [rec EXCEPT !.pc = "wait"]
<1>4. /\ q \in RequestRecords
      /\ q.pc = "wait" /\ q.stage = rec.stage /\ q.got = FALSE
  BY <1>3, RequestFields DEF RequestRecords
<1>5. /\ ~request[r].got
      /\ \A st \in McpStages : <<r, st>> \notin mTasks /\ gtk # <<"task", <<r, st>>>>
      /\ reply[r] = "none"
  <2>1. request[r].stage = "tool"
    BY <1>2 DEF McpInv, EffectsShow
  <2>2. ~request[r].got
    BY <2>1 DEF McpInv, EffectsShow
  <2>3. \A st \in McpStages : <<r, st>> \notin mTasks
    BY <1>2 DEF McpInv, TasksAreAwaited
  <2>4. \A st \in McpStages : gtk # <<"task", <<r, st>>>>
    BY <2>3 DEF McpInv, TasksAreAwaited
  <2>5. reply[r] = "none"
    BY <1>2 DEF McpInv, RepliesAreFinal
  <2>6. QED
    BY <2>2, <2>3, <2>4, <2>5
<1>6. Goes(r, q)
  <2>1. request' = [request EXCEPT ![r] = q] /\ done' = done
    BY <1>1 DEF Mcp!Dispatch
  <2>2. mTasks' = mTasks \cup {<<r, q.stage>>} /\ idles' = idles \cup {<<r, q.stage>>}
    BY <1>1, <1>4 DEF Mcp!Dispatch
  <2>3. q.got = request[r].got
    BY <1>4, <1>5 DEF McpInv, McpTypes, RequestRecords
  <2> HIDE DEF q
  <2>4. \A st \in McpStages : (st = q.stage /\ q.pc = "wait") \/ <<r, st>> \notin mTasks'
    BY <1>4, <1>5, <2>2
  <2>5. QED
    BY <1>2, <1>4, <2>1, <2>2, <2>3, <2>4 DEF Goes
<1>7. LetGo(r)
  BY <1>5 DEF LetGo
<1> HIDE DEF q
<1>8. QED
  BY <1>2, <1>3, <1>4, <1>5, <1>6, <1>7, PostKeeps

\* A request that goes on has let its task go, whatever the task left.
LEMMA GoneOn ==
    ASSUME McpInv, NEW r \in Requests, NEW left, left \subseteq mTasks,
           mTasks \ {<<r, request[r].stage>>} \subseteq left,
           request[r].pc \in {"wait", "edit"},
           \/ request[r].pc = "edit"
           \/ <<r, request[r].stage>> \in done
           \/ <<r, request[r].stage>> \notin left /\ gtk # <<"task", <<r, request[r].stage>>>>
    PROVE  /\ \A st \in McpStages : <<r, st>> \notin left
           /\ \A x \in Requests, st \in McpStages :
                  x # r /\ <<x, st>> \in mTasks => <<x, st>> \in left
           /\ LetGo(r)
<1>1. \A st \in McpStages : <<r, st>> \in mTasks =>
            request[r].pc = "wait" /\ request[r].stage = st /\ <<r, st>> \notin done
  BY DEF McpInv, TasksAreAwaited
<1>2. \A st \in McpStages : <<r, st>> \notin left
  BY <1>1
<1>3. \A st \in McpStages : gtk = <<"task", <<r, st>>>> => <<r, st>> \in mTasks
  BY DEF McpInv, TasksAreAwaited
<1>4. LetGo(r)
  BY <1>1, <1>3 DEF LetGo
<1>5. QED
  BY <1>2, <1>4

\* What Dispatch does for such a request.
LEMMA DispatchGoes ==
    ASSUME McpInv, NEW r \in Requests, NEW left, left \subseteq mTasks,
           \A st \in McpStages : <<r, st>> \notin left,
           \A x \in Requests, st \in McpStages :
               x # r /\ <<x, st>> \in mTasks => <<x, st>> \in left,
           NEW rec \in RequestRecords, rec.got = request[r].got,
           Mcp!Dispatch(r, rec, left),
           UNCHANGED <<gtk, held, acted>>
    PROVE  /\ Goes(r, [rec EXCEPT !.pc = "wait"])
           /\ [rec EXCEPT !.pc = "wait"].pc = "wait"
           /\ [rec EXCEPT !.pc = "wait"].stage = rec.stage
<1> DEFINE q == [rec EXCEPT !.pc = "wait"]
<1>1. /\ q \in RequestRecords
      /\ q.pc = "wait" /\ q.stage = rec.stage /\ q.got = rec.got
  BY RequestFields DEF RequestRecords
<1>2. request' = [request EXCEPT ![r] = q] /\ done' = done
  BY DEF Mcp!Dispatch
<1>3. mTasks' = left \cup {<<r, q.stage>>} /\ idles' = idles \cup {<<r, q.stage>>}
  BY <1>1 DEF Mcp!Dispatch
<1> HIDE DEF q
<1>4. \A st \in McpStages : (st = q.stage /\ q.pc = "wait") \/ <<r, st>> \notin mTasks'
  BY <1>1, <1>3
<1>5. Goes(r, q)
  BY <1>1, <1>2, <1>3, <1>4 DEF Goes
<1>6. QED
  BY <1>1, <1>5 DEF q

\* The edit is done.
LEMMA EditedKeeps ==
    ASSUME McpInv, NEW r \in Requests, Mcp!Edited(r)
    PROVE  McpInv'
<1>1. request[r] \in RequestRecords /\ request[r].pc = "edit"
  BY DEF McpInv, McpTypes, Mcp!Edited
<1>2. PICK rec \in {[request[r] EXCEPT !.stage = "apply"],
                    [request[r] EXCEPT !.stage = "release", !.apply = FALSE]} :
            Mcp!Dispatch(r, rec, mTasks)
  BY DEF Mcp!Edited
<1>3. /\ rec \in RequestRecords /\ rec.got = request[r].got
      /\ rec.stage \in {"apply", "release"}
  <2>1. [request[r] EXCEPT !.stage = "apply"]
            = [pc |-> request[r].pc, stage |-> "apply", apply |-> request[r].apply,
               got |-> request[r].got]
    BY <1>1, RequestFields DEF McpStages
  <2>2. [request[r] EXCEPT !.stage = "release", !.apply = FALSE]
            = [pc |-> request[r].pc, stage |-> "release", apply |-> FALSE,
               got |-> request[r].got]
    BY <1>1, StageAndApply DEF McpStages
  <2>3. QED
    BY <1>1, <1>2, <2>1, <2>2 DEF RequestRecords, McpStages
<1>4. UNCHANGED <<gtk, held, acted, reply>>
  BY DEF Mcp!Edited, Mcp!effects
<1>5. reply[r] = "none"
  BY <1>1 DEF McpInv, RepliesAreFinal
<1>6. /\ \A st \in McpStages : <<r, st>> \notin mTasks
      /\ LetGo(r)
  BY <1>1, GoneOn
<1>7. /\ Goes(r, [rec EXCEPT !.pc = "wait"])
      /\ [rec EXCEPT !.pc = "wait"].pc = "wait"
      /\ [rec EXCEPT !.pc = "wait"].stage = rec.stage
  BY <1>2, <1>3, <1>4, <1>6, DispatchGoes
<1> DEFINE q == [rec EXCEPT !.pc = "wait"]
<1> HIDE DEF q
<1>8. Goes(r, q) /\ q.pc = "wait" /\ q.stage \in {"apply", "release"}
  BY <1>3, <1>7 DEF q
<1>9. QED
  BY <1>1, <1>4, <1>5, <1>6, <1>8, PostKeeps

\* A request that answers its client.
LEMMA AnswerKeeps ==
    ASSUME McpInv, NEW r \in Requests, NEW left, left \subseteq mTasks,
           \A st \in McpStages : <<r, st>> \notin left,
           \A x \in Requests, st \in McpStages :
               x # r /\ <<x, st>> \in mTasks => <<x, st>> \in left,
           LetGo(r), request[r].pc = "wait",
           NEW what \in {"ok", "failed", "timeout", "applied"},
           Mcp!Answer(r, what, left), UNCHANGED <<gtk, held, acted>>,
           what \in {"timeout", "failed"} => r \notin acted /\ r \notin held
    PROVE  McpInv'
<1> DEFINE q == [request[r] EXCEPT !.pc = "answered"]
<1>1. /\ request[r] \in RequestRecords
      /\ reply \in [Requests -> {"none", "ok", "failed", "timeout", "applied"}]
  BY DEF McpInv, McpTypes
<1>2. /\ q \in RequestRecords /\ q.pc = "answered"
      /\ q.stage = request[r].stage /\ q.got = request[r].got
  BY <1>1 DEF RequestRecords
<1>3. request' = [request EXCEPT ![r] = q]
  BY DEF Mcp!Answer
<1>4. mTasks' = left /\ UNCHANGED <<idles, done>> /\ reply' = [reply EXCEPT ![r] = what]
  BY DEF Mcp!Answer
<1> HIDE DEF q
<1>5. Goes(r, q)
  BY <1>2, <1>3, <1>4 DEF Goes
<1>6. /\ reply' \in [Requests -> {"none", "ok", "failed", "timeout", "applied"}]
      /\ reply'[r] = what
      /\ \A x \in Requests \ {r} : reply'[x] = reply[x]
  BY <1>1, <1>4
<1>7. QED
  BY <1>2, <1>5, <1>6, EndKeeps

\* What follows a task, or its time-out.
LEMMA ContinueKeeps ==
    ASSUME McpInv, NEW r \in Requests, NEW left, left \subseteq mTasks,
           mTasks \ {<<r, request[r].stage>>} \subseteq left,
           request[r].pc = "wait",
           NEW result \in {"ok", "timeout"},
           \/ <<r, request[r].stage>> \in done /\ result = "ok"
           \/ /\ <<r, request[r].stage>> \notin done \cup left
              /\ gtk # <<"task", <<r, request[r].stage>>>>,
           Mcp!Continue(r, result, left), UNCHANGED <<gtk, held, acted>>
    PROVE  McpInv'
<1>1. /\ request[r] \in RequestRecords
      /\ reply \in [Requests -> {"none", "ok", "failed", "timeout", "applied"}]
      /\ reply[r] = "none"
  BY DEF McpInv, McpTypes, RepliesAreFinal
<1>2. /\ \A st \in McpStages : <<r, st>> \notin left
      /\ \A x \in Requests, st \in McpStages :
             x # r /\ <<x, st>> \in mTasks => <<x, st>> \in left
      /\ LetGo(r)
  BY GoneOn
<1>3. CASE request[r].stage = "tool" /\ Mcp!Answer(r, result, left)
  <2>1. result = "timeout" => r \notin acted /\ r \notin held
    BY <1>3 DEF McpInv, EffectsShow
  <2>2. QED
    BY <1>2, <1>3, <2>1, AnswerKeeps
<1>4. CASE request[r].stage = "get" /\ ~request[r].got /\ Mcp!Answer(r, "failed", left)
  <2>1. r \notin acted /\ r \notin held
    BY <1>4 DEF McpInv, EffectsShow
  <2>2. QED
    BY <1>2, <1>4, <2>1, AnswerKeeps
<1>5. CASE /\ request[r].stage = "get" /\ request[r].got
           /\ request' = [request EXCEPT ![r].pc = "edit"]
           /\ mTasks' = left
           /\ UNCHANGED <<idles, done, reply>>
  <2> DEFINE q == [request[r] EXCEPT !.pc = "edit"]
  <2>1. /\ q \in RequestRecords /\ q.pc = "edit"
        /\ q.stage = request[r].stage /\ q.got = request[r].got
    BY <1>1 DEF RequestRecords
  <2>2. request' = [request EXCEPT ![r] = q]
    BY <1>5
  <2> HIDE DEF q
  <2>3. Goes(r, q)
    BY <1>2, <1>5, <2>1, <2>2 DEF Goes
  <2>4. QED
    BY <1>1, <1>2, <1>5, <2>1, <2>3, EndKeeps
<1>6. CASE /\ request[r].stage = "apply"
           /\ Mcp!Dispatch(r, [request[r] EXCEPT !.stage = "release"], left)
           /\ UNCHANGED reply
  <2> DEFINE rec == [request[r] EXCEPT !.stage = "release"]
  <2>1. rec \in RequestRecords /\ rec.got = request[r].got /\ rec.stage = "release"
    BY <1>1 DEF RequestRecords, McpStages
  <2>2. Mcp!Dispatch(r, rec, left)
    BY <1>6
  <2> HIDE DEF rec
  <2> DEFINE q == [rec EXCEPT !.pc = "wait"]
  <2>3. Goes(r, q) /\ q.pc = "wait" /\ q.stage = "release"
    BY <1>2, <2>1, <2>2, DispatchGoes
  <2> HIDE DEF q
  <2>4. QED
    BY <1>1, <1>2, <1>6, <2>3, PostKeeps
<1>7. CASE /\ request[r].stage = "release"
           /\ Mcp!Answer(r, IF request[r].apply THEN "applied" ELSE "ok", left)
  <2> DEFINE what == IF request[r].apply THEN "applied" ELSE "ok"
  <2>1. what \in {"ok", "failed", "timeout", "applied"} /\ what \notin {"timeout", "failed"}
    OBVIOUS
  <2>2. Mcp!Answer(r, what, left)
    BY <1>7
  <2> HIDE DEF what
  <2>3. QED
    BY <1>2, <2>1, <2>2, AnswerKeeps
<1>8. QED
  BY <1>3, <1>4, <1>5, <1>6, <1>7 DEF Mcp!Continue

\* A request that returns or is out of time goes on.
LEMMA ReturnKeeps ==
    ASSUME McpInv, NEW r \in Requests, Mcp!Return(r) \/ Mcp!TimeOut(r)
    PROVE  McpInv'
<1>1. request[r].pc = "wait" /\ UNCHANGED <<gtk, held, acted>>
  BY DEF Mcp!Return, Mcp!TimeOut, Mcp!effects
<1>2. CASE Mcp!Return(r)
  <2>1. <<r, request[r].stage>> \in done /\ Mcp!Continue(r, "ok", mTasks)
    BY <1>2 DEF Mcp!Return, Mcp!Slot
  <2>2. QED
    BY <1>1, <2>1, ContinueKeeps
<1>3. CASE Mcp!TimeOut(r)
  <2> DEFINE left == mTasks \ {<<r, request[r].stage>>}
  <2>1. /\ <<r, request[r].stage>> \notin done
        /\ gtk # <<"task", <<r, request[r].stage>>>>
        /\ Mcp!Continue(r, "timeout", left)
    BY <1>3 DEF Mcp!TimeOut, Mcp!Slot
  <2>2. left \subseteq mTasks /\ <<r, request[r].stage>> \notin left
    OBVIOUS
  <2>3. mTasks \ {<<r, request[r].stage>>} \subseteq left
    OBVIOUS
  <2> HIDE DEF left
  <2>4. QED
    BY <1>1, <2>1, <2>2, <2>3, ContinueKeeps
<1>4. QED
  BY <1>2, <1>3

\* The GTK thread takes a task, or finds it taken back.
LEMMA RunIdleKeeps ==
    ASSUME McpInv, Mcp!RunIdle
    PROVE  McpInv'
<1>1. PICK s \in idles :
            /\ idles' = idles \ {s}
            /\ IF s \in mTasks THEN gtk' = <<"task", s>> /\ UNCHANGED done
               ELSE done' = done \cup {s} /\ UNCHANGED gtk
  BY DEF Mcp!RunIdle
<1>2. UNCHANGED <<request, mTasks, held, acted, reply>>
  BY DEF Mcp!RunIdle, Mcp!effects
<1>3. s \in Requests \X McpStages
  BY DEF McpInv, McpTypes
<1>4. /\ done \subseteq done' /\ done' \subseteq done \cup {s}
      /\ s \in mTasks => done' = done
      /\ \A t : gtk' = <<"task", t>> => t \in mTasks \/ gtk = <<"task", t>>
  <2>1. CASE s \in mTasks
    BY <1>1, <2>1
  <2>2. CASE s \notin mTasks
    BY <1>1, <2>2
  <2>3. QED
    BY <2>1, <2>2
<1>5. McpTypes'
  BY <1>1, <1>2 DEF McpInv, McpTypes
<1>6. TasksAreAwaited'
  BY <1>2, <1>4 DEF McpInv, TasksAreAwaited
<1>7. SlotsAreFresh'
  <2>1. \A r \in Requests : Reached(r)' = Reached(r)
    BY <1>2 DEF Reached
  <2>2. idles' \cup mTasks' \cup done' \subseteq idles \cup mTasks \cup done
    BY <1>1, <1>2, <1>4
  <2>3. QED
    BY <2>1, <2>2 DEF McpInv, SlotsAreFresh
<1>8. EffectsShow'
  BY <1>2, <1>4 DEF McpInv, EffectsShow
<1>9. RepliesAreFinal'
  BY <1>2 DEF McpInv, RepliesAreFinal
<1>10. QED
  BY <1>5, <1>6, <1>7, <1>8, <1>9 DEF McpInv

\* A task that ends was awaited, and its slot is done.
LEMMA TaskEndsKeeps ==
    ASSUME McpInv, NEW s \in Mcp!Slots, Mcp!TaskEnds(s)
    PROVE  McpInv'
<1>1. PICK r \in Requests, stage \in McpStages : s = <<r, stage>>
  BY DEF Mcp!Slots, Mcp!Stages, McpStages
<1>2. /\ s \in mTasks /\ s \notin done
      /\ request[r].pc = "wait" /\ request[r].stage = stage
  BY <1>1 DEF McpInv, TasksAreAwaited, Mcp!TaskEnds
<1>3. /\ gtk' = Mcp!Free
      /\ mTasks' = mTasks \ {s} /\ done' = done \cup {s}
      /\ UNCHANGED <<idles, reply>>
  BY DEF Mcp!TaskEnds
<1>4. /\ stage = "get" => /\ acted' = acted
                          /\ \E found \in BOOLEAN :
                                /\ held' = IF found THEN held \cup {r} ELSE held
                                /\ request' = [request EXCEPT ![r].got = found]
      /\ stage \in {"tool", "apply"} =>
            acted' = acted \cup {r} /\ UNCHANGED <<held, request>>
      /\ stage = "release" => held' = held \ {r} /\ UNCHANGED <<acted, request>>
  BY <1>1 DEF Mcp!TaskEnds
<1>5. request[r] \in RequestRecords /\ request \in [Requests -> RequestRecords]
  BY DEF McpInv, McpTypes
<1>6. /\ request' \in [Requests -> RequestRecords]
      /\ \A x \in Requests :
            /\ request'[x].pc = request[x].pc
            /\ request'[x].stage = request[x].stage
            /\ x # r => request'[x] = request[x]
      /\ stage # "get" => request' = request
  <2>1. CASE stage = "get"
    <3>1. PICK found \in BOOLEAN : request' = [request EXCEPT ![r].got = found]
      BY <1>4, <2>1
    <3> DEFINE q == [request[r] EXCEPT !.got = found]
    <3>2. q \in RequestRecords /\ q.pc = request[r].pc /\ q.stage = request[r].stage
      BY <1>5 DEF RequestRecords
    <3>3. request' = [request EXCEPT ![r] = q]
      BY <3>1
    <3> HIDE DEF q
    <3>4. QED
      BY <1>5, <2>1, <3>2, <3>3
  <2>2. CASE stage # "get"
    BY <1>4, <1>5, <2>2 DEF McpStages
  <2>3. QED
    BY <2>1, <2>2
<1>7. McpTypes'
  BY <1>3, <1>6 DEF McpInv, McpTypes
<1>8. TasksAreAwaited'
  BY <1>1, <1>3, <1>6 DEF McpInv, TasksAreAwaited, Mcp!Free
<1>9. SlotsAreFresh'
  <2>1. \A x \in Requests : Reached(x)' = Reached(x)
    BY <1>6 DEF Reached
  <2>2. idles' \cup mTasks' \cup done' \subseteq idles \cup mTasks \cup done
    BY <1>2, <1>3
  <2>3. QED
    BY <2>1, <2>2 DEF McpInv, SlotsAreFresh
<1>10. ASSUME NEW x \in Requests
       PROVE  /\ request'[x].pc = "new" => request'[x].stage = "tool" /\ x \notin acted'
              /\ request'[x].pc = "edit" => request'[x].stage = "get"
              /\ request'[x].stage = "get" => x \notin acted'
              /\ request'[x].stage = "tool" /\ request'[x].pc = "wait" /\ x \in acted' => <<x, "tool">> \in done'
              /\ request'[x].stage = "tool" \/ <<x, "get">> \in mTasks' => ~request'[x].got
              /\ ~request'[x].got => x \notin held'
  <2>1. <<x, "get">> \in mTasks' => <<x, "get">> \in mTasks /\ (x = r => stage # "get")
    BY <1>1, <1>3
  <2>2. CASE x # r
    <3>1. request'[x] = request[x]
      BY <1>6, <2>2
    <3>2. /\ x \in acted' => x \in acted
          /\ x \in held' => x \in held
      BY <1>4, <2>2 DEF McpStages
    <3>3. QED
      BY <1>3, <2>1, <3>1, <3>2 DEF McpInv, EffectsShow
  <2>3. CASE x = r /\ stage = "get"
    <3>1. PICK found \in BOOLEAN :
                /\ held' = IF found THEN held \cup {r} ELSE held
                /\ request' = [request EXCEPT ![r].got = found]
      BY <1>4, <2>3
    <3>2. request'[r].got = found
      BY <1>5, <3>1 DEF RequestRecords
    <3>3. r \notin held /\ r \notin acted /\ acted' = acted
      BY <1>1, <1>2, <1>4, <2>3 DEF McpInv, EffectsShow
    <3>4. ~request'[r].got => r \notin held'
      BY <3>1, <3>2, <3>3
    <3>5. <<r, "get">> \notin mTasks'
      BY <1>1, <1>3, <2>3
    <3>6. QED
      BY <1>2, <1>6, <2>3, <3>3, <3>4, <3>5
  <2>4. CASE x = r /\ stage # "get"
    <3>1. request' = request /\ held' \subseteq held
      BY <1>4, <1>6, <2>4 DEF McpStages
    <3>2. stage = "tool" => <<r, "tool">> \in done'
      BY <1>1, <1>3
    <3>3. QED
      BY <1>2, <2>1, <2>4, <3>1, <3>2 DEF McpInv, EffectsShow
  <2>5. QED
    BY <2>2, <2>3, <2>4
<1>11. EffectsShow'
  BY <1>10 DEF EffectsShow
<1>12. RepliesAreFinal'
  <2>1. ASSUME NEW x \in Requests
        PROVE  /\ reply'[x] # "none" => request'[x].pc = "answered"
               /\ reply'[x] \in {"timeout", "failed"} => x \notin acted' /\ x \notin held'
    <3>1. CASE x = r
      BY <1>2, <1>3, <1>6, <3>1 DEF McpInv, RepliesAreFinal
    <3>2. CASE x # r
      <4>1. /\ x \in acted' => x \in acted
            /\ x \in held' => x \in held
        BY <1>4, <3>2 DEF McpStages
      <4>2. QED
        BY <1>3, <1>6, <4>1 DEF McpInv, RepliesAreFinal
    <3>3. QED
      BY <3>1, <3>2
  <2>2. QED
    BY <2>1 DEF RepliesAreFinal
<1>13. QED
  BY <1>7, <1>8, <1>9, <1>11, <1>12 DEF McpInv

\* A step that leaves the requests and their tasks alone, and starts none.
LEMMA QuietKeeps ==
    ASSUME McpInv, UNCHANGED <<request, idles, mTasks, done, held, acted, reply>>,
           \A s : gtk' = <<"task", s>> => gtk = gtk'
    PROVE  McpInv'
<1>1. \A r \in Requests : Reached(r)' = Reached(r)
  BY DEF Reached
<1>2. McpTypes' /\ SlotsAreFresh' /\ EffectsShow' /\ RepliesAreFinal'
  BY <1>1 DEF McpInv, McpTypes, SlotsAreFresh, EffectsShow, RepliesAreFinal
<1>3. TasksAreAwaited'
  BY DEF McpInv, TasksAreAwaited
<1>4. QED
  BY <1>2, <1>3 DEF McpInv

\* The server keeps the invariant.
LEMMA McpStep ==
    ASSUME McpInv, [Mcp!Next]_(Mcp!vars)
    PROVE  McpInv'
<1>1. CASE Mcp!Start
  <2>1. /\ UNCHANGED <<request, idles, mTasks, done, held, acted, reply>>
        /\ gtk' \in {Mcp!Starting, Mcp!Crashed}
    BY <1>1 DEF Mcp!Start, Mcp!slots, Mcp!effects
  <2>2. QED
    BY <2>1, QuietKeeps DEF Mcp!Starting, Mcp!Crashed
<1>2. CASE Mcp!Stop
  <2>1. /\ UNCHANGED <<request, idles, mTasks, done, held, acted, reply>>
        /\ gtk' = Mcp!Joining
    BY <1>2 DEF Mcp!Stop, Mcp!slots, Mcp!effects
  <2>2. QED
    BY <2>1, QuietKeeps DEF Mcp!Joining
<1>3. CASE Mcp!StartReturns \/ Mcp!Joined
  <2>1. /\ UNCHANGED <<request, idles, mTasks, done, held, acted, reply>>
        /\ gtk' = Mcp!Free
    BY <1>3 DEF Mcp!StartReturns, Mcp!Joined, Mcp!slots, Mcp!effects
  <2>2. QED
    BY <2>1, QuietKeeps DEF Mcp!Free
<1>4. CASE Mcp!ServerStep
  <2>1. UNCHANGED <<gtk, request, idles, mTasks, done, held, acted, reply>>
    BY <1>4 DEF Mcp!ServerStep, Mcp!Bind, Mcp!Listen, Mcp!Drained, Mcp!slots, Mcp!effects
  <2>2. QED
    BY <2>1, QuietKeeps
<1>5. CASE UNCHANGED Mcp!vars
  <2>1. UNCHANGED <<gtk, request, idles, mTasks, done, held, acted, reply>>
    BY <1>5 DEF Mcp!vars
  <2>2. QED
    BY <2>1, QuietKeeps
<1>6. QED
  BY <1>1, <1>2, <1>3, <1>4, <1>5, RunIdleKeeps, TaskEndsKeeps, ArriveKeeps, EditedKeeps,
     ReturnKeeps
  DEF Mcp!Next, Mcp!GtkStep, Mcp!RequestStep

\* A request that was told of a time-out, or of a failure, has done nothing
\* and never will (dispatchToGtk, runAutoEditTool).
THEOREM TimedOutIsHarmless == Mcp!Spec => []TimedOutDidNothing
<1>1. Mcp!Init => McpInv
  BY McpInit
<1>2. McpInv /\ [Mcp!Next]_(Mcp!vars) => McpInv'
  BY McpStep
<1>3. McpInv => TimedOutDidNothing
  BY DEF McpInv, RepliesAreFinal, TasksAreAwaited, TimedOutDidNothing,
     Mcp!TimedOutDidNothing,
         Mcp!Stages, McpStages
<1>4. QED
  BY <1>1, <1>2, <1>3, PTL DEF Mcp!Spec

Exports == INSTANCE BatchQueue WITH
    Jobs <- Photos, Workers <- Threads, NameOf <- OwnName,
    Batches <- Batches \cup CrashBatches, Overlap <- Overlap \cup CrashOverlap,
    Faults <- Faults \cup CrashFaults, idles <- bIdles

-----------------------------------------------------------------------------
(* Parts of a sequence. *)

\* The queue counts as everybody does.
LEMMA Counts == ASSUME NEW S PROVE Exports!Cardinality(S) = Cardinality(S)
BY DEF Exports!Cardinality, Cardinality

\* How many of I come before i.
Before(I, i) == Cardinality({j \in I : j < i})

\* The members of a finite set of numbers are counted by those before them.
LEMMA Ranks ==
    ASSUME NEW I \in SUBSET Nat, IsFiniteSet(I)
    PROVE  \A k \in 1 .. Cardinality(I) : \E i \in I :
              Before(I, i) = k - 1 /\ \A h \in I : Before(I, h) = k - 1 => h = i
<1> DEFINE n == Cardinality(I)
           R(i) == Before(I, i)
           f == [i \in I |-> R(i) + 1]
<1>0. n \in Nat
  BY FS_CardinalityType
<1>1. ASSUME NEW i \in I PROVE R(i) \in Nat /\ R(i) < n
  <2>1. {j \in I : j < i} \in SUBSET I /\ {j \in I : j < i} # I
    BY <1>1
  <2>2. IsFiniteSet({j \in I : j < i}) /\ R(i) <= n /\ R(i) # n
    BY <2>1, FS_Subset DEF Before
  <2>3. R(i) \in Nat
    BY <2>2, FS_CardinalityType DEF Before
  <2>4. QED
    BY <2>2, <2>3, <1>0
<1>2. ASSUME NEW i \in I, NEW h \in I, i < h PROVE R(i) < R(h)
  <2> DEFINE A == {j \in I : j < i}
             B == {j \in I : j < h}
  <2>0. i \in Nat /\ h \in Nat /\ i < h /\ \A j \in I : j \in Nat
    BY <1>2
  <2>1. A \subseteq B /\ i \in B /\ i \notin A
    <3>1. ~(i < i)
      BY <2>0
    <3>2. \A j \in I : j < i => j < h
      BY <2>0
    <3>3. QED
      BY <3>1, <3>2, <2>0, <1>2
  <2>2. IsFiniteSet(B)
    BY FS_Subset
  <2>3. Cardinality(A) <= Cardinality(B) /\ Cardinality(A) # Cardinality(B)
    BY <2>1, <2>2, FS_Subset
  <2>4. R(i) \in Nat /\ R(h) \in Nat
    BY <1>1
  <2>5. QED
    BY <2>3, <2>4 DEF Before
<1>3. ASSUME NEW i \in I, NEW h \in I, R(i) = R(h) PROVE i = h
  <2>1. i \in Nat /\ h \in Nat /\ R(i) \in Nat /\ R(h) \in Nat
    BY <1>1
  <2>2. ~(i < h) /\ ~(h < i)
    BY <1>2, <1>3, <2>1
  <2>3. QED
    BY <2>1, <2>2
<1>4. f \in [I -> 1 .. n]
  BY <1>0, <1>1
<1>5. f \in Injection(I, 1 .. n)
  <2>1. ASSUME NEW i \in I, NEW h \in I, f[i] = f[h] PROVE i = h
    <3>1. R(i) + 1 = R(h) + 1 /\ R(i) \in Nat /\ R(h) \in Nat
      BY <1>1, <2>1
    <3>2. R(i) = R(h)
      BY <3>1
    <3>3. QED
      BY <1>3, <3>2
  <2>2. QED
    BY <1>4, <2>1 DEF Injection, IsInjective
<1>6. IsFiniteSet(1 .. n) /\ Cardinality(1 .. n) = n
  BY <1>0, FS_Interval
<1>7. f \in Surjection(I, 1 .. n)
  BY <1>5, <1>6, FS_Injection
<1>8. ASSUME NEW k \in 1 .. n PROVE \E i \in I : f[i] = k
  BY <1>7 DEF Surjection
<1>9. SUFFICES ASSUME NEW k \in 1 .. n
               PROVE  \E i \in I : R(i) = k - 1 /\ \A h \in I : R(h) = k - 1 => h = i
  OBVIOUS
<1>10. PICK i \in I : f[i] = k
  BY <1>8
<1>11. R(i) = k - 1
  <2>1. R(i) \in Nat /\ R(i) + 1 = k
    BY <1>10, <1>1
  <2>2. QED
    BY <2>1, <1>0
<1>12. QED
  BY <1>11, <1>3

Part(s, I) == Exports!AtPlaces(s, I)

\* t lists the places I in their order, as Part does.
Lists(t, s, I) ==
    /\ t \in [1 .. Cardinality(I) -> I]
    /\ \A k \in 1 .. Cardinality(I) : Before(I, t[k]) = k - 1 /\ Part(s, I)[k] = s[t[k]]
    /\ \A i \in I : \E k \in 1 .. Cardinality(I) : t[k] = i

\* What AtPlaces takes, and in which order.
LEMMA Taken ==
    ASSUME NEW s, NEW I \in SUBSET Nat, IsFiniteSet(I)
    PROVE  /\ Cardinality(I) \in Nat
           /\ \E t : Lists(t, s, I)
<1> DEFINE n == Cardinality(I)
           R(i) == Before(I, i)
           t == [k \in 1 .. n |-> CHOOSE i \in I : R(i) = k - 1]
<1>0. n \in Nat
  BY FS_CardinalityType
<1>10. \A k \in 1 .. n : \E i \in I : R(i) = k - 1 /\ \A h \in I : R(h) = k - 1 => h = i
  BY Ranks
<1>1. ASSUME NEW k \in 1 .. n PROVE t[k] \in I /\ R(t[k]) = k - 1
  <2>1. \E i \in I : R(i) = k - 1
    BY <1>10
  <2>2. QED
    BY <2>1
<1>2. ASSUME NEW i \in I PROVE \E k \in 1 .. n : t[k] = i
  <2>1. {j \in I : j < i} \in SUBSET I /\ {j \in I : j < i} # I
    OBVIOUS
  <2>2. IsFiniteSet({j \in I : j < i}) /\ R(i) <= n /\ R(i) # n
    BY <2>1, FS_Subset DEF Before
  <2>3. R(i) \in Nat
    BY <2>2, FS_CardinalityType DEF Before
  <2>4. R(i) + 1 \in 1 .. n /\ (R(i) + 1) - 1 = R(i)
    BY <2>2, <2>3, <1>0
  <2>5. PICK k \in 1 .. n : k - 1 = R(i)
    BY <2>4
  <2>6. t[k] \in I /\ R(t[k]) = k - 1
    BY <1>1
  <2>7. t[k] = i
    BY <2>5, <2>6, <1>10
  <2>8. QED
    BY <2>7
<1>3. Part(s, I) = [k \in 1 .. n |-> s[t[k]]]
  <2>1. ASSUME NEW k \in 1 .. n
        PROVE  (CHOOSE i \in I : Exports!Cardinality({j \in I : j < i}) = k - 1) = t[k]
    <3>1. \A i \in I : Exports!Cardinality({j \in I : j < i}) = R(i)
      BY Counts DEF Before
    <3>2. t[k] \in I /\ R(t[k]) = k - 1 /\ \A h \in I : R(h) = k - 1 => h = t[k]
      BY <1>1, <1>10
    <3> HIDE DEF t, R
    <3>3. QED
      BY <3>1, <3>2
  <2>2. Part(s, I)
           = [k \in 1 .. Exports!Cardinality(I) |->
                s[CHOOSE i \in I : Exports!Cardinality({j \in I : j < i}) = k - 1]]
    BY DEF Part, Exports!AtPlaces
  <2>3. Exports!Cardinality(I) = n
    BY Counts
  <2>4. QED
    BY <2>1, <2>2, <2>3
<1>4. t \in [1 .. n -> I]
  BY <1>1
<1> HIDE DEF t
<1>6. \A k \in 1 .. n : Part(s, I)[k] = s[t[k]]
  BY <1>3
<1>7. Lists(t, s, I)
  BY <1>1, <1>2, <1>4, <1>6 DEF Lists
<1>8. QED
  BY <1>0, <1>7

LEMMA TakenAre ==
    ASSUME NEW S, NEW s, NEW I \in SUBSET Nat, IsFiniteSet(I), \A i \in I : s[i] \in S
    PROVE  Part(s, I) \in [1 .. Cardinality(I) -> S]
<1>1. PICK t : Lists(t, s, I)
  BY Taken
<1>2. \A k \in 1 .. Cardinality(I) : Part(s, I)[k] \in S
  BY <1>1 DEF Lists
<1>3. Exports!Cardinality(I) = Cardinality(I)
  BY Counts
<1>4. Part(s, I) = [k \in 1 .. Cardinality(I) |-> Part(s, I)[k]]
  BY <1>3 DEF Part, Exports!AtPlaces
<1>5. QED
  BY <1>2, <1>4

Listed(q) == {q[i] : i \in 1 .. Len(q)}
Distinct(q) == \A i, j \in 1 .. Len(q) : q[i] = q[j] => i = j

\* Without takes the members of A away, and leaves the first one the first.
LEMMA LeftOver ==
    ASSUME NEW S, NEW q \in Seq(S), NEW A
    PROVE  LET r == Exports!Without(q, A) IN
           /\ r \in Seq(S) /\ Listed(r) = Listed(q) \ A
           /\ Distinct(q) => Distinct(r)
           /\ q # <<>> /\ q[1] \notin A => r # <<>> /\ r[1] = q[1]
<1>0. PICK I : I = {i \in DOMAIN q : q[i] \notin A}
  OBVIOUS
<1> DEFINE n == Cardinality(I)
           r == Exports!Without(q, A)
<1>1. DOMAIN q = 1 .. Len(q) /\ Len(q) \in Nat
  OBVIOUS
<1>2. I \in SUBSET Nat /\ IsFiniteSet(I)
  <2>1. 1 \in Int /\ Len(q) \in Int /\ I \in SUBSET (1 .. Len(q)) /\ 1 .. Len(q) \subseteq Nat
    BY <1>0, <1>1
  <2>2. IsFiniteSet(1 .. Len(q))
    BY <2>1, FS_Interval
  <2>3. IsFiniteSet(I)
    BY <2>1, <2>2, FS_Subset
  <2>4. QED
    BY <2>1, <2>3
<1>3. r = Part(q, I)
  BY <1>0 DEF Part, Exports!Without
<1>4. ASSUME NEW i \in I PROVE i \in 1 .. Len(q) /\ q[i] \notin A /\ q[i] \in S
  BY <1>0, <1>1
<1>5. PICK t : Lists(t, q, I)
  BY <1>2, Taken
<1>6. n \in Nat /\ r \in [1 .. n -> S] /\ \A k \in 1 .. n : r[k] = q[t[k]]
  <2>1. n \in Nat /\ Part(q, I) \in [1 .. n -> S]
    BY <1>2, <1>4, Taken, TakenAre
  <2>2. QED
    BY <2>1, <1>3, <1>5 DEF Lists
<1> HIDE DEF r
<1>8. r \in Seq(S) /\ Len(r) = n
  BY <1>6
<1>9. Listed(r) \subseteq Listed(q) \ A
  BY <1>5, <1>6, <1>4, <1>8 DEF Listed, Lists
<1>10. ASSUME NEW x \in Listed(q) \ A PROVE x \in Listed(r)
  <2>1. PICK i \in 1 .. Len(q) : q[i] = x
    BY DEF Listed
  <2>2. i \in I
    BY <2>1, <1>0, <1>1
  <2>3. PICK k \in 1 .. n : t[k] = i
    BY <2>2, <1>5 DEF Lists
  <2>4. r[k] = x
    BY <2>1, <2>3, <1>6
  <2>5. QED
    BY <2>4, <1>8 DEF Listed
<1>11. ASSUME Distinct(q) PROVE Distinct(r)
  <2>1. ASSUME NEW k \in 1 .. n, NEW m \in 1 .. n, r[k] = r[m] PROVE k = m
    <3>1. t[k] \in 1 .. Len(q) /\ t[m] \in 1 .. Len(q) /\ q[t[k]] = q[t[m]]
      BY <2>1, <1>6, <1>4, <1>5 DEF Lists
    <3>2. t[k] = t[m]
      BY <3>1, <1>11 DEF Distinct
    <3>3. k - 1 = m - 1
      BY <3>2, <1>5 DEF Lists
    <3>4. QED
      BY <3>3, <1>6
  <2>2. QED
    BY <2>1, <1>8 DEF Distinct
<1>12. ASSUME q # <<>>, q[1] \notin A PROVE r # <<>> /\ r[1] = q[1]
  <2>1. 1 \in I
    BY <1>12, <1>0, <1>1
  <2>2. PICK k \in 1 .. n : t[k] = 1
    BY <2>1, <1>5 DEF Lists
  <2>3. {j \in I : j < 1} = {}
    BY <1>4
  <2>4. k - 1 = 0
    BY <2>2, <2>3, <1>5, FS_EmptySet DEF Before, Lists
  <2>5. k = 1
    BY <2>4, <1>6
  <2>6. 1 \in 1 .. n /\ r[1] = q[1]
    BY <2>5, <2>2, <1>6
  <2>7. QED
    BY <2>6, <1>8, <1>6
<1>13. QED
  BY <1>8, <1>9, <1>10, <1>11, <1>12 DEF r

\* r is q with j before what stands in place m.
InsertedIn(r, q, m, j) ==
    /\ Len(r) = Len(q) + 1
    /\ \A i \in 1 .. Len(r) : /\ i < m => r[i] = q[i]
                              /\ i = m => r[i] = j
                              /\ i > m => r[i] = q[i - 1]

LEMMA Inserted ==
    ASSUME NEW S, NEW q \in Seq(S), NEW m \in 1 .. Len(q) + 1, NEW j \in S
    PROVE  Exports!InsertAt(q, m, j) \in Seq(S) /\ InsertedIn(Exports!InsertAt(q, m, j), q, m, j)
<1> DEFINE a == SubSeq(q, 1, m - 1)
           b == SubSeq(q, m, Len(q))
           r == a \o <<j>> \o b
<1>0. Len(q) \in Nat /\ m \in Nat /\ m >= 1 /\ m <= Len(q) + 1
  OBVIOUS
<1>1. a \in Seq(S) /\ Len(a) = m - 1 /\ \A i \in 1 .. m - 1 : a[i] = q[i]
  BY <1>0
<1>2. b \in Seq(S) /\ Len(b) = Len(q) - m + 1 /\ \A i \in 1 .. Len(b) : b[i] = q[i + m - 1]
  <2>1. \A i \in m .. Len(q) : q[i] \in S
    BY <1>0
  <2>2. /\ b \in Seq(S) /\ Len(b) = (IF m <= Len(q) THEN Len(q) - m + 1 ELSE 0)
        /\ \A i \in 1 .. Len(q) - m + 1 : b[i] = q[m + i - 1]
    BY <1>0, <2>1, SubSeqProperties
  <2>3. Len(b) = Len(q) - m + 1
    BY <2>2, <1>0
  <2>4. ASSUME NEW i \in 1 .. Len(b) PROVE b[i] = q[i + m - 1]
    <3>1. i + m - 1 = m + i - 1
      BY <1>0
    <3>2. b[i] = q[m + i - 1]
      BY <2>2, <2>3
    <3>3. QED
      BY <3>1, <3>2
  <2>5. QED
    BY <2>2, <2>3, <2>4
<1> HIDE DEF a, b
<1>3. a \o <<j>> \in Seq(S) /\ Len(a \o <<j>>) = m
  BY <1>0, <1>1
<1>4. r \in Seq(S) /\ Len(r) = Len(q) + 1
  <2>1. r \in Seq(S) /\ Len(r) = Len(a \o <<j>>) + Len(b)
    BY <1>2, <1>3, ConcatProperties
  <2>2. m + (Len(q) - m + 1) = Len(q) + 1
    BY <1>0
  <2>3. QED
    BY <2>1, <2>2, <1>2, <1>3
<1>5. ASSUME NEW i \in 1 .. Len(q) + 1, i < m PROVE r[i] = q[i]
  <2>1. i \in 1 .. Len(a) /\ i \in 1 .. Len(a \o <<j>>)
    BY <1>0, <1>1, <1>3, <1>5
  <2>2. r[i] = (a \o <<j>>)[i]
    BY <2>1, <1>2, <1>3
  <2>3. (a \o <<j>>)[i] = a[i]
    BY <2>1, <1>1
  <2>4. QED
    BY <2>2, <2>3, <2>1, <1>1
<1>6. r[m] = j
  <2>1. m \in 1 .. Len(a \o <<j>>) /\ m = Len(a) + 1
    BY <1>0, <1>1, <1>3
  <2>2. r[m] = (a \o <<j>>)[m]
    BY <2>1, <1>2, <1>3
  <2>3. (a \o <<j>>)[m] = j
    BY <2>1, <1>1
  <2>4. QED
    BY <2>2, <2>3
<1>7. ASSUME NEW i \in 1 .. Len(q) + 1, i > m PROVE r[i] = q[i - 1]
  <2>0. PICK k \in Nat : k = i - m
    BY <1>0, <1>7
  <2>1. k \in 1 .. Len(b) /\ i = m + k /\ k + m - 1 = i - 1
    <3>1. k >= 1 /\ k <= Len(q) - m + 1 /\ i = m + k /\ k + m - 1 = i - 1
      BY <1>0, <1>7, <2>0
    <3>2. QED
      BY <3>1, <1>2, <1>0
  <2>2. r[i] = b[k]
    <3>1. i \in 1 .. Len(a \o <<j>>) + Len(b) /\ i > Len(a \o <<j>>) /\ i - Len(a \o <<j>>) = k
      <4>1. Len(b) \in Nat
        BY <1>2
      <4>2. i \in 1 .. m + Len(b) /\ i > m /\ i - m = k
        BY <1>0, <1>7, <2>0, <2>1, <4>1
      <4>3. QED
        BY <4>2, <1>3
    <3>2. QED
      BY <3>1, <1>2, <1>3, ConcatProperties
  <2>3. QED
    BY <2>1, <2>2, <1>2
<1>8. InsertedIn(r, q, m, j)
  BY <1>4, <1>5, <1>6, <1>7 DEF InsertedIn
<1>9. QED
  BY <1>4, <1>8 DEF Exports!InsertAt, a, b

LEMMA InsertedLast ==
    ASSUME NEW S, NEW q \in Seq(S), NEW j \in S
    PROVE  Append(q, j) \in Seq(S) /\ InsertedIn(Append(q, j), q, Len(q) + 1, j)
<1>1. /\ Append(q, j) \in Seq(S) /\ Len(Append(q, j)) = Len(q) + 1 /\ Len(q) \in Nat
      /\ \A i \in 1 .. Len(q) : Append(q, j)[i] = q[i]
      /\ Append(q, j)[Len(q) + 1] = j
  OBVIOUS
<1>2. QED
  BY <1>1 DEF InsertedIn

LEMMA InsertedKeeps ==
    ASSUME NEW S, NEW q \in Seq(S), NEW r \in Seq(S), NEW m \in 1 .. Len(q) + 1, NEW j \in S,
           InsertedIn(r, q, m, j), Distinct(q), j \notin Listed(q)
    PROVE  /\ Listed(r) = Listed(q) \cup {j} /\ Distinct(r)
           /\ q # <<>> /\ m # 1 => r # <<>> /\ r[1] = q[1]
<1> USE DEF InsertedIn
<1>0. Len(q) \in Nat /\ Len(r) = Len(q) + 1 /\ m \in 1 .. Len(r)
  OBVIOUS
<1>1. Listed(r) \subseteq Listed(q) \cup {j}
  <2>1. SUFFICES ASSUME NEW i \in 1 .. Len(r) PROVE r[i] \in Listed(q) \cup {j}
    BY DEF Listed
  <2>2. CASE i < m
    <3>1. i \in 1 .. Len(q)
      BY <1>0, <2>2
    <3>2. QED
      BY <2>2, <3>1 DEF Listed
  <2>3. CASE i = m
    BY <2>3
  <2>4. CASE i > m
    <3>1. i - 1 \in 1 .. Len(q)
      BY <1>0, <2>4
    <3>2. QED
      BY <2>4, <3>1 DEF Listed
  <2>5. QED
    BY <1>0, <2>2, <2>3, <2>4
<1>2. ASSUME NEW i \in 1 .. Len(q) PROVE q[i] \in Listed(r)
  <2>1. CASE i < m
    <3>1. i \in 1 .. Len(r)
      BY <1>0
    <3>2. QED
      BY <2>1, <3>1 DEF Listed
  <2>2. CASE ~(i < m)
    <3>1. i + 1 \in 1 .. Len(r) /\ i + 1 > m /\ (i + 1) - 1 = i
      BY <1>0, <2>2
    <3>2. r[i + 1] = q[i]
      BY <3>1
    <3>3. QED
      BY <3>1, <3>2 DEF Listed
  <2>3. QED
    BY <2>1, <2>2
<1>3. j \in Listed(r)
  BY <1>0 DEF Listed
<1>4. Listed(r) = Listed(q) \cup {j}
  BY <1>1, <1>2, <1>3, ZenonT(30) DEF Listed
<1>5. Distinct(r)
  <2> DEFINE back(i) == IF i < m THEN i ELSE i - 1
  <2>1. ASSUME NEW i \in 1 .. Len(r), i # m
        PROVE  back(i) \in 1 .. Len(q) /\ r[i] = q[back(i)]
    <3>1. CASE i < m
      BY <1>0, <3>1
    <3>2. CASE i > m
      BY <1>0, <3>2
    <3>3. QED
      BY <1>0, <2>1, <3>1, <3>2
  <2>2. SUFFICES ASSUME NEW i \in 1 .. Len(r), NEW k \in 1 .. Len(r), r[i] = r[k] PROVE i = k
    BY DEF Distinct
  <2>3. CASE i = m \/ k = m
    <3>1. ASSUME NEW h \in 1 .. Len(r), h # m PROVE r[h] # j
      <4>1. back(h) \in 1 .. Len(q) /\ r[h] = q[back(h)]
        BY <2>1, <3>1
      <4> HIDE DEF back
      <4>2. r[h] \in Listed(q)
        BY <4>1 DEF Listed
      <4>3. QED
        BY <4>2
    <3>2. QED
      BY <2>2, <2>3, <3>1
  <2>4. CASE i # m /\ k # m
    <3>1. back(i) = back(k)
      BY <2>1, <2>2, <2>4 DEF Distinct
    <3>2. QED
      BY <1>0, <2>4, <3>1
  <2>5. QED
    BY <2>3, <2>4
<1>6. ASSUME q # <<>>, m # 1 PROVE r # <<>> /\ r[1] = q[1]
  <2>1. 1 \in 1 .. Len(r) /\ 1 < m
    BY <1>0, <1>6
  <2>2. QED
    BY <2>1
<1>7. QED
  BY <1>4, <1>5, <1>6

\* The least of a finite set of numbers.
LEMMA LeastOf ==
    ASSUME NEW I \in SUBSET Nat, IsFiniteSet(I), I # {}
    PROVE  Exports!Min(I) \in I /\ \A i \in I : Exports!Min(I) <= i
<1>1. Cardinality(I) \in Nat /\ Cardinality(I) # 0
  BY FS_CardinalityType, FS_EmptySet
<1>2. 1 \in 1 .. Cardinality(I)
  BY <1>1
<1>3. PICK x \in I : Before(I, x) = 1 - 1
  BY <1>2, Ranks
<1>4. {j \in I : j < x} = {}
  <2>1. {j \in I : j < x} \in SUBSET I
    OBVIOUS
  <2>2. IsFiniteSet({j \in I : j < x})
    BY <2>1, FS_Subset
  <2>3. QED
    BY <2>2, <1>3, FS_EmptySet DEF Before
<1>5. \A j \in I : x <= j
  BY <1>4
<1>6. QED
  BY <1>5 DEF Exports!Min

\* The greatest.
LEMMA GreatestOf ==
    ASSUME NEW I \in SUBSET Nat, IsFiniteSet(I), I # {}
    PROVE  Exports!Max(I) \in I /\ \A i \in I : i <= Exports!Max(I)
<1> DEFINE n == Cardinality(I)
<1>1. n \in Nat /\ n # 0
  BY FS_CardinalityType, FS_EmptySet
<1>2. n \in 1 .. n
  BY <1>1
<1>3. PICK x \in I : Before(I, x) = n - 1
  BY <1>2, Ranks
<1>4. {j \in I : j < x} = I \ {x}
  <2>1. {j \in I : j < x} \in SUBSET (I \ {x})
    OBVIOUS
  <2>2. IsFiniteSet(I \ {x}) /\ Cardinality(I \ {x}) = n - 1
    BY FS_RemoveElement
  <2>3. QED
    BY <2>1, <2>2, <1>3, FS_Subset DEF Before
<1>5. \A j \in I : j <= x
  BY <1>4
<1>6. QED
  BY <1>5 DEF Exports!Max

\* Before the first entry that is not being developed.
LEMMA HeadOf ==
    ASSUME NEW S, NEW q \in Seq(S), NEW j \in S, Distinct(q), j \notin Listed(q)
    PROVE  LET r == Exports!ToHead(q, j) IN
           /\ r \in Seq(S) /\ Listed(r) = Listed(q) \cup {j} /\ Distinct(r)
           /\ q # <<>> /\ q[1] \in flagged => r # <<>> /\ r[1] = q[1]
<1>0. DOMAIN q = 1 .. Len(q) /\ Len(q) \in Nat
  OBVIOUS
<1>1. PICK I : I = {i \in DOMAIN q : q[i] \notin flagged}
  OBVIOUS
<1>2. CASE I = {}
  <2>1. Exports!ToHead(q, j) = Append(q, j)
    BY <1>1, <1>2 DEF Exports!ToHead
  <2>2. Append(q, j) \in Seq(S) /\ InsertedIn(Append(q, j), q, Len(q) + 1, j)
    BY InsertedLast
  <2>3. Len(q) + 1 \in 1 .. Len(q) + 1 /\ (q # <<>> => Len(q) + 1 # 1)
    BY <1>0
  <2>4. PICK r : r = Append(q, j)
    OBVIOUS
  <2>5. /\ Listed(r) = Listed(q) \cup {j} /\ Distinct(r)
        /\ q # <<>> /\ Len(q) + 1 # 1 => r # <<>> /\ r[1] = q[1]
    <3>1. PICK m \in 1 .. Len(q) + 1 : m = Len(q) + 1
      BY <2>3
    <3>2. r \in Seq(S) /\ InsertedIn(r, q, m, j)
      BY <2>2, <2>4, <3>1
    <3>3. QED
      BY <3>1, <3>2, InsertedKeeps
  <2>6. QED
    BY <2>1, <2>2, <2>3, <2>4, <2>5
<1>3. CASE I # {}
  <2> DEFINE m == Exports!Min(I)
  <2>1. I \in SUBSET Nat /\ IsFiniteSet(I)
    <3>1. 1 \in Int /\ Len(q) \in Int /\ I \in SUBSET (1 .. Len(q)) /\ 1 .. Len(q) \subseteq Nat
      BY <1>0, <1>1
    <3>2. IsFiniteSet(1 .. Len(q))
      BY <3>1, FS_Interval
    <3>3. QED
      BY <3>1, <3>2, FS_Subset
  <2>2. m \in I
    BY <2>1, <1>3, LeastOf
  <2>3. m \in 1 .. Len(q) + 1 /\ (m = 1 => q[1] \notin flagged)
    BY <2>2, <1>0, <1>1
  <2>4. Exports!ToHead(q, j) = Exports!InsertAt(q, m, j)
    BY <1>1, <1>3 DEF Exports!ToHead
  <2> HIDE DEF m
  <2>5. Exports!InsertAt(q, m, j) \in Seq(S) /\ InsertedIn(Exports!InsertAt(q, m, j), q, m, j)
    BY <2>3, Inserted
  <2>6. PICK r : r = Exports!InsertAt(q, m, j)
    OBVIOUS
  <2>7. /\ Listed(r) = Listed(q) \cup {j} /\ Distinct(r)
        /\ q # <<>> /\ m # 1 => r # <<>> /\ r[1] = q[1]
    BY <2>3, <2>5, <2>6, InsertedKeeps
  <2>8. QED
    BY <2>3, <2>4, <2>5, <2>6, <2>7
<1>4. QED
  BY <1>2, <1>3

\* At the end.
LEMMA Joined ==
    ASSUME NEW S, NEW q \in Seq(S), NEW b \in Seq(S), Distinct(q), Distinct(b),
           Listed(q) \cap Listed(b) = {}
    PROVE  LET r == q \o b IN
           /\ r \in Seq(S) /\ Listed(r) = Listed(q) \cup Listed(b) /\ Distinct(r)
           /\ q # <<>> => r # <<>> /\ r[1] = q[1]
<1> DEFINE r == q \o b
           n == Len(q)
<1>1. /\ r \in Seq(S) /\ Len(r) = n + Len(b) /\ n \in Nat /\ Len(b) \in Nat
      /\ \A i \in 1 .. n + Len(b) : r[i] = IF i <= n THEN q[i] ELSE b[i - n]
  BY ConcatProperties
<1> HIDE DEF r
<1>2. ASSUME NEW i \in 1 .. Len(r)
      PROVE  \/ i \in 1 .. n /\ r[i] = q[i] /\ r[i] \in Listed(q)
             \/ i > n /\ i - n \in 1 .. Len(b) /\ r[i] = b[i - n] /\ r[i] \in Listed(b)
  <2>1. CASE i <= n
    <3>1. i \in 1 .. n /\ r[i] = q[i]
      BY <1>1, <2>1
    <3>2. QED
      BY <3>1 DEF Listed
  <2>2. CASE i > n
    <3>1. i - n \in 1 .. Len(b) /\ r[i] = b[i - n]
      BY <1>1, <2>2
    <3>2. QED
      BY <2>2, <3>1 DEF Listed
  <2>3. QED
    BY <1>1, <2>1, <2>2
<1>3. Listed(r) \subseteq Listed(q) \cup Listed(b)
  BY <1>2 DEF Listed
<1>4. ASSUME NEW i \in 1 .. n PROVE q[i] \in Listed(r)
  <2>1. i \in 1 .. Len(r) /\ r[i] = q[i]
    BY <1>1
  <2>2. QED
    BY <2>1 DEF Listed
<1>5. ASSUME NEW i \in 1 .. Len(b) PROVE b[i] \in Listed(r)
  <2>1. i + n \in 1 .. Len(r) /\ i + n > n /\ (i + n) - n = i
    BY <1>1
  <2>2. r[i + n] = b[i]
    BY <1>1, <2>1
  <2>3. QED
    BY <2>1, <2>2 DEF Listed
<1>6. Listed(r) = Listed(q) \cup Listed(b)
  BY <1>3, <1>4, <1>5 DEF Listed
<1>7. Distinct(r)
  <2>1. SUFFICES ASSUME NEW i \in 1 .. Len(r), NEW k \in 1 .. Len(r), r[i] = r[k] PROVE i = k
    BY DEF Distinct
  <2>2. CASE i \in 1 .. n /\ r[i] = q[i] /\ k \in 1 .. n /\ r[k] = q[k]
    BY <2>1, <2>2 DEF Distinct
  <2>3. CASE i > n /\ i - n \in 1 .. Len(b) /\ r[i] = b[i - n]
             /\ k > n /\ k - n \in 1 .. Len(b) /\ r[k] = b[k - n]
    <3>1. i - n = k - n
      BY <2>1, <2>3 DEF Distinct
    <3>2. QED
      BY <3>1, <1>1
  <2>4. QED
    BY <2>1, <2>2, <2>3, <1>2
<1>8. ASSUME q # <<>> PROVE r # <<>> /\ r[1] = q[1]
  <2>1. 1 <= n /\ 1 \in 1 .. n + Len(b)
    BY <1>1, <1>8
  <2>2. QED
    BY <2>1, <1>1
<1>9. QED
  BY <1>1, <1>6, <1>7, <1>8 DEF r

\* Without its first entry.
LEMMA TailOf ==
    ASSUME NEW S, NEW q \in Seq(S), q # <<>>, Distinct(q)
    PROVE  /\ Tail(q) \in Seq(S) /\ Distinct(Tail(q)) /\ Listed(Tail(q)) = Listed(q) \ {q[1]}
           /\ Tail(q) # <<>> => q[2] = Tail(q)[1] /\ q[2] \in Listed(q)
<1>1. /\ Len(q) \in Nat /\ Len(q) >= 1 /\ Tail(q) \in Seq(S) /\ Len(Tail(q)) = Len(q) - 1
      /\ \A i \in 1 .. Len(q) - 1 : Tail(q)[i] = q[i + 1]
  OBVIOUS
<1>2. Listed(Tail(q)) = Listed(q) \ {q[1]}
  <2>1. ASSUME NEW i \in 1 .. Len(Tail(q)) PROVE Tail(q)[i] \in Listed(q) \ {q[1]}
    <3>1. i + 1 \in 1 .. Len(q) /\ i + 1 # 1 /\ 1 \in 1 .. Len(q) /\ Tail(q)[i] = q[i + 1]
      BY <1>1
    <3>2. QED
      BY <3>1 DEF Listed, Distinct
  <2>2. ASSUME NEW i \in 1 .. Len(q), q[i] # q[1] PROVE q[i] \in Listed(Tail(q))
    <3>1. i - 1 \in 1 .. Len(Tail(q)) /\ (i - 1) + 1 = i
      BY <1>1, <2>2
    <3>2. Tail(q)[i - 1] = q[i]
      BY <1>1, <3>1
    <3>3. QED
      BY <3>1, <3>2 DEF Listed
  <2>3. QED
    BY <2>1, <2>2 DEF Listed
<1>3. Distinct(Tail(q))
  <2>1. SUFFICES ASSUME NEW i \in 1 .. Len(Tail(q)), NEW k \in 1 .. Len(Tail(q)),
                        Tail(q)[i] = Tail(q)[k]
                 PROVE  i = k
    BY DEF Distinct
  <2>2. i + 1 \in 1 .. Len(q) /\ k + 1 \in 1 .. Len(q) /\ q[i + 1] = q[k + 1]
    BY <1>1, <2>1
  <2>3. i + 1 = k + 1
    BY <2>2 DEF Distinct
  <2>4. QED
    BY <2>3, <1>1
<1>4. ASSUME Tail(q) # <<>> PROVE q[2] = Tail(q)[1] /\ q[2] \in Listed(q)
  <2>1. 1 \in 1 .. Len(q) - 1 /\ 2 \in 1 .. Len(q)
    BY <1>1, <1>4
  <2>2. QED
    BY <1>1, <2>1 DEF Listed
<1>5. QED
  BY <1>1, <1>2, <1>3, <1>4

-----------------------------------------------------------------------------
(* The list of exports, until the program dies. *)

ThreadPCs == {"none", "develop", "save", "erase", "button", "open", "lock", "rows", "unlink",
              "check", "clean", "tell", "post", "return", "err", "err2", "err3"}
GuiPCs == {"idle", "open", "lock", "rows", "tell", "post", "auto"}

ListTypes ==
    /\ fd \in Seq(Photos) /\ processing \in Photos \cup {None} /\ flagged \subseteq Photos
    /\ fate \in [Photos -> {"new", "queued", "developed", "cancelled"}]
    /\ pc \in [Threads \cup {Gui} -> ThreadPCs \cup GuiPCs]
    /\ pc[Gui] \in GuiPCs /\ \A w \in Threads : pc[w] \in ThreadPCs
    /\ todo \in Seq({"tell", "auto"})
    /\ job \in [Threads -> Photos \cup {None}]

\* One thread at a time has something to do.
OneExports == \A w, v \in Threads : pc[w] # "none" /\ pc[v] # "none" => w = v

\* The head of the list is the entry a thread develops, and nobody else's: but
\* for the moment in which error() has given it back to the user.
HeadInHand ==
    /\ flagged \subseteq {processing}
    /\ processing # None /\ (\A w \in Threads : pc[w] # "err2") =>
          fd # <<>> /\ fd[1] = processing /\ processing \in flagged
    /\ \A w \in Threads :
          /\ pc[w] \in {"develop", "save", "erase", "err", "err2"} => processing # None
          /\ pc[w] \in {"develop", "save", "erase"} => job[w] = processing
          /\ pc[w] = "err2" => flagged = {}

\* A job is in the list once, and only until it is developed.
ListedOnce ==
    /\ Distinct(fd)
    /\ \A j \in Listed(fd) : fate[j] # "new"
    /\ \A j \in Listed(fd) : fate[j] = "developed" =>
          processing = j /\ \E w \in Threads : pc[w] = "erase"

\* No job leaves that is neither developed nor cancelled, unless no name is left
\* for an image.
NoneDropped ==
    "name" \notin mishaps =>
       /\ \A j \in Photos : fate[j] = "queued" => j \in Listed(fd)
       /\ \A w \in Threads : pc[w] = "erase" => fate[processing] = "developed"

ListInv == ListTypes /\ OneExports /\ HeadInHand /\ ListedOnce /\ NoneDropped

LEMMA QueueNames == Gui \notin Threads /\ None \notin Photos /\ None \notin Names
BY QueueAssumption DEF Batch!ConstantsOK

LEMMA ListStarts == ASSUME Exports!Init PROVE ListInv
<1>1. Listed(fd) = {} /\ Distinct(fd)
  BY DEF Exports!Init, Listed, Distinct
<1>2. \A w \in Threads : pc[w] = "none"
  BY QueueNames DEF Exports!Init, Exports!Actors
<1>3. ListTypes
  BY QueueNames DEF Exports!Init, ListTypes, Exports!Actors, ThreadPCs, GuiPCs
<1>4. OneExports /\ HeadInHand
  BY <1>2 DEF OneExports, HeadInHand, Exports!Init
<1>5. ListedOnce /\ NoneDropped
  BY <1>1, <1>2 DEF ListedOnce, NoneDropped, Exports!Init
<1>6. QED
  BY <1>3, <1>4, <1>5 DEF ListInv

\* What does not touch the list, or who develops.
LEMMA OthersKeepList ==
    ASSUME ListInv, mishaps \subseteq mishaps', ListTypes', UNCHANGED <<fd, processing, flagged, fate>>,
           \A w \in Threads :
              \/ pc'[w] = pc[w] /\ job'[w] = job[w]
              \/ /\ pc[w] \notin {"none", "erase", "err2"}
                 /\ pc'[w] \notin {"develop", "save", "erase", "err", "err2"}
    PROVE  ListInv'
<1>1. OneExports'
  BY DEF ListInv, OneExports
<1>2. HeadInHand'
  BY DEF ListInv, HeadInHand
<1>3. \A w \in Threads : pc'[w] = "erase" <=> pc[w] = "erase"
  OBVIOUS
<1>4. ListedOnce' /\ NoneDropped'
  BY <1>3 DEF ListInv, ListedOnce, NoneDropped, Distinct, Listed
<1>5. QED
  BY <1>1, <1>2, <1>4 DEF ListInv

\* A step of a handler or a thread that saves the list, or tells of it.
LEMMA GoesOn ==
    ASSUME ListTypes, NEW a \in Exports!Actors, NEW at, a # Gui => at \in ThreadPCs,
           Exports!GoOn(a, at)
    PROVE  /\ pc' \in [Threads \cup {Gui} -> ThreadPCs \cup GuiPCs] /\ pc'[Gui] \in GuiPCs
           /\ \A w \in Threads : pc'[w] = IF a = w THEN at ELSE pc[w]
           /\ todo' \in Seq({"tell", "auto"})
<1> USE QueueNames DEF Exports!GoOn, ListTypes, Exports!Actors
<1>1. CASE a # Gui
  <2>1. a \in Threads /\ at \in ThreadPCs /\ pc' = [pc EXCEPT ![a] = at] /\ todo' = todo
    BY <1>1
  <2>2. QED
    BY <2>1, <1>1
<1>2. CASE a = Gui /\ todo = <<>>
  <2>1. pc' = [pc EXCEPT ![Gui] = "idle"] /\ todo' = todo
    BY <1>2
  <2>2. QED
    BY <2>1, <1>2 DEF GuiPCs
<1>3. CASE a = Gui /\ todo # <<>>
  <2>1. pc' = [pc EXCEPT ![Gui] = Head(todo)] /\ todo' = Tail(todo)
    BY <1>3
  <2>2. Head(todo) \in {"tell", "auto"} /\ Tail(todo) \in Seq({"tell", "auto"})
    BY <1>3
  <2>3. QED
    BY <2>1, <2>2, <1>3 DEF GuiPCs
<1>4. QED
  BY <1>1, <1>2, <1>3

LEMMA SaveOpenKeepsList ==
    ASSUME ListInv, mishaps \subseteq mishaps', NEW a \in Exports!Actors, Exports!SaveOpen(a) PROVE ListInv'
<1> USE QueueNames
<1>1. UNCHANGED <<fd, processing, flagged, fate, job>> /\ pc[a] = "open"
  BY DEF Exports!SaveOpen, Exports!queue
<1>2. /\ pc' \in [Threads \cup {Gui} -> ThreadPCs \cup GuiPCs] /\ pc'[Gui] \in GuiPCs
      /\ \A w \in Threads : a # w => pc'[w] = pc[w]
      /\ a \in Threads => pc'[a] \in {"lock", "tell"}
      /\ todo' \in Seq({"tell", "auto"})
  <2>1. CASE pc' = [pc EXCEPT ![a] = "lock"] /\ todo' = todo
    BY <2>1 DEF ListInv, ListTypes, Exports!Actors, ThreadPCs, GuiPCs
  <2>2. CASE Exports!GoOn(a, "tell")
    BY <2>2, GoesOn DEF ListInv, ThreadPCs
  <2>3. QED
    BY <2>1, <2>2 DEF Exports!SaveOpen
<1>3. ListTypes'
  BY <1>1, <1>2 DEF ListInv, ListTypes, ThreadPCs
<1>4. QED
  BY <1>1, <1>2, <1>3, OthersKeepList

LEMMA SaveLockKeepsList ==
    ASSUME ListInv, mishaps \subseteq mishaps', NEW a \in Exports!Actors, Exports!SaveLock(a) PROVE ListInv'
<1> USE QueueNames
<1>1. UNCHANGED <<fd, processing, flagged, fate, job>> /\ pc[a] = "lock"
  BY DEF Exports!SaveLock, Exports!queue, Exports!disk
<1>2. /\ pc' \in [Threads \cup {Gui} -> ThreadPCs \cup GuiPCs] /\ pc'[Gui] \in GuiPCs
      /\ \A w \in Threads : a # w => pc'[w] = pc[w]
      /\ a \in Threads => pc'[a] \in {"rows", "unlink"}
      /\ todo' \in Seq({"tell", "auto"})
  <2>1. CASE pc' = [pc EXCEPT ![a] = "rows"] /\ todo' = todo
    BY <2>1 DEF ListInv, ListTypes, Exports!Actors, ThreadPCs, GuiPCs
  <2>2. CASE Exports!GoOn(a, "unlink")
    BY <2>2, GoesOn DEF ListInv, ThreadPCs
  <2>3. QED
    BY <2>1, <2>2 DEF Exports!SaveLock
<1>3. ListTypes'
  BY <1>1, <1>2 DEF ListInv, ListTypes, ThreadPCs
<1>4. QED
  BY <1>1, <1>2, <1>3, OthersKeepList

LEMMA SaveRowKeepsList ==
    ASSUME ListInv, mishaps \subseteq mishaps', NEW a \in Exports!Actors, Exports!SaveRow(a) PROVE ListInv'
<1> USE QueueNames
<1>1. UNCHANGED <<fd, processing, flagged, fate, job>> /\ pc[a] = "rows"
  BY DEF Exports!SaveRow, Exports!queue
<1>2. /\ pc' \in [Threads \cup {Gui} -> ThreadPCs \cup GuiPCs] /\ pc'[Gui] \in GuiPCs
      /\ \A w \in Threads : a # w => pc'[w] = pc[w]
      /\ a \in Threads => pc'[a] \in {"rows", "unlink"}
      /\ todo' \in Seq({"tell", "auto"})
  <2>1. CASE UNCHANGED <<pc, todo>>
    BY <1>1, <2>1 DEF ListInv, ListTypes
  <2>2. CASE Exports!GoOn(a, "unlink")
    BY <2>2, GoesOn DEF ListInv, ThreadPCs
  <2>3. QED
    BY <2>1, <2>2 DEF Exports!SaveRow
<1>3. ListTypes'
  BY <1>1, <1>2 DEF ListInv, ListTypes, ThreadPCs
<1>4. QED
  BY <1>1, <1>2, <1>3, OthersKeepList

LEMMA TellKeepsList ==
    ASSUME ListInv, mishaps \subseteq mishaps', NEW a \in Exports!Actors, Exports!TellRead(a) \/ Exports!TellPost(a)
    PROVE  ListInv'
<1> USE QueueNames
<1>1. UNCHANGED <<fd, processing, flagged, fate, job>> /\ pc[a] \in {"tell", "post"}
  BY DEF Exports!TellRead, Exports!TellPost, Exports!queue, Exports!disk
<1>2. /\ pc' \in [Threads \cup {Gui} -> ThreadPCs \cup GuiPCs] /\ pc'[Gui] \in GuiPCs
      /\ \A w \in Threads : a # w => pc'[w] = pc[w]
      /\ a \in Threads => pc'[a] \in {"post", "return"}
      /\ todo' \in Seq({"tell", "auto"})
  <2>1. CASE pc' = [pc EXCEPT ![a] = "post"] /\ todo' = todo
    BY <2>1 DEF ListInv, ListTypes, Exports!Actors, ThreadPCs, GuiPCs
  <2>2. CASE Exports!GoOn(a, "return")
    BY <2>2, GoesOn DEF ListInv, ThreadPCs
  <2>3. QED
    BY <2>1, <2>2 DEF Exports!TellRead, Exports!TellPost
<1>3. ListTypes'
  BY <1>1, <1>2 DEF ListInv, ListTypes, ThreadPCs
<1>4. QED
  BY <1>1, <1>2, <1>3, OthersKeepList

\* The rest of imageReady(), and error() when it tells of its end.
LEMMA EndKeepsList ==
    ASSUME ListInv, mishaps \subseteq mishaps', NEW w \in Threads,
           \/ Exports!RemoveButtons(w) \/ Exports!Unlink(w) \/ Exports!CheckEmpty(w)
           \/ Exports!Clean(w) \/ Exports!ErrorTell(w)
    PROVE  ListInv'
<1> USE QueueNames
<1>1. /\ UNCHANGED <<fd, processing, flagged, fate, todo>>
      /\ pc[w] \in {"button", "unlink", "check", "clean", "err3"}
      /\ \E at \in {"open", "check", "clean", "tell", "none"} : pc' = [pc EXCEPT ![w] = at]
      /\ job' = job \/ job' = [job EXCEPT ![w] = None]
  BY DEF Exports!RemoveButtons, Exports!Unlink, Exports!CheckEmpty, Exports!Clean,
     Exports!ErrorTell, Exports!Moves, Exports!queue, Exports!disk
<1>2. ListTypes'
  BY <1>1 DEF ListInv, ListTypes, ThreadPCs
<1>3. ASSUME NEW v \in Threads, v # w PROVE pc'[v] = pc[v] /\ job'[v] = job[v]
  BY <1>1, <1>3 DEF ListInv, ListTypes
<1>4. pc'[w] \in {"open", "check", "clean", "tell", "none"}
  BY <1>1 DEF ListInv, ListTypes
<1>5. QED
  BY <1>1, <1>2, <1>3, <1>4, OthersKeepList

\* The other threads have nothing to do.
LEMMA Alone ==
    ASSUME ListInv, NEW w \in Threads, pc[w] # "none", NEW v \in Threads, v # w
    PROVE  pc[v] = "none"
BY DEF ListInv, OneExports

LEMMA DevelopKeepsList ==
    ASSUME ListInv, mishaps \subseteq mishaps', NEW w \in Threads, Exports!Develop(w) PROVE ListInv'
<1> USE QueueNames
<1>1. /\ UNCHANGED <<fd, processing, flagged, fate, todo, job>> /\ pc[w] = "develop"
      /\ \E at \in {"save", "err"} : pc' = [pc EXCEPT ![w] = at]
  BY DEF Exports!Develop, Exports!Moves, Exports!queue, Exports!disk
<1>2. /\ pc'[w] \in {"save", "err"}
      /\ \A v \in Threads : v # w => pc'[v] = pc[v]
      /\ \A v \in Threads : pc[v] # "erase" /\ pc[v] # "err2"
  BY <1>1, Alone DEF ListInv, ListTypes
<1>3. ListTypes'
  BY <1>1 DEF ListInv, ListTypes, ThreadPCs
<1>4. OneExports'
  BY <1>1, <1>2 DEF ListInv, OneExports
<1>5. HeadInHand'
  BY <1>1, <1>2 DEF ListInv, HeadInHand
<1>6. ListedOnce' /\ NoneDropped'
  BY <1>1, <1>2 DEF ListInv, ListedOnce, NoneDropped, Listed, Distinct
<1>7. QED
  BY <1>3, <1>4, <1>5, <1>6 DEF ListInv

LEMMA SaveImageKeepsList ==
    ASSUME ListInv, mishaps \subseteq mishaps', NEW w \in Threads, Exports!SaveImage(w) PROVE ListInv'
<1> USE QueueNames
<1>1. /\ UNCHANGED <<fd, processing, flagged, todo, job>> /\ pc[w] = "save" /\ processing \in Photos
      /\ \/ pc' = [pc EXCEPT ![w] = "erase"] /\ fate' = [fate EXCEPT ![processing] = "developed"]
         \/ /\ "name" \in mishaps' /\ pc' = [pc EXCEPT ![w] = "erase"]
            /\ UNCHANGED fate
         \/ pc' = [pc EXCEPT ![w] = "err"] /\ UNCHANGED fate
  BY DEF Exports!SaveImage, Exports!Moves, Exports!Mishap, Exports!queue, ListInv, ListTypes
<1>2. /\ pc'[w] \in {"erase", "err"}
      /\ \A v \in Threads : v # w => pc'[v] = pc[v] /\ pc[v] = "none"
      /\ \A v \in Threads : pc[v] # "erase" /\ pc[v] # "err2"
  BY <1>1, Alone DEF ListInv, ListTypes
<1>3. ListTypes'
  <2>1. fate' \in [Photos -> {"new", "queued", "developed", "cancelled"}]
    BY <1>1 DEF ListInv, ListTypes
  <2>2. \E at \in {"erase", "err"} : pc' = [pc EXCEPT ![w] = at]
    BY <1>1
  <2>3. /\ pc' \in [Threads \cup {Gui} -> ThreadPCs \cup GuiPCs]
        /\ pc'[Gui] \in GuiPCs /\ \A v \in Threads : pc'[v] \in ThreadPCs
    BY <2>2 DEF ListInv, ListTypes, ThreadPCs
  <2>4. QED
    BY <1>1, <2>1, <2>3 DEF ListInv, ListTypes
<1>4. OneExports'
  BY <1>1, <1>2 DEF ListInv, OneExports
<1>5. HeadInHand'
  BY <1>1, <1>2 DEF ListInv, HeadInHand
<1>6. /\ \A j \in Photos : j # processing => fate'[j] = fate[j]
      /\ fate'[processing] \in {fate[processing], "developed"}
      /\ fate' # fate => fate'[processing] = "developed" /\ pc'[w] = "erase"
      /\ "name" \notin mishaps' /\ pc'[w] = "erase" =>
            fate'[processing] = "developed"
  BY <1>1 DEF ListInv, ListTypes
<1>7. \A j \in Listed(fd) : j \in Photos
  BY DEF ListInv, ListTypes, Listed
<1>8. ListedOnce'
  BY <1>1, <1>2, <1>6, <1>7 DEF ListInv, ListedOnce, Listed, Distinct
<1>9. NoneDropped'
  BY <1>1, <1>2, <1>6 DEF ListInv, NoneDropped, Listed
<1>10. QED
  BY <1>3, <1>4, <1>5, <1>8, <1>9 DEF ListInv

LEMMA EraseKeepsList ==
    ASSUME ListInv, mishaps \subseteq mishaps', NEW w \in Threads, Exports!Erase(w) PROVE ListInv'
<1> USE QueueNames
<1>1. /\ pc[w] = "erase" /\ processing \in Photos /\ fd # <<>> /\ fd' = Tail(fd)
      /\ UNCHANGED <<fate, todo, job>>
  BY DEF Exports!Erase, Exports!disk, ListInv, ListTypes
<1>2. \A v \in Threads : v # w => pc[v] = "none"
  BY <1>1, Alone
<1>3. fd[1] = processing /\ flagged = {processing}
  BY <1>1, <1>2 DEF ListInv, HeadInHand
<1>4. /\ fd' \in Seq(Photos) /\ Distinct(fd') /\ Listed(fd') = Listed(fd) \ {processing}
      /\ Tail(fd) # <<>> => fd[2] = Tail(fd)[1] /\ fd[2] \in Listed(fd)
  BY <1>1, <1>3, TailOf DEF ListInv, ListTypes, ListedOnce
<1>5. Listed(fd) \subseteq Photos
  BY DEF ListInv, ListTypes, Listed
<1>6. \/ /\ processing' = fd[2] /\ flagged' = {fd[2]} /\ pc' = [pc EXCEPT ![w] = "button"]
         /\ Tail(fd) # <<>>
      \/ processing' = None /\ flagged' = {} /\ pc' = [pc EXCEPT ![w] = "open"]
  BY <1>3 DEF Exports!Erase
<1>7. pc'[w] \in {"button", "open"} /\ \A v \in Threads : v # w => pc'[v] = "none"
  BY <1>2, <1>6 DEF ListInv, ListTypes
<1>8. ListTypes'
  <2>1. processing' \in Photos \cup {None} /\ flagged' \subseteq Photos
    BY <1>4, <1>5, <1>6
  <2>2. \E at \in {"button", "open"} : pc' = [pc EXCEPT ![w] = at]
    BY <1>6
  <2>3. /\ pc' \in [Threads \cup {Gui} -> ThreadPCs \cup GuiPCs]
        /\ pc'[Gui] \in GuiPCs /\ \A v \in Threads : pc'[v] \in ThreadPCs
    BY <2>2 DEF ListInv, ListTypes, ThreadPCs
  <2>4. QED
    BY <1>1, <1>4, <2>1, <2>3 DEF ListInv, ListTypes
<1>9. OneExports'
  BY <1>7 DEF OneExports
<1>10. HeadInHand'
  BY <1>1, <1>4, <1>6, <1>7 DEF HeadInHand
<1>11. ListedOnce'
  BY <1>1, <1>4 DEF ListInv, ListedOnce
<1>12. NoneDropped'
  <2>1. SUFFICES ASSUME "name" \notin mishaps'
                 PROVE  \A j \in Photos : fate[j] = "queued" => j \in Listed(fd')
    BY <1>1, <1>7 DEF NoneDropped
  <2>2. fate[processing] = "developed"
    BY <2>1, <1>1 DEF ListInv, NoneDropped
  <2>3. QED
    BY <2>1, <2>2, <1>4 DEF ListInv, NoneDropped
<1>13. QED
  BY <1>8, <1>9, <1>10, <1>11, <1>12 DEF ListInv

LEMMA ReturnKeepsList ==
    ASSUME ListInv, mishaps \subseteq mishaps', NEW w \in Threads, Exports!Return(w) PROVE ListInv'
<1> USE QueueNames
<1>1. /\ UNCHANGED <<fd, processing, flagged, fate, todo>> /\ pc[w] = "return"
      /\ pc' = [pc EXCEPT ![w] = IF processing = None THEN "none" ELSE "develop"]
      /\ job' = [job EXCEPT ![w] = processing]
  BY DEF Exports!Return, Exports!Moves, Exports!queue, Exports!disk
<1>2. /\ pc'[w] = IF processing = None THEN "none" ELSE "develop"
      /\ job'[w] = processing
      /\ \A v \in Threads : v # w => pc'[v] = "none" /\ pc[v] = "none"
  BY <1>1, Alone DEF ListInv, ListTypes
<1>3. ListTypes'
  BY <1>1 DEF ListInv, ListTypes, ThreadPCs
<1>4. OneExports'
  BY <1>2 DEF OneExports
<1>5. HeadInHand'
  BY <1>1, <1>2 DEF ListInv, HeadInHand
<1>6. \A v \in Threads : pc[v] # "erase" /\ pc'[v] # "erase"
  BY <1>1, <1>2
<1>7. ListedOnce' /\ NoneDropped'
  BY <1>1, <1>6 DEF ListInv, ListedOnce, NoneDropped, Listed, Distinct
<1>8. QED
  BY <1>3, <1>4, <1>5, <1>7 DEF ListInv

LEMMA ErrorKeepsList ==
    ASSUME ListInv, mishaps \subseteq mishaps', NEW w \in Threads, Exports!ErrorFlag(w) \/ Exports!ErrorClear(w)
    PROVE  ListInv'
<1> USE QueueNames
<1>1. UNCHANGED <<fd, fate, todo, job>> /\ pc[w] \in {"err", "err2"}
  BY DEF Exports!ErrorFlag, Exports!ErrorClear, Exports!Moves, Exports!disk
<1>2. \A v \in Threads : v # w => pc[v] = "none"
  BY <1>1, Alone
<1>3. \/ /\ pc' = [pc EXCEPT ![w] = "err2"] /\ pc[w] = "err"
         /\ processing' = processing /\ flagged' = {}
      \/ pc' = [pc EXCEPT ![w] = "err3"] /\ processing' = None /\ flagged' = {}
  <2>1. CASE Exports!ErrorFlag(w)
    <3>1. pc[w] = "err"
      BY <2>1 DEF Exports!ErrorFlag, Exports!Moves
    <3>2. processing \in flagged /\ flagged \subseteq {processing}
      BY <3>1, <1>2 DEF ListInv, HeadInHand
    <3>3. QED
      BY <2>1, <3>1, <3>2 DEF Exports!ErrorFlag, Exports!Moves
  <2>2. CASE Exports!ErrorClear(w)
    <3>1. /\ pc[w] = "err2" /\ pc' = [pc EXCEPT ![w] = "err3"]
          /\ processing' = None /\ flagged' = flagged
      BY <2>2 DEF Exports!ErrorClear, Exports!Moves
    <3>2. flagged = {}
      BY <3>1 DEF ListInv, HeadInHand
    <3>3. QED
      BY <3>1, <3>2
  <2>3. QED
    BY <2>1, <2>2
<1>4. pc'[w] \in {"err2", "err3"} /\ \A v \in Threads : v # w => pc'[v] = "none"
  BY <1>2, <1>3 DEF ListInv, ListTypes
<1>5. ListTypes'
  BY <1>1, <1>3 DEF ListInv, ListTypes, ThreadPCs
<1>6. OneExports'
  BY <1>4 DEF OneExports
<1>7. HeadInHand'
  <2>1. pc'[w] = "err2" => processing' = processing /\ processing # None
    BY <1>3 DEF ListInv, ListTypes, HeadInHand
  <2>2. pc'[w] # "err2" => processing' = None
    BY <1>3 DEF ListInv, ListTypes
  <2>3. flagged' = {}
    BY <1>3
  <2>4. QED
    BY <1>4, <2>1, <2>2, <2>3 DEF HeadInHand
<1>8. \A v \in Threads : pc[v] # "erase" /\ pc'[v] # "erase"
  BY <1>1, <1>2, <1>4
<1>9. ListedOnce' /\ NoneDropped'
  BY <1>1, <1>8 DEF ListInv, ListedOnce, NoneDropped, Listed, Distinct
<1>10. QED
  BY <1>5, <1>6, <1>7, <1>9 DEF ListInv
-----------------------------------------------------------------------------
(* The user's handlers. *)

LEMMA BatchesAre ==
    ASSUME NEW sent \in Batches \cup CrashBatches
    PROVE  sent \in Seq(Photos) /\ Distinct(sent)
<1>1. CASE sent \in Batches
  BY <1>1, QueueAssumption DEF Batch!ConstantsOK, Batch!IsInjective, Distinct
<1>2. CASE sent \in CrashBatches
  BY <1>2, QueueAssumption DEF Crash!ConstantsOK, Crash!IsInjective, Distinct
<1>3. QED
  BY <1>1, <1>2

\* A handler that has changed the list goes on with what it calls next.
LEMMA Handled ==
    ASSUME ListTypes, NEW rest \in Seq({"tell", "auto"}), NEW next \in GuiPCs,
           pc' = [pc EXCEPT ![Gui] = next], todo' = rest
    PROVE  /\ pc' \in [Threads \cup {Gui} -> ThreadPCs \cup GuiPCs] /\ pc'[Gui] \in GuiPCs
           /\ \A w \in Threads : pc'[w] = pc[w]
           /\ todo' \in Seq({"tell", "auto"})
BY QueueNames DEF ListTypes

\* The user moves, cancels or adds entries, but not the one being developed.
LEMMA ListChanges ==
    ASSUME ListInv, mishaps \subseteq mishaps', ListTypes', Distinct(fd'), UNCHANGED <<processing, flagged, job>>,
           \A w \in Threads : pc'[w] = pc[w],
           fd # <<>> /\ fd[1] \in flagged => fd' # <<>> /\ fd'[1] = fd[1],
           \A j \in Listed(fd') : \/ j \in Listed(fd) /\ fate'[j] = fate[j]
                                  \/ fate'[j] = "queued",
           \A j \in Photos : fate'[j] = "queued" =>
              j \in Listed(fd') \/ (fate[j] = "queued" /\ j \notin Listed(fd)),
           processing \in flagged => fate'[processing] = fate[processing]
    PROVE  ListInv'
<1>1. OneExports'
  BY DEF ListInv, OneExports
<1>2. HeadInHand'
  BY DEF ListInv, HeadInHand
<1>3. ListedOnce'
  BY DEF ListInv, ListedOnce
<1>4. NoneDropped'
  <2>1. SUFFICES ASSUME "name" \notin mishaps'
                 PROVE  /\ \A j \in Photos : fate'[j] = "queued" => j \in Listed(fd')
                        /\ \A w \in Threads : pc'[w] = "erase" => fate'[processing'] = "developed"
    BY DEF NoneDropped
  <2>2. \A j \in Photos : fate'[j] = "queued" => j \in Listed(fd')
    BY <2>1 DEF ListInv, NoneDropped
  <2>3. ASSUME NEW w \in Threads, pc[w] = "erase" PROVE processing \in flagged
    <3>1. \A v \in Threads : pc[v] # "err2"
      BY <2>3, Alone
    <3>2. QED
      BY <2>3, <3>1 DEF ListInv, HeadInHand
  <2>4. QED
    BY <2>1, <2>2, <2>3 DEF ListInv, NoneDropped
<1>5. QED
  BY <1>1, <1>2, <1>3, <1>4 DEF ListInv

\* What addEntries() does to the list.
LEMMA Added ==
    ASSUME ListInv, NEW sent \in Batches \cup CrashBatches, NEW head \in BOOLEAN,
           head => Len(sent) = 1, Exports!AddEntries(sent, head)
    PROVE  /\ UNCHANGED <<processing, flagged, job>>
           /\ pc' = [pc EXCEPT ![Gui] = "open"] /\ todo' = <<"tell", "auto">>
           /\ fate' = [j \in Photos |-> IF j \in Listed(sent) THEN "queued" ELSE fate[j]]
           /\ \A j \in Listed(sent) : fate[j] = "new"
           /\ sent \in Seq(Photos) /\ Listed(sent) \subseteq Photos
           /\ Listed(fd) \cap Listed(sent) = {} /\ Listed(fd) \subseteq Photos
           /\ fd' \in Seq(Photos) /\ Distinct(fd') /\ Listed(fd') = Listed(fd) \cup Listed(sent)
           /\ fd # <<>> /\ fd[1] \in flagged => fd' # <<>> /\ fd'[1] = fd[1]
<1> USE QueueNames
<1>1. /\ UNCHANGED <<processing, flagged, job>>
      /\ pc' = [pc EXCEPT ![Gui] = "open"] /\ todo' = <<"tell", "auto">>
      /\ fate' = [j \in Photos |-> IF j \in Listed(sent) THEN "queued" ELSE fate[j]]
      /\ \A j \in Listed(sent) : fate[j] = "new"
      /\ fd' = IF head THEN Exports!ToHead(fd, sent[1]) ELSE fd \o sent
  <2>1. Exports!ToSet(sent) = Listed(sent) /\ sent \in Seq(Photos)
    BY BatchesAre DEF Exports!ToSet, Listed
  <2>2. /\ Exports!Handler(<<"open", "tell", "auto">>)
        /\ fate' = [j \in Photos |-> IF j \in Listed(sent) THEN "queued" ELSE fate[j]]
    BY <2>1 DEF Exports!AddEntries
  <2>3. /\ Head(<<"open", "tell", "auto">>) = "open"
        /\ Tail(<<"open", "tell", "auto">>) = <<"tell", "auto">>
    OBVIOUS
  <2>4. QED
    BY <2>1, <2>2, <2>3 DEF Exports!AddEntries, Exports!Handler, Listed
<1>2. sent \in Seq(Photos) /\ Distinct(sent) /\ fd \in Seq(Photos) /\ Distinct(fd)
  BY BatchesAre DEF ListInv, ListTypes, ListedOnce
<1>3. Listed(fd) \cap Listed(sent) = {} /\ Listed(fd) \subseteq Photos /\ Listed(sent) \subseteq Photos
  <2>1. Listed(fd) \subseteq Photos /\ Listed(sent) \subseteq Photos
    BY <1>2 DEF Listed
  <2>2. \A j \in Listed(fd) : fate[j] # "new"
    BY DEF ListInv, ListedOnce
  <2>3. QED
    BY <2>1, <2>2, <1>1
<1>4. /\ fd' \in Seq(Photos) /\ Distinct(fd') /\ Listed(fd') = Listed(fd) \cup Listed(sent)
      /\ fd # <<>> /\ fd[1] \in flagged => fd' # <<>> /\ fd'[1] = fd[1]
  <2>1. CASE head
    <3>1. sent[1] \in Photos /\ Listed(sent) = {sent[1]}
      <4>1. 1 .. Len(sent) = {1}
        <5>1. Len(sent) = 1
          BY <2>1
        <5>2. QED
          BY <5>1
      <4>2. QED
        BY <4>1, <1>2 DEF Listed
    <3>2. sent[1] \notin Listed(fd)
      BY <3>1, <1>3
    <3>3. QED
      BY <2>1, <3>1, <3>2, <1>1, <1>2, HeadOf
  <2>2. CASE ~head
    BY <2>2, <1>1, <1>2, <1>3, Joined
  <2>3. QED
    BY <2>1, <2>2
<1>5. QED
  BY <1>1, <1>2, <1>3, <1>4

LEMMA AddKeepsList ==
    ASSUME ListInv, mishaps \subseteq mishaps', NEW sent \in Batches \cup CrashBatches, NEW head \in BOOLEAN,
           head => Len(sent) = 1, Exports!AddEntries(sent, head)
    PROVE  ListInv'
<1> USE QueueNames
<1>1. /\ UNCHANGED <<processing, flagged, job>>
      /\ pc' = [pc EXCEPT ![Gui] = "open"] /\ todo' = <<"tell", "auto">>
      /\ fate' = [j \in Photos |-> IF j \in Listed(sent) THEN "queued" ELSE fate[j]]
  BY Added
<1>2. fd \in Seq(Photos)
  BY DEF ListInv, ListTypes
<1>3. Listed(fd) \cap Listed(sent) = {} /\ Listed(fd) \subseteq Photos /\ Listed(sent) \subseteq Photos
  BY Added
<1>4. /\ fd' \in Seq(Photos) /\ Distinct(fd') /\ Listed(fd') = Listed(fd) \cup Listed(sent)
      /\ fd # <<>> /\ fd[1] \in flagged => fd' # <<>> /\ fd'[1] = fd[1]
  BY Added
<1>5. ListTypes'
  <2>1. <<"tell", "auto">> \in Seq({"tell", "auto"}) /\ "open" \in GuiPCs
    BY DEF GuiPCs
  <2>2. /\ pc' \in [Threads \cup {Gui} -> ThreadPCs \cup GuiPCs] /\ pc'[Gui] \in GuiPCs
        /\ \A w \in Threads : pc'[w] = pc[w]
        /\ todo' \in Seq({"tell", "auto"})
    BY <2>1, <1>1, Handled DEF ListInv
  <2>3. fate' \in [Photos -> {"new", "queued", "developed", "cancelled"}]
    BY <1>1 DEF ListInv, ListTypes
  <2>4. QED
    BY <2>2, <2>3, <1>1, <1>4 DEF ListInv, ListTypes
<1>6. \A w \in Threads : pc'[w] = pc[w]
  BY <1>1 DEF ListInv, ListTypes
<1>7. processing \in flagged => fate'[processing] = fate[processing]
  <2>1. SUFFICES ASSUME processing \in flagged PROVE processing \in Photos /\ processing \notin Listed(sent)
    BY <1>1
  <2>2. processing \in Photos
    BY <2>1 DEF ListInv, ListTypes
  <2>3. \A w \in Threads : pc[w] # "err2"
    BY <2>1 DEF ListInv, HeadInHand
  <2>4. fd # <<>> /\ fd[1] = processing
    BY <2>1, <2>2, <2>3 DEF ListInv, HeadInHand
  <2>5. processing \in Listed(fd)
    BY <2>4, <1>2 DEF Listed
  <2>6. QED
    BY <2>2, <2>5, <1>3
<1>8. ASSUME NEW j \in Listed(fd')
      PROVE  (j \in Listed(fd) /\ fate'[j] = fate[j]) \/ fate'[j] = "queued"
  BY <1>1, <1>3, <1>4
<1>9. ASSUME NEW j \in Photos, fate'[j] = "queued"
      PROVE  j \in Listed(fd') \/ (fate[j] = "queued" /\ j \notin Listed(fd))
  <2>1. fate'[j] = IF j \in Listed(sent) THEN "queued" ELSE fate[j]
    BY <1>1
  <2>2. j \in Listed(fd) \/ j \in Listed(sent) => j \in Listed(fd')
    BY <1>4
  <2>3. QED
    BY <2>1, <2>2, <1>9
<1>10. UNCHANGED <<processing, flagged, job>>
  BY <1>1
<1>11. QED
  BY <1>4, <1>5, <1>6, <1>7, <1>8, <1>9, <1>10, ListChanges

LEMMA CancelKeepsList ==
    ASSUME ListInv, mishaps \subseteq mishaps', NEW items \in SUBSET Photos, Exports!CancelItems(items) PROVE ListInv'
<1> USE QueueNames
<1>1. PICK out : out = {j \in items : j \notin flagged /\ Exports!Contains(fd, j)}
  OBVIOUS
<1>2. /\ UNCHANGED <<processing, flagged, job>>
      /\ pc' = [pc EXCEPT ![Gui] = "open"] /\ todo' = <<"tell">>
      /\ fate' = [j \in Photos |-> IF j \in out THEN "cancelled" ELSE fate[j]]
      /\ fd' = Exports!Without(fd, out)
  <2>1. Head(<<"open", "tell">>) = "open" /\ Tail(<<"open", "tell">>) = <<"tell">>
    OBVIOUS
  <2>2. QED
    BY <1>1, <2>1 DEF Exports!CancelItems, Exports!Handler
<1>3. out \in SUBSET Photos /\ out \cap flagged = {} /\ out \subseteq Listed(fd)
  BY <1>1 DEF Exports!Contains, Listed
<1>4. fd \in Seq(Photos) /\ Distinct(fd)
  BY DEF ListInv, ListTypes, ListedOnce
<1>5. /\ fd' \in Seq(Photos) /\ Distinct(fd') /\ Listed(fd') = Listed(fd) \ out
      /\ fd # <<>> /\ fd[1] \in flagged => fd' # <<>> /\ fd'[1] = fd[1]
  BY <1>2, <1>3, <1>4, LeftOver
<1>6. ListTypes'
  <2>1. <<"tell">> \in Seq({"tell", "auto"}) /\ "open" \in GuiPCs
    BY DEF GuiPCs
  <2>2. /\ pc' \in [Threads \cup {Gui} -> ThreadPCs \cup GuiPCs] /\ pc'[Gui] \in GuiPCs
        /\ \A w \in Threads : pc'[w] = pc[w]
        /\ todo' \in Seq({"tell", "auto"})
    BY <2>1, <1>2, Handled DEF ListInv
  <2>3. fate' \in [Photos -> {"new", "queued", "developed", "cancelled"}]
    BY <1>2 DEF ListInv, ListTypes
  <2>4. QED
    BY <2>2, <2>3, <1>2, <1>5 DEF ListInv, ListTypes
<1>7. \A w \in Threads : pc'[w] = pc[w]
  BY <1>2 DEF ListInv, ListTypes
<1>8. processing \in flagged => fate'[processing] = fate[processing]
  BY <1>2, <1>3 DEF ListInv, ListTypes
<1>9. \A j \in Listed(fd) : j \in Photos
  BY <1>4 DEF Listed
<1>10. ASSUME NEW j \in Listed(fd')
       PROVE  (j \in Listed(fd) /\ fate'[j] = fate[j]) \/ fate'[j] = "queued"
  BY <1>2, <1>5, <1>9
<1>11. ASSUME NEW j \in Photos, fate'[j] = "queued"
       PROVE  j \in Listed(fd') \/ (fate[j] = "queued" /\ j \notin Listed(fd))
  <2>1. j \notin out /\ fate[j] = "queued"
    BY <1>2, <1>11
  <2>2. j \in Listed(fd) => j \in Listed(fd')
    BY <2>1, <1>5
  <2>3. QED
    BY <2>1, <2>2
<1>12. UNCHANGED <<processing, flagged, job>>
  BY <1>2
<1>13. QED
  BY <1>5, <1>6, <1>7, <1>8, <1>10, <1>11, <1>12, ListChanges

\* What headItems() and tailItems() do to the list.
LEMMA Moved ==
    ASSUME ListInv, NEW j \in Photos, Exports!HeadItem(j) \/ Exports!TailItem(j)
    PROVE  /\ UNCHANGED <<processing, flagged, job, fate>>
           /\ pc' = [pc EXCEPT ![Gui] = "open"] /\ todo' = <<>>
           /\ fd' \in Seq(Photos) /\ Distinct(fd') /\ Listed(fd') = Listed(fd)
           /\ fd # <<>> /\ fd[1] \in flagged => fd' # <<>> /\ fd'[1] = fd[1]
<1> USE QueueNames
<1>1. /\ UNCHANGED <<processing, flagged, job, fate>>
      /\ pc' = [pc EXCEPT ![Gui] = "open"] /\ todo' = <<>>
  <2>1. Head(<<"open">>) = "open" /\ Tail(<<"open">>) = <<>>
    OBVIOUS
  <2>2. QED
    BY <2>1 DEF Exports!HeadItem, Exports!TailItem, Exports!Handler, Exports!disk
<1>2. fd \in Seq(Photos) /\ Distinct(fd)
  BY DEF ListInv, ListTypes, ListedOnce
<1>3. PICK q : q = Exports!Without(fd, {j})
  OBVIOUS
<1>4. /\ q \in Seq(Photos) /\ Distinct(q) /\ Listed(q) = Listed(fd) \ {j} /\ j \notin Listed(q)
      /\ fd # <<>> /\ fd[1] \in flagged /\ j \notin flagged => q # <<>> /\ q[1] = fd[1]
  <2>1. PICK A : A = {j}
    OBVIOUS
  <2>2. q = Exports!Without(fd, A)
    BY <1>3, <2>1
  <2>3. /\ q \in Seq(Photos) /\ Distinct(q) /\ Listed(q) = Listed(fd) \ A
        /\ fd # <<>> /\ fd[1] \notin A => q # <<>> /\ q[1] = fd[1]
    BY <2>2, <1>2, LeftOver
  <2>4. QED
    BY <2>1, <2>3
<1>5. /\ fd' \in Seq(Photos) /\ Distinct(fd') /\ Listed(fd') = Listed(fd)
      /\ fd # <<>> /\ fd[1] \in flagged => fd' # <<>> /\ fd'[1] = fd[1]
  <2>1. CASE fd' = fd
    BY <1>2, <2>1
  <2>2. CASE fd' = Exports!ToHead(q, j) /\ j \in Listed(fd) /\ j \notin flagged
    <3>1. /\ fd' \in Seq(Photos) /\ Distinct(fd') /\ Listed(fd') = Listed(q) \cup {j}
          /\ q # <<>> /\ q[1] \in flagged => fd' # <<>> /\ fd'[1] = q[1]
      BY <2>2, <1>4, HeadOf
    <3>2. QED
      BY <2>2, <3>1, <1>4
  <2>3. CASE fd' = Append(q, j) /\ j \in Listed(fd) /\ j \notin flagged
    <3>1. PICK m : m = Len(q) + 1
      OBVIOUS
    <3>2. m \in 1 .. Len(q) + 1 /\ (q # <<>> => m # 1)
      BY <1>4, <3>1
    <3>3. fd' \in Seq(Photos) /\ InsertedIn(fd', q, m, j)
      BY <2>3, <3>1, <1>4, InsertedLast
    <3>4. /\ Listed(fd') = Listed(q) \cup {j} /\ Distinct(fd')
          /\ q # <<>> /\ m # 1 => fd' # <<>> /\ fd'[1] = q[1]
      BY <3>2, <3>3, <1>4, InsertedKeeps
    <3>5. QED
      BY <2>3, <3>2, <3>3, <3>4, <1>4
  <2>4. QED
    BY <2>1, <2>2, <2>3, <1>3 DEF Exports!HeadItem, Exports!TailItem, Exports!Contains, Listed
<1>6. QED
  BY <1>1, <1>5

LEMMA MoveKeepsList ==
    ASSUME ListInv, mishaps \subseteq mishaps', NEW j \in Photos, Exports!HeadItem(j) \/ Exports!TailItem(j) PROVE ListInv'
<1> USE QueueNames
<1>1. /\ UNCHANGED <<processing, flagged, job, fate>>
      /\ pc' = [pc EXCEPT ![Gui] = "open"] /\ todo' = <<>>
  BY Moved
<1>2. /\ fd' \in Seq(Photos) /\ Distinct(fd') /\ Listed(fd') = Listed(fd)
      /\ fd # <<>> /\ fd[1] \in flagged => fd' # <<>> /\ fd'[1] = fd[1]
  BY Moved
<1>3. ListTypes'
  <2>1. <<>> \in Seq({"tell", "auto"}) /\ "open" \in GuiPCs
    BY DEF GuiPCs
  <2>2. /\ pc' \in [Threads \cup {Gui} -> ThreadPCs \cup GuiPCs] /\ pc'[Gui] \in GuiPCs
        /\ \A w \in Threads : pc'[w] = pc[w]
        /\ todo' \in Seq({"tell", "auto"})
    BY <2>1, <1>1, Handled DEF ListInv
  <2>3. QED
    BY <2>2, <1>1, <1>2 DEF ListInv, ListTypes
<1>4. \A w \in Threads : pc'[w] = pc[w]
  BY <1>1 DEF ListInv, ListTypes
<1>5. ASSUME NEW i \in Listed(fd')
      PROVE  (i \in Listed(fd) /\ fate'[i] = fate[i]) \/ fate'[i] = "queued"
  BY <1>1, <1>2
<1>6. ASSUME NEW i \in Photos, fate'[i] = "queued"
      PROVE  i \in Listed(fd') \/ (fate[i] = "queued" /\ i \notin Listed(fd))
  <2>1. fate[i] = "queued"
    BY <1>1, <1>6
  <2>2. QED
    BY <2>1, <1>2
<1>7. UNCHANGED <<processing, flagged, job>> /\ (processing \in flagged => fate'[processing] = fate[processing])
  BY <1>1
<1>8. QED
  BY <1>2, <1>3, <1>4, <1>5, <1>6, <1>7, ListChanges
\* The head of the list is flagged and a thread created for it.
LEMMA StartKeepsList ==
    ASSUME ListInv, mishaps \subseteq mishaps', "start" \notin mishaps', Exports!StartBatchProc
    PROVE  ListInv'
<1> USE QueueNames
<1>1. UNCHANGED <<fd, fate, todo>>
  BY DEF Exports!StartBatchProc, Exports!disk
<1>2. CASE fd # <<>> /\ processing = None
  <2>1. PICK w \in Threads :
          /\ pc[w] = "none" /\ processing' = fd[1] /\ flagged' = flagged \cup {fd[1]}
          /\ job' = [job EXCEPT ![w] = fd[1]]
          /\ pc' = [pc EXCEPT ![w] = "develop", ![Gui] = "tell"]
          /\ Exports!Mishap("start", \E v \in Threads : Exports!Finishing(v))
    BY <1>2 DEF Exports!StartBatchProc
  <2>13. \A v \in Threads : ~Exports!Finishing(v)
    BY <2>1 DEF Exports!Mishap
  <2>2. \A v \in Threads : pc[v] = "none"
    BY <1>2, <2>13 DEF ListInv, HeadInHand, Exports!Finishing
  <2>3. flagged = {}
    BY <1>2 DEF ListInv, ListTypes, HeadInHand
  <2>4. fd \in Seq(Photos) /\ fd[1] \in Photos
    BY <1>2 DEF ListInv, ListTypes
  <2>5. /\ pc' \in [Threads \cup {Gui} -> ThreadPCs \cup GuiPCs]
        /\ pc'[Gui] = "tell" /\ pc'[w] = "develop"
        /\ \A v \in Threads : v # w => pc'[v] = "none"
    BY <2>1, <2>2 DEF ListInv, ListTypes, ThreadPCs, GuiPCs
  <2>6. job' \in [Threads -> Photos \cup {None}] /\ job'[w] = fd[1]
    BY <2>1, <2>4 DEF ListInv, ListTypes
  <2>7. ListTypes'
    BY <1>1, <2>1, <2>3, <2>4, <2>5, <2>6 DEF ListInv, ListTypes, ThreadPCs, GuiPCs
  <2>8. OneExports'
    BY <2>5 DEF OneExports
  <2>9. HeadInHand'
    BY <1>1, <1>2, <2>1, <2>3, <2>4, <2>5, <2>6 DEF HeadInHand
  <2>10. \A v \in Threads : pc[v] # "erase" /\ pc'[v] # "erase"
    BY <2>2, <2>5
  <2>11. ListedOnce' /\ NoneDropped'
    BY <1>1, <2>10 DEF ListInv, ListedOnce, NoneDropped, Listed, Distinct
  <2>12. QED
    BY <2>7, <2>8, <2>9, <2>11 DEF ListInv
<1>3. CASE ~(fd # <<>> /\ processing = None)
  <2>1. pc' = [pc EXCEPT ![Gui] = "idle"] /\ UNCHANGED <<processing, flagged, job>>
    BY <1>3 DEF Exports!StartBatchProc
  <2>2. ListTypes'
    BY <1>1, <2>1 DEF ListInv, ListTypes, GuiPCs
  <2>3. \A w \in Threads : pc'[w] = pc[w] /\ job'[w] = job[w]
    BY <2>1 DEF ListInv, ListTypes
  <2>4. QED
    BY <1>1, <2>1, <2>2, <2>3, OthersKeepList
<1>4. QED
  BY <1>2, <1>3

LEMMA StartsKeepList ==
    ASSUME ListInv, mishaps \subseteq mishaps', "start" \notin mishaps',
           Exports!AutoStart \/ Exports!StartOrStop
    PROVE  ListInv'
<1> USE QueueNames
<1>1. CASE Exports!StartBatchProc
  BY <1>1, StartKeepsList
<1>2. CASE Exports!GoOn(Gui, "idle") /\ UNCHANGED <<fd, processing, flagged, fate, job>>
  <2>1. /\ pc' \in [Threads \cup {Gui} -> ThreadPCs \cup GuiPCs] /\ pc'[Gui] \in GuiPCs
        /\ \A w \in Threads : pc'[w] = IF Gui = w THEN "idle" ELSE pc[w]
        /\ todo' \in Seq({"tell", "auto"})
    BY <1>2, GoesOn DEF ListInv, Exports!Actors
  <2>2. \A w \in Threads : pc'[w] = pc[w] /\ job'[w] = job[w]
    BY <2>1, <1>2
  <2>3. ListTypes'
    BY <2>1, <2>2, <1>2 DEF ListInv, ListTypes
  <2>4. QED
    BY <1>2, <2>2, <2>3, OthersKeepList
<1>3. CASE UNCHANGED <<fd, processing, flagged, fate, job, pc, todo>>
  <2>1. ListTypes'
    BY <1>3 DEF ListInv, ListTypes
  <2>2. QED
    BY <1>3, <2>1, OthersKeepList
<1>4. QED
  BY <1>1, <1>2, <1>3 DEF Exports!AutoStart, Exports!StartOrStop,
     Exports!queue, Exports!disk, Exports!control

\* The callbacks of the GUI loop.
LEMMA CallbacksKeepList ==
    ASSUME ListInv, mishaps \subseteq mishaps', Exports!QueueSizeChanged \/ Exports!RemoveCancelled PROVE ListInv'
<1>1. UNCHANGED <<fd, processing, flagged, fate, job, pc, todo>>
  BY DEF Exports!QueueSizeChanged, Exports!RemoveCancelled, Exports!queue, Exports!disk,
     Exports!control
<1>2. ListTypes'
  BY <1>1 DEF ListInv, ListTypes
<1>3. QED
  BY <1>1, <1>2, OthersKeepList

-----------------------------------------------------------------------------
(* Every step of either queue, until the program dies. *)

LEMMA SavesKeepList ==
    ASSUME ListInv, mishaps \subseteq mishaps', NEW a \in Exports!Actors, Exports!Saves(a) PROVE ListInv'
BY SaveOpenKeepsList, SaveLockKeepsList, SaveRowKeepsList, TellKeepsList DEF Exports!Saves

LEMMA ThreadKeepsList ==
    ASSUME ListInv, mishaps \subseteq mishaps', NEW w \in Threads, Exports!WorkerStep(w) PROVE ListInv'
<1>1. w \in Exports!Actors
  BY DEF Exports!Actors
<1>2. CASE Exports!Saves(w)
  BY <1>1, <1>2, SavesKeepList
<1>3. CASE \/ Exports!RemoveButtons(w) \/ Exports!Unlink(w) \/ Exports!CheckEmpty(w)
           \/ Exports!Clean(w) \/ Exports!ErrorTell(w)
  BY <1>3, EndKeepsList
<1>4. CASE Exports!ErrorFlag(w) \/ Exports!ErrorClear(w)
  BY <1>4, ErrorKeepsList
<1>5. QED
  BY <1>2, <1>3, <1>4, DevelopKeepsList, SaveImageKeepsList, EraseKeepsList, ReturnKeepsList
  DEF Exports!WorkerStep

\* What a queue does without a crash, whatever may overlap or fail in it.
ExportStep ==
    \/ \E w \in Threads : Exports!WorkerStep(w)
    \/ Exports!GuiStep
    \/ \E sent \in Batches \cup CrashBatches, head \in BOOLEAN :
          (head => Len(sent) = 1) /\ Exports!AddEntries(sent, head)
    \/ \E items \in SUBSET Photos : Exports!CancelItems(items)
    \/ \E j \in Photos : Exports!HeadItem(j) \/ Exports!TailItem(j)
    \/ Exports!StartOrStop

\* What has happened, has happened.
LEMMA MishapsGrow == ASSUME ExportStep PROVE mishaps \subseteq mishaps'
<1>1. CASE \E w \in Threads : Exports!WorkerStep(w)
  BY <1>1 DEF Exports!WorkerStep, Exports!Saves, Exports!SaveOpen, Exports!SaveLock,
     Exports!SaveRow, Exports!TellRead, Exports!TellPost, Exports!Develop, Exports!SaveImage,
     Exports!Erase, Exports!RemoveButtons, Exports!Unlink, Exports!CheckEmpty, Exports!Clean,
     Exports!Return, Exports!ErrorFlag, Exports!ErrorClear, Exports!ErrorTell,
     Exports!Mishap, Exports!counts
<1>2. CASE Exports!GuiStep
  BY <1>2 DEF Exports!GuiStep, Exports!Saves, Exports!SaveOpen, Exports!SaveLock,
     Exports!SaveRow, Exports!TellRead, Exports!TellPost, Exports!AutoStart,
     Exports!StartBatchProc, Exports!QueueSizeChanged, Exports!RemoveCancelled,
     Exports!Mishap, Exports!counts
<1>3. QED
  BY <1>1, <1>2 DEF ExportStep, Exports!AddEntries, Exports!CancelItems, Exports!HeadItem,
     Exports!TailItem, Exports!StartOrStop, Exports!StartBatchProc, Exports!Mishap

LEMMA ListStays ==
    ASSUME ListInv, ExportStep, "start" \notin mishaps' PROVE ListInv'
<1>8. mishaps \subseteq mishaps'
  BY MishapsGrow
<1>1. CASE \E w \in Threads : Exports!WorkerStep(w)
  BY <1>1, <1>8, ThreadKeepsList
<1>2. CASE Exports!GuiStep
  <2>1. Gui \in Exports!Actors
    BY DEF Exports!Actors
  <2>2. QED
    BY <1>2, <1>8, <2>1, SavesKeepList, StartsKeepList, CallbacksKeepList DEF Exports!GuiStep
<1>3. CASE \E sent \in Batches \cup CrashBatches, head \in BOOLEAN :
              (head => Len(sent) = 1) /\ Exports!AddEntries(sent, head)
  BY <1>3, <1>8, AddKeepsList
<1>4. CASE \E items \in SUBSET Photos : Exports!CancelItems(items)
  BY <1>4, <1>8, CancelKeepsList
<1>5. CASE \E j \in Photos : Exports!HeadItem(j) \/ Exports!TailItem(j)
  BY <1>5, <1>8, MoveKeepsList
<1>6. CASE Exports!StartOrStop
  BY <1>6, <1>8, StartsKeepList
<1>7. QED
  BY <1>1, <1>2, <1>3, <1>4, <1>5, <1>6 DEF ExportStep
\* Without a crash.
LEMMA BatchIsOne == ASSUME Batch!Next PROVE ExportStep \/ Batch!Restart \/ Batch!Crash
<1> USE DEF Batch!queue, Exports!queue, Batch!panel, Exports!panel, Batch!disk, Exports!disk,
        Batch!control, Exports!control, Batch!counts, Exports!counts, Batch!CanWrite,
        Exports!CanWrite, Batch!Actors, Exports!Actors, Batch!GoOn, Exports!GoOn,
        Batch!Handler, Exports!Handler, Batch!Moves, Exports!Moves, Batch!May, Exports!May,
        Batch!Due, Exports!Due, Batch!Mishap, Exports!Mishap
<1>1. ASSUME NEW a, Batch!SaveOpen(a) PROVE Exports!SaveOpen(a)
  BY <1>1 DEF Batch!SaveOpen, Exports!SaveOpen
<1>2. ASSUME NEW a, Batch!SaveLock(a) PROVE Exports!SaveLock(a)
  BY <1>2 DEF Batch!SaveLock, Exports!SaveLock
<1>3. ASSUME NEW a, Batch!SaveRow(a) PROVE Exports!SaveRow(a)
  BY <1>3 DEF Batch!SaveRow, Exports!SaveRow, Batch!PutRow, Exports!PutRow
<1>4. ASSUME NEW a, Batch!TellRead(a) PROVE Exports!TellRead(a)
  BY <1>4 DEF Batch!TellRead, Exports!TellRead
<1>5. ASSUME NEW a, Batch!TellPost(a) PROVE Exports!TellPost(a)
  BY <1>5 DEF Batch!TellPost, Exports!TellPost
<1>6. ASSUME NEW w \in Threads, Batch!Develop(w) PROVE Exports!Develop(w)
  BY <1>6 DEF Batch!Develop, Exports!Develop
<1>7. ASSUME NEW w \in Threads, Batch!SaveImage(w) PROVE Exports!SaveImage(w)
  BY <1>7 DEF Batch!SaveImage, Exports!SaveImage
<1>8. ASSUME NEW w \in Threads, Batch!Erase(w) PROVE Exports!Erase(w)
  BY <1>8 DEF Batch!Erase, Exports!Erase
<1>9. ASSUME NEW w \in Threads, Batch!RemoveButtons(w) PROVE Exports!RemoveButtons(w)
  BY <1>9 DEF Batch!RemoveButtons, Exports!RemoveButtons
<1>10. ASSUME NEW w \in Threads, Batch!Unlink(w) PROVE Exports!Unlink(w)
  BY <1>10 DEF Batch!Unlink, Exports!Unlink
<1>11. ASSUME NEW w \in Threads, Batch!CheckEmpty(w) PROVE Exports!CheckEmpty(w)
  BY <1>11 DEF Batch!CheckEmpty, Exports!CheckEmpty
<1>12. ASSUME NEW w \in Threads, Batch!Clean(w) PROVE Exports!Clean(w)
  BY <1>12 DEF Batch!Clean, Exports!Clean
<1>13. ASSUME NEW w \in Threads, Batch!Return(w) PROVE Exports!Return(w)
  BY <1>13 DEF Batch!Return, Exports!Return
<1>14. ASSUME NEW w \in Threads, Batch!ErrorFlag(w) PROVE Exports!ErrorFlag(w)
  BY <1>14 DEF Batch!ErrorFlag, Exports!ErrorFlag
<1>15. ASSUME NEW w \in Threads, Batch!ErrorClear(w) PROVE Exports!ErrorClear(w)
  BY <1>15 DEF Batch!ErrorClear, Exports!ErrorClear
<1>16. ASSUME NEW w \in Threads, Batch!ErrorTell(w) PROVE Exports!ErrorTell(w)
  BY <1>16 DEF Batch!ErrorTell, Exports!ErrorTell
<1>17. ASSUME Batch!AutoStart PROVE Exports!AutoStart
  BY <1>17 DEF Batch!AutoStart, Exports!AutoStart, Batch!Finishing, Exports!Finishing,
     Batch!StartBatchProc, Exports!StartBatchProc
<1>18. ASSUME Batch!StartOrStop PROVE Exports!StartOrStop
  BY <1>18 DEF Batch!StartOrStop, Exports!StartOrStop, Batch!Finishing, Exports!Finishing,
     Batch!StartBatchProc, Exports!StartBatchProc
<1>19. ASSUME Batch!QueueSizeChanged PROVE Exports!QueueSizeChanged
  BY <1>19 DEF Batch!QueueSizeChanged, Exports!QueueSizeChanged
<1>20. ASSUME Batch!RemoveCancelled PROVE Exports!RemoveCancelled
  BY <1>20 DEF Batch!RemoveCancelled, Exports!RemoveCancelled
<1>21. ASSUME NEW sent \in Batches, NEW head \in BOOLEAN, Batch!AddEntries(sent, head)
      PROVE  Exports!AddEntries(sent, head)
  BY <1>21 DEF Batch!AddEntries, Exports!AddEntries, Batch!Finishing, Exports!Finishing,
     Batch!ToSet, Exports!ToSet, Batch!ToHead, Exports!ToHead, Batch!Min, Exports!Min,
     Batch!InsertAt, Exports!InsertAt, Batch!Max, Exports!Max
<1>22. ASSUME NEW items \in SUBSET Photos, Batch!CancelItems(items)
      PROVE  Exports!CancelItems(items)
  BY <1>22 DEF Batch!CancelItems, Exports!CancelItems, Batch!Finishing, Exports!Finishing,
     Batch!Contains, Exports!Contains, Batch!Without, Exports!Without, Batch!AtPlaces,
     Exports!AtPlaces, Batch!Cardinality, Exports!Cardinality
<1>23. ASSUME NEW j \in Photos, Batch!HeadItem(j) PROVE Exports!HeadItem(j)
  BY <1>23 DEF Batch!HeadItem, Exports!HeadItem, Batch!Finishing, Exports!Finishing,
     Batch!Contains, Exports!Contains, Batch!ToHead, Exports!ToHead, Batch!Min, Exports!Min,
     Batch!InsertAt, Exports!InsertAt, Batch!Without, Exports!Without, Batch!AtPlaces,
     Exports!AtPlaces, Batch!Cardinality, Exports!Cardinality
<1>24. ASSUME NEW j \in Photos, Batch!TailItem(j) PROVE Exports!TailItem(j)
  BY <1>24 DEF Batch!TailItem, Exports!TailItem, Batch!Finishing, Exports!Finishing,
     Batch!Contains, Exports!Contains, Batch!Without, Exports!Without, Batch!AtPlaces,
     Exports!AtPlaces, Batch!Cardinality, Exports!Cardinality
<1>25. QED
  BY <1>1, <1>2, <1>3, <1>4, <1>5, <1>6, <1>7, <1>8, <1>9, <1>10, <1>11, <1>12, <1>13, <1>14,
     <1>15, <1>16, <1>17, <1>18, <1>19, <1>20, <1>21, <1>22, <1>23, <1>24
  DEF ExportStep, Batch!Next, Batch!UserStep, Batch!WorkerStep, Exports!WorkerStep,
     Batch!GuiStep, Exports!GuiStep, Batch!Saves, Exports!Saves

\* With crashes, until the first.
LEMMA CrashIsOne == ASSUME Crash!Next PROVE ExportStep \/ Crash!Restart \/ Crash!Crash
<1> USE DEF Crash!queue, Exports!queue, Crash!panel, Exports!panel, Crash!disk, Exports!disk,
        Crash!control, Exports!control, Crash!counts, Exports!counts, Crash!CanWrite,
        Exports!CanWrite, Crash!Actors, Exports!Actors, Crash!GoOn, Exports!GoOn,
        Crash!Handler, Exports!Handler, Crash!Moves, Exports!Moves, Crash!May, Exports!May,
        Crash!Due, Exports!Due, Crash!Mishap, Exports!Mishap
<1>1. ASSUME NEW a, Crash!SaveOpen(a) PROVE Exports!SaveOpen(a)
  BY <1>1 DEF Crash!SaveOpen, Exports!SaveOpen
<1>2. ASSUME NEW a, Crash!SaveLock(a) PROVE Exports!SaveLock(a)
  BY <1>2 DEF Crash!SaveLock, Exports!SaveLock
<1>3. ASSUME NEW a, Crash!SaveRow(a) PROVE Exports!SaveRow(a)
  BY <1>3 DEF Crash!SaveRow, Exports!SaveRow, Crash!PutRow, Exports!PutRow
<1>4. ASSUME NEW a, Crash!TellRead(a) PROVE Exports!TellRead(a)
  BY <1>4 DEF Crash!TellRead, Exports!TellRead
<1>5. ASSUME NEW a, Crash!TellPost(a) PROVE Exports!TellPost(a)
  BY <1>5 DEF Crash!TellPost, Exports!TellPost
<1>6. ASSUME NEW w \in Threads, Crash!Develop(w) PROVE Exports!Develop(w)
  BY <1>6 DEF Crash!Develop, Exports!Develop
<1>7. ASSUME NEW w \in Threads, Crash!SaveImage(w) PROVE Exports!SaveImage(w)
  BY <1>7 DEF Crash!SaveImage, Exports!SaveImage
<1>8. ASSUME NEW w \in Threads, Crash!Erase(w) PROVE Exports!Erase(w)
  BY <1>8 DEF Crash!Erase, Exports!Erase
<1>9. ASSUME NEW w \in Threads, Crash!RemoveButtons(w) PROVE Exports!RemoveButtons(w)
  BY <1>9 DEF Crash!RemoveButtons, Exports!RemoveButtons
<1>10. ASSUME NEW w \in Threads, Crash!Unlink(w) PROVE Exports!Unlink(w)
  BY <1>10 DEF Crash!Unlink, Exports!Unlink
<1>11. ASSUME NEW w \in Threads, Crash!CheckEmpty(w) PROVE Exports!CheckEmpty(w)
  BY <1>11 DEF Crash!CheckEmpty, Exports!CheckEmpty
<1>12. ASSUME NEW w \in Threads, Crash!Clean(w) PROVE Exports!Clean(w)
  BY <1>12 DEF Crash!Clean, Exports!Clean
<1>13. ASSUME NEW w \in Threads, Crash!Return(w) PROVE Exports!Return(w)
  BY <1>13 DEF Crash!Return, Exports!Return
<1>14. ASSUME NEW w \in Threads, Crash!ErrorFlag(w) PROVE Exports!ErrorFlag(w)
  BY <1>14 DEF Crash!ErrorFlag, Exports!ErrorFlag
<1>15. ASSUME NEW w \in Threads, Crash!ErrorClear(w) PROVE Exports!ErrorClear(w)
  BY <1>15 DEF Crash!ErrorClear, Exports!ErrorClear
<1>16. ASSUME NEW w \in Threads, Crash!ErrorTell(w) PROVE Exports!ErrorTell(w)
  BY <1>16 DEF Crash!ErrorTell, Exports!ErrorTell
<1>17. ASSUME Crash!AutoStart PROVE Exports!AutoStart
  BY <1>17 DEF Crash!AutoStart, Exports!AutoStart, Crash!Finishing, Exports!Finishing,
     Crash!StartBatchProc, Exports!StartBatchProc
<1>18. ASSUME Crash!StartOrStop PROVE Exports!StartOrStop
  BY <1>18 DEF Crash!StartOrStop, Exports!StartOrStop, Crash!Finishing, Exports!Finishing,
     Crash!StartBatchProc, Exports!StartBatchProc
<1>19. ASSUME Crash!QueueSizeChanged PROVE Exports!QueueSizeChanged
  BY <1>19 DEF Crash!QueueSizeChanged, Exports!QueueSizeChanged
<1>20. ASSUME Crash!RemoveCancelled PROVE Exports!RemoveCancelled
  BY <1>20 DEF Crash!RemoveCancelled, Exports!RemoveCancelled
<1>21. ASSUME NEW sent \in CrashBatches, NEW head \in BOOLEAN, Crash!AddEntries(sent, head)
      PROVE  Exports!AddEntries(sent, head)
  BY <1>21 DEF Crash!AddEntries, Exports!AddEntries, Crash!Finishing, Exports!Finishing,
     Crash!ToSet, Exports!ToSet, Crash!ToHead, Exports!ToHead, Crash!Min, Exports!Min,
     Crash!InsertAt, Exports!InsertAt, Crash!Max, Exports!Max
<1>22. ASSUME NEW items \in SUBSET Photos, Crash!CancelItems(items)
      PROVE  Exports!CancelItems(items)
  BY <1>22 DEF Crash!CancelItems, Exports!CancelItems, Crash!Finishing, Exports!Finishing,
     Crash!Contains, Exports!Contains, Crash!Without, Exports!Without, Crash!AtPlaces,
     Exports!AtPlaces, Crash!Cardinality, Exports!Cardinality
<1>23. ASSUME NEW j \in Photos, Crash!HeadItem(j) PROVE Exports!HeadItem(j)
  BY <1>23 DEF Crash!HeadItem, Exports!HeadItem, Crash!Finishing, Exports!Finishing,
     Crash!Contains, Exports!Contains, Crash!ToHead, Exports!ToHead, Crash!Min, Exports!Min,
     Crash!InsertAt, Exports!InsertAt, Crash!Without, Exports!Without, Crash!AtPlaces,
     Exports!AtPlaces, Crash!Cardinality, Exports!Cardinality
<1>24. ASSUME NEW j \in Photos, Crash!TailItem(j) PROVE Exports!TailItem(j)
  BY <1>24 DEF Crash!TailItem, Exports!TailItem, Crash!Finishing, Exports!Finishing,
     Crash!Contains, Exports!Contains, Crash!Without, Exports!Without, Crash!AtPlaces,
     Exports!AtPlaces, Crash!Cardinality, Exports!Cardinality
<1>25. QED
  BY <1>1, <1>2, <1>3, <1>4, <1>5, <1>6, <1>7, <1>8, <1>9, <1>10, <1>11, <1>12, <1>13, <1>14,
     <1>15, <1>16, <1>17, <1>18, <1>19, <1>20, <1>21, <1>22, <1>23, <1>24
  DEF ExportStep, Crash!Next, Crash!UserStep, Crash!WorkerStep, Exports!WorkerStep,
     Crash!GuiStep, Exports!GuiStep, Crash!Saves, Exports!Saves

-----------------------------------------------------------------------------
(* The list of exports in every behaviour of the services. *)

LEMMA NoneCrash == ASSUME ExportStep PROVE crashes' = crashes
BY DEF ExportStep, Exports!WorkerStep, Exports!GuiStep, Exports!Saves, Exports!SaveOpen,
   Exports!SaveLock, Exports!SaveRow, Exports!TellRead, Exports!TellPost, Exports!Develop,
   Exports!SaveImage, Exports!Erase, Exports!RemoveButtons, Exports!Unlink,
   Exports!CheckEmpty, Exports!Clean, Exports!Return, Exports!ErrorFlag, Exports!ErrorClear,
   Exports!ErrorTell, Exports!AutoStart, Exports!StartOrStop, Exports!QueueSizeChanged,
   Exports!RemoveCancelled, Exports!AddEntries, Exports!CancelItems, Exports!HeadItem,
   Exports!TailItem, Exports!counts

ExportInv ==
    /\ crashes \in Nat
    /\ crashes = 0 /\ "start" \notin mishaps => ListInv

LEMMA ExportsStart == ASSUME AllInit PROVE ExportInv
<1>1. Exports!Init
  BY DEF AllInit, Batch!Init, Exports!Init, Batch!Actors, Exports!Actors
<1>2. QED
  BY <1>1, ListStarts DEF ExportInv, Exports!Init

\* Until the first crash, both queues take the steps of one, or none.
LEMMA StepsAre ==
    ASSUME ExportInv, [AllNext]_all
    PROVE  /\ crashes' \in Nat
           /\ crashes' = 0 /\ "start" \notin mishaps' =>
                 /\ crashes = 0 /\ "start" \notin mishaps
                 /\ ExportStep \/ UNCHANGED batchVars
<1>1. CASE UNCHANGED batchVars
  BY <1>1 DEF batchVars, ExportInv
<1>2. ASSUME Batch!Next \/ Crash!Next PROVE crashes' = crashes \/ crashes' = crashes + 1
  BY <1>2, BatchIsOne, CrashIsOne, NoneCrash DEF Batch!Crash, Crash!Crash, Batch!Restart,
     Crash!Restart, Batch!counts, Crash!counts
<1>6. ASSUME Batch!Next \/ Crash!Next PROVE mishaps \subseteq mishaps'
  BY <1>6, BatchIsOne, CrashIsOne, MishapsGrow DEF Batch!Crash, Crash!Crash, Batch!Restart,
     Crash!Restart, Batch!counts, Crash!counts
<1>3. ASSUME crashes = 0, crashes' = 0, "start" \notin mishaps, Batch!Next \/ Crash!Next
      PROVE  ExportStep
  <2>1. ListInv /\ pc[Gui] # "off"
    BY <1>3 DEF ExportInv, ListInv, ListTypes, GuiPCs
  <2>2. ~Batch!Crash /\ ~Crash!Crash /\ ~Batch!Restart /\ ~Crash!Restart
    BY <1>3, <2>1 DEF Batch!Crash, Crash!Crash, Batch!Restart, Crash!Restart
  <2>3. QED
    BY <1>3, <2>2, BatchIsOne, CrashIsOne
<1>4. ASSUME Batch!Next \/ Crash!Next
      PROVE  /\ crashes' \in Nat
             /\ crashes' = 0 /\ "start" \notin mishaps' =>
                   crashes = 0 /\ "start" \notin mishaps /\ ExportStep
  <2>1. crashes \in Nat /\ (crashes' = crashes \/ crashes' = crashes + 1)
    BY <1>2, <1>4 DEF ExportInv
  <2>2. QED
    BY <1>3, <1>4, <1>6, <2>1
<1>5. QED
  BY <1>1, <1>4 DEF AllNext, FolderActs, EditedActs, BatchActs, CrashActs, McpActs, all

LEMMA ExportsStay ==
    ASSUME ExportInv, [AllNext]_all PROVE ExportInv'
<1>1. CASE UNCHANGED batchVars
  <2>1. UNCHANGED <<fd, processing, flagged, fate, pc, todo, job, crashes, mishaps>>
    BY <1>1 DEF batchVars
  <2>2. ListTypes => ListTypes'
    BY <2>1 DEF ListTypes
  <2>3. ListInv => ListInv'
    BY <2>1, <2>2, OthersKeepList DEF ListInv
  <2>4. QED
    BY <2>1, <2>3 DEF ExportInv
<1>2. /\ crashes' \in Nat
      /\ crashes' = 0 /\ "start" \notin mishaps' =>
            /\ crashes = 0 /\ "start" \notin mishaps
            /\ ExportStep \/ UNCHANGED batchVars
  BY StepsAre
<1>3. QED
  BY <1>1, <1>2, ListStays DEF ExportInv

\* A photo that was developed is not developed again.
LEMMA DevelopedIsGone ==
    ASSUME crashes = 0 /\ "start" \notin mishaps => ListInv
    PROVE  crashes = 0 => DevelopedLeaves
<1>1. CASE crashes = 0 /\ "start" \notin mishaps
  <2>1. ListTypes /\ ListedOnce
    BY <1>1 DEF ListInv
  <2>2. \A i, k \in DOMAIN fd : fd[i] = fd[k] => i = k
    BY <2>1 DEF ListTypes, ListedOnce, Distinct
  <2>3. \A j \in Photos : fate[j] = "developed" /\ j \in Listed(fd) => processing = j
    BY <2>1 DEF ListedOnce
  <2>4. Batch!DevelopedLeaves
    BY <2>2, <2>3 DEF Batch!DevelopedLeaves, Batch!IsInjective, Batch!Contains, Listed
  <2>5. Crash!DevelopedLeaves
    BY <2>2, <2>3 DEF Crash!DevelopedLeaves, Crash!IsInjective, Crash!Contains, Listed
  <2>6. QED
    BY <2>4, <2>5 DEF DevelopedLeaves
<1>2. CASE "start" \in mishaps
  BY <1>2 DEF DevelopedLeaves, Batch!DevelopedLeaves, Crash!DevelopedLeaves
<1>3. QED
  BY <1>1, <1>2

LEMMA QueuedIsListed ==
    ASSUME crashes = 0 /\ "start" \notin mishaps => ListInv
    PROVE  crashes = 0 => Exports!NothingDropped
BY DEF ListInv, NoneDropped, Exports!NothingDropped, Exports!Contains, Listed

\* However photos are added, moved, cancelled and fail while others are developed
\* and finished, in any list and with any of the faults, no photo is in the list
\* twice, and one that was developed has left it or is its head, about to be
\* removed, for as long as no thread has been created while another was finishing
\* its photo: imageReady() and the handlers change fd under entryRW
\* (batchqueue.cc).
THEOREM DevelopedOnce == AllSpec => [](crashes = 0 => DevelopedLeaves)
<1>1. AllInit => ExportInv
  BY ExportsStart
<1>2. ExportInv /\ [AllNext]_all => ExportInv'
  BY ExportsStay
<1>3. ExportInv => (crashes = 0 => DevelopedLeaves)
  BY DevelopedIsGone DEF ExportInv
<1>4. QED
  BY <1>1, <1>2, <1>3, PTL DEF AllSpec

\* Nor is a photo passed over: one that was neither developed nor cancelled is in
\* the list, for as long as, besides, a name was left for every image.
THEOREM NoneIsDropped == AllSpec => [](crashes = 0 => Exports!NothingDropped)
<1>1. AllInit => ExportInv
  BY ExportsStart
<1>2. ExportInv /\ [AllNext]_all => ExportInv'
  BY ExportsStay
<1>3. ExportInv => (crashes = 0 => Exports!NothingDropped)
  BY QueuedIsListed DEF ExportInv
<1>4. QED
  BY <1>1, <1>2, <1>3, PTL DEF AllSpec

-----------------------------------------------------------------------------
(* What queue.csv and the parameter files hold, until the program dies. *)

Writing(a) == pc[a] \in {"lock", "rows"}

\* What stands in place k of the file of the list.
Row(k) == IF k = 1 THEN Header ELSE <<fd[k - 1], paramsOf[fd[k - 1]]>>

\* The list has changed, and who changed it has not begun to save it.
Dirty == pc[Gui] = "open" \/ \E w \in Threads : pc[w] \in {"button", "open"}

FileTypes ==
    /\ paramsOf \in [Photos -> Names \cup {None}]
    /\ \A j \in Photos : paramsOf[j] \in {None, OwnName(j)}
    /\ files \in [Names -> Photos \cup {None}]
    /\ csv \in Seq(Exports!Rows)
    /\ pos \in [Threads \cup {Gui} -> Nat]
    /\ old \in [Threads -> Names \cup {None}]
    /\ seen \in [Threads \cup {Gui} -> BOOLEAN]
    /\ bIdles \in Seq(Exports!Idles)

\* A writer that has the lock writes the list it finds.
InPlace ==
    /\ \A a \in Threads \cup {Gui} :
          /\ pc[a] = "lock" => pos[a] = 0
          /\ pc[a] = "rows" => fd # <<>> /\ pos[a] <= Len(fd)
    /\ \A w \in Threads : pc[w] = "clean" => fd = <<>>

\* Every line of queue.csv is one of the list as it is, and those that are
\* missing are still to be written by somebody.
Written ==
    ~Dirty =>
       /\ Len(csv) <= Len(fd) + 1
       /\ \A k \in 1 .. Len(csv) : csv[k] = Hole \/ csv[k] = Row(k)
       /\ fd # <<>> => \A k \in 1 .. Len(fd) + 1 :
             \/ k <= Len(csv) /\ csv[k] = Row(k)
             \/ \E a \in Threads \cup {Gui} : Writing(a) /\ a \notin gone /\ pos[a] < k

\* j has left the list, for good.
Left(j) == j \in Photos /\ j \notin Listed(fd) /\ fate[j] # "new"

\* Every entry has its own parameters, and only what has left the list loses them.
Owned ==
    /\ \A j \in Listed(fd) : paramsOf[j] # None => files[paramsOf[j]] = j
    /\ \A w \in Threads : pc[w] \in {"button", "open", "lock", "rows", "unlink"} =>
          old[w] = None \/ \E j \in Photos : old[w] = OwnName(j) /\ Left(j)
    /\ \A k \in 1 .. Len(bIdles) : bIdles[k].kind = "remove" =>
          \A j \in bIdles[k].entries : Left(j)

FileInv == FileTypes /\ InPlace /\ Written /\ Owned

\* What was sent stays sent.
LEMMA SentStays ==
    ASSUME ListInv, ListInv', ExportStep, NEW j \in Photos, fate[j] # "new"
    PROVE  fate'[j] # "new"
<1>1. fate \in [Photos -> {"new", "queued", "developed", "cancelled"}]
  BY DEF ListInv, ListTypes
<1>2. CASE \E w \in Threads : Exports!WorkerStep(w)
  BY <1>1, <1>2 DEF Exports!WorkerStep, Exports!Saves, Exports!SaveOpen, Exports!SaveLock,
     Exports!SaveRow, Exports!TellRead, Exports!TellPost, Exports!Develop, Exports!SaveImage,
     Exports!Erase, Exports!RemoveButtons, Exports!Unlink, Exports!CheckEmpty, Exports!Clean,
     Exports!Return, Exports!ErrorFlag, Exports!ErrorClear, Exports!ErrorTell, Exports!disk
<1>3. CASE Exports!GuiStep
  BY <1>3 DEF Exports!GuiStep, Exports!Saves, Exports!SaveOpen, Exports!SaveLock,
     Exports!SaveRow, Exports!TellRead, Exports!TellPost, Exports!AutoStart,
     Exports!StartBatchProc, Exports!QueueSizeChanged, Exports!RemoveCancelled, Exports!disk
<1>4. CASE \E i \in Photos : Exports!HeadItem(i) \/ Exports!TailItem(i)
  BY <1>4 DEF Exports!HeadItem, Exports!TailItem, Exports!disk
<1>5. CASE Exports!StartOrStop
  BY <1>5 DEF Exports!StartOrStop, Exports!StartBatchProc, Exports!disk
<1>6. CASE \E items \in SUBSET Photos : Exports!CancelItems(items)
  BY <1>1, <1>6 DEF Exports!CancelItems
<1>7. CASE \E sent \in Batches \cup CrashBatches, head \in BOOLEAN :
              (head => Len(sent) = 1) /\ Exports!AddEntries(sent, head)
  <2>1. PICK sent \in Batches \cup CrashBatches :
           fate' = [i \in Photos |-> IF i \in Exports!ToSet(sent) THEN "queued" ELSE fate[i]]
    BY <1>7 DEF Exports!AddEntries
  <2>2. QED
    BY <1>1, <2>1
<1>8. QED
  BY <1>2, <1>3, <1>4, <1>5, <1>6, <1>7 DEF ExportStep

\* Exports!OwnNames, with the names of the queue.
OwnNames ==
    \A i, j \in Photos :
       fate[i] # "new" /\ fate[j] # "new" /\ OwnName(i) = OwnName(j) => i = j

LEMMA NamesAre == \A j \in Photos : OwnName(j) \in Names /\ OwnName(j) # None
BY QueueAssumption DEF Batch!ConstantsOK

LEMMA RowsAre ==
    /\ Header # Hole
    /\ \A j, n : <<j, n>> \in Photos \X (Names \cup {None}) => <<j, n>> # Header /\ <<j, n>> # Hole
BY QueueAssumption DEF Batch!ConstantsOK

LEMMA FilesStart == ASSUME Exports!Init PROVE FileInv
<1>1. Listed(fd) = {}
  BY DEF Exports!Init, Listed
<1>2. \A w \in Threads : pc[w] = "none"
  BY QueueNames DEF Exports!Init, Exports!Actors
<1>3. pc[Gui] = "idle"
  BY DEF Exports!Init, Exports!Actors
<1>4. FileTypes
  BY DEF Exports!Init, FileTypes, Exports!Actors
<1>5. InPlace
  BY <1>2, <1>3 DEF InPlace
<1>6. Written
  BY <1>2, <1>3 DEF Written, Dirty, Exports!Init
<1>7. Owned
  BY <1>1, <1>2 DEF Owned, Exports!Init
<1>8. QED
  BY <1>4, <1>5, <1>6, <1>7 DEF FileInv

\* What has left the list stays away, and its name with it.
LEMMA OwnedStays ==
    ASSUME FileInv, Listed(fd') \subseteq Listed(fd), UNCHANGED paramsOf,
           \A j \in Photos : fate[j] # "new" => fate'[j] # "new",
           \A j \in Listed(fd') : paramsOf[j] # None =>
              files'[paramsOf[j]] = files[paramsOf[j]],
           \A w \in Threads : pc'[w] \in {"button", "open", "lock", "rows", "unlink"} =>
              \/ pc[w] \in {"button", "open", "lock", "rows", "unlink"} /\ old'[w] = old[w]
              \/ old'[w] = None
              \/ \E j \in Photos : old'[w] = OwnName(j) /\ Left(j)',
           \A k \in 1 .. Len(bIdles') : bIdles'[k].kind = "remove" =>
              \/ \E i \in 1 .. Len(bIdles) : bIdles'[k] = bIdles[i]
              \/ \A j \in bIdles'[k].entries : Left(j)'
    PROVE  Owned'
<1>1. ASSUME NEW j, Left(j) PROVE Left(j)'
  BY <1>1 DEF Left
<1>2. \A j \in Listed(fd') : paramsOf'[j] # None => files'[paramsOf'[j]] = j
  BY DEF FileInv, Owned
<1>3. ASSUME NEW w \in Threads, pc'[w] \in {"button", "open", "lock", "rows", "unlink"}
      PROVE  old'[w] = None \/ \E j \in Photos : old'[w] = OwnName(j) /\ Left(j)'
  BY <1>1, <1>3 DEF FileInv, Owned
<1>4. ASSUME NEW k \in 1 .. Len(bIdles'), bIdles'[k].kind = "remove"
      PROVE  \A j \in bIdles'[k].entries : Left(j)'
  BY <1>1, <1>4 DEF FileInv, Owned
<1>5. QED
  BY <1>2, <1>3, <1>4 DEF Owned

\* Nobody writes, but writers may come.
LEMMA WrittenStays ==
    ASSUME FileInv, UNCHANGED <<fd, paramsOf, csv>>, Dirty => Dirty',
           fd # <<>> => \A a \in Threads \cup {Gui} : Writing(a) /\ a \notin gone =>
              Writing(a)' /\ a \notin gone' /\ pos'[a] = pos[a]
    PROVE  Written'
<1>1. SUFFICES ASSUME ~Dirty' PROVE
         /\ Len(csv) <= Len(fd) + 1
         /\ \A k \in 1 .. Len(csv) : csv[k] = Hole \/ csv[k] = Row(k)
         /\ fd # <<>> => \A k \in 1 .. Len(fd) + 1 :
               \/ k <= Len(csv) /\ csv[k] = Row(k)
               \/ \E a \in Threads \cup {Gui} : Writing(a)' /\ a \notin gone' /\ pos'[a] < k
  BY DEF Written, Row
<1>2. /\ Len(csv) <= Len(fd) + 1
      /\ \A k \in 1 .. Len(csv) : csv[k] = Hole \/ csv[k] = Row(k)
      /\ fd # <<>> => \A k \in 1 .. Len(fd) + 1 :
            \/ k <= Len(csv) /\ csv[k] = Row(k)
            \/ \E a \in Threads \cup {Gui} : Writing(a) /\ a \notin gone /\ pos[a] < k
  BY <1>1 DEF FileInv, Written
<1>3. ASSUME fd # <<>>, NEW k \in 1 .. Len(fd) + 1
      PROVE  \/ k <= Len(csv) /\ csv[k] = Row(k)
             \/ \E a \in Threads \cup {Gui} : Writing(a)' /\ a \notin gone' /\ pos'[a] < k
  BY <1>2, <1>3
<1>4. QED
  BY <1>2, <1>3

Saving == {"button", "open", "lock", "rows"}

\* What does not save the list.
LEMMA OthersKeepFile ==
    ASSUME FileInv, UNCHANGED <<fd, paramsOf, csv, pos, gone>>,
           \A a \in Threads \cup {Gui} :
              \/ pc'[a] = pc[a]
              \/ pc[a] \notin Saving /\ pc'[a] \notin Saving /\ (pc'[a] = "clean" => fd = <<>>)
    PROVE  InPlace' /\ Written'
<1>1. Dirty' = Dirty /\ \A a \in Threads \cup {Gui} : Writing(a)' = Writing(a)
  <2>1. Dirty' <=> Dirty
    BY DEF Dirty, Saving
  <2>2. \A a \in Threads \cup {Gui} : Writing(a)' <=> Writing(a)
    BY DEF Writing, Saving
  <2>3. QED
    BY <2>1, <2>2 DEF Dirty, Writing
<1>2. InPlace'
  BY DEF FileInv, InPlace, Saving
<1>3. QED
  BY <1>1, <1>2, WrittenStays

\* f is file with row in its place i, and holes before it.
PutInto(f, file, i, row) ==
    /\ Len(f) = IF i > Len(file) THEN i ELSE Len(file)
    /\ \A k \in 1 .. Len(f) :
          f[k] = IF k = i THEN row ELSE IF k <= Len(file) THEN file[k] ELSE Hole

LEMMA PutIs ==
    ASSUME NEW S, NEW file \in Seq(S), NEW i \in Nat \ {0}, NEW row \in S, Hole \in S
    PROVE  /\ Exports!PutRow(file, i, row) \in Seq(S)
           /\ PutInto(Exports!PutRow(file, i, row), file, i, row)
<1> DEFINE n == IF i > Len(file) THEN i ELSE Len(file)
           r == Exports!PutRow(file, i, row)
<1>1. Len(file) \in Nat /\ n \in Nat
  OBVIOUS
<1>2. r = [k \in 1 .. n |-> IF k = i THEN row ELSE IF k <= Len(file) THEN file[k] ELSE Hole]
  BY DEF Exports!PutRow
<1>3. ASSUME NEW k \in 1 .. n
      PROVE  (IF k = i THEN row ELSE IF k <= Len(file) THEN file[k] ELSE Hole) \in S
  <2>1. k <= Len(file) => k \in 1 .. Len(file)
    BY <1>1
  <2>2. QED
    BY <2>1
<1> HIDE DEF n, r
<1>4. r \in [1 .. n -> S]
  BY <1>2, <1>3
<1>5. r \in Seq(S) /\ Len(r) = n
  BY <1>1, <1>4
<1>6. QED
  BY <1>2, <1>5 DEF n, r, PutInto

\* saveBatchQueue() opens the file.
LEMMA SaveOpenKeepsFile ==
    ASSUME ListInv, FileInv, "open" \notin mishaps', NEW a \in Threads \cup {Gui}, Exports!SaveOpen(a)
    PROVE  FileInv'
<1> USE QueueNames
<1>1. /\ UNCHANGED <<fd, paramsOf, files, fate, old, seen, bIdles>>
      /\ pc[a] = "open" /\ pc' = [pc EXCEPT ![a] = "lock"]
      /\ csv' = <<>> /\ pos' = [pos EXCEPT ![a] = 0] /\ gone' = gone \ {a}
  BY DEF Exports!SaveOpen, Exports!Mishap, Exports!queue, Exports!panel
<1>2. /\ pc'[a] = "lock" /\ pos'[a] = 0
      /\ \A b \in Threads \cup {Gui} : b # a => pc'[b] = pc[b] /\ pos'[b] = pos[b]
  BY <1>1 DEF ListInv, ListTypes, FileInv, FileTypes
<1>3. FileTypes'
  BY <1>1 DEF FileInv, FileTypes
<1>4. InPlace'
  BY <1>1, <1>2 DEF FileInv, InPlace
<1>5. Written'
  <2>1. Len(csv') = 0 /\ Len(fd) \in Nat
    BY <1>1 DEF ListInv, ListTypes
  <2>2. Writing(a)' /\ a \notin gone' /\ \A k \in 1 .. Len(fd) + 1 : pos'[a] < k
    BY <1>1, <1>2, <2>1 DEF Writing
  <2>3. QED
    BY <1>1, <2>1, <2>2 DEF Written
<1>6. Owned'
  BY <1>1, <1>2, OwnedStays DEF FileInv
<1>7. QED
  BY <1>3, <1>4, <1>5, <1>6 DEF FileInv

\* What is left of the lines is written under the reader lock.
LEMMA SaveLockKeepsFile ==
    ASSUME ListInv, FileInv, NEW a \in Threads \cup {Gui}, Exports!SaveLock(a)
    PROVE  FileInv'
<1> USE QueueNames
<1>1. /\ UNCHANGED <<fd, paramsOf, files, fate, old, seen, bIdles, csv, pos, gone>>
      /\ pc[a] = "lock"
  BY DEF Exports!SaveLock, Exports!queue, Exports!panel, Exports!disk
<1>2. FileTypes'
  BY <1>1 DEF FileInv, FileTypes
<1>3. /\ pc'[a] \in {"rows", "unlink", "idle", "tell", "auto"}
      /\ pc'[a] = "rows" => fd # <<>>
      /\ fd # <<>> => pc'[a] = "rows"
      /\ a = Gui => pc'[a] # "unlink"
      /\ \A b \in Threads \cup {Gui} : b # a => pc'[b] = pc[b]
  <2>1. CASE fd # <<>>
    BY <2>1 DEF Exports!SaveLock, ListInv, ListTypes
  <2>2. CASE fd = <<>>
    <3>1. \E at \in {"unlink", "idle", "tell", "auto"} :
             pc' = [pc EXCEPT ![a] = at] /\ (a = Gui => at # "unlink")
      <4>1. todo # <<>> => Head(todo) \in {"tell", "auto"}
        BY DEF ListInv, ListTypes
      <4>2. QED
        BY <2>2, <4>1 DEF Exports!SaveLock, Exports!GoOn
    <3>2. QED
      BY <2>2, <3>1 DEF ListInv, ListTypes
  <2>3. QED
    BY <2>1, <2>2
<1>4. InPlace'
  <2>1. fd # <<>> => 0 <= Len(fd)
    BY DEF ListInv, ListTypes
  <2>2. QED
    BY <1>1, <1>3, <2>1 DEF FileInv, InPlace
<1>5. Written'
  <2>1. Dirty => Dirty'
    BY <1>1, <1>3 DEF Dirty
  <2>2. fd # <<>> => \A b \in Threads \cup {Gui} : Writing(b) => Writing(b)'
    BY <1>3 DEF Writing
  <2>3. QED
    BY <1>1, <2>1, <2>2, WrittenStays
<1>6. Owned'
  BY <1>1, <1>3, OwnedStays DEF FileInv
<1>7. QED
  BY <1>2, <1>4, <1>5, <1>6 DEF FileInv

LEMMA RowIs ==
    ASSUME ListInv, FileInv, NEW k \in 1 .. Len(fd) + 1
    PROVE  Row(k) \in Exports!Rows /\ (k # 1 => k - 1 \in 1 .. Len(fd) /\ fd[k - 1] \in Photos)
<1>1. fd \in Seq(Photos) /\ Len(fd) \in Nat
  BY DEF ListInv, ListTypes
<1>2. k # 1 => k - 1 \in 1 .. Len(fd) /\ fd[k - 1] \in Photos
  BY <1>1
<1>3. k # 1 => <<fd[k - 1], paramsOf[fd[k - 1]]>> \in Photos \X (Names \cup {None})
  BY <1>2 DEF FileInv, FileTypes
<1>4. QED
  BY <1>2, <1>3 DEF Row, Exports!Rows

LEMMA SaveRowKeepsFile ==
    ASSUME ListInv, FileInv, NEW a \in Threads \cup {Gui}, Exports!SaveRow(a)
    PROVE  FileInv'
<1> USE QueueNames
<1> DEFINE p == pos[a]
<1>1. /\ UNCHANGED <<fd, paramsOf, files, fate, old, seen, bIdles, gone>>
      /\ pc[a] = "rows" /\ pos' = [pos EXCEPT ![a] = @ + 1]
  BY DEF Exports!SaveRow, Exports!queue, Exports!panel
<1>2. /\ p \in Nat /\ fd # <<>> /\ p <= Len(fd) /\ Len(fd) \in Nat /\ fd \in Seq(Photos)
      /\ p + 1 \in 1 .. Len(fd) + 1 /\ p + 1 \in Nat \ {0}
  BY <1>1 DEF FileInv, InPlace, FileTypes, ListInv, ListTypes
<1>3. Row(p + 1) = IF p = 0 THEN Header ELSE <<fd[p], paramsOf[fd[p]]>>
  <2>1. (p + 1) - 1 = p /\ (p + 1 = 1 <=> p = 0)
    BY <1>2
  <2>2. QED
    BY <2>1 DEF Row
<1>4. csv' = IF a \in gone THEN csv ELSE Exports!PutRow(csv, p + 1, Row(p + 1))
  BY <1>3 DEF Exports!SaveRow
<1>5. \/ UNCHANGED pc /\ p # Len(fd)
      \/ /\ p = Len(fd)
         /\ \E at \in {"unlink", "idle", "tell", "auto"} :
               pc' = [pc EXCEPT ![a] = at] /\ (a = Gui => at # "unlink")
  <2>1. todo # <<>> => Head(todo) \in {"tell", "auto"}
    BY DEF ListInv, ListTypes
  <2>2. QED
    BY <2>1 DEF Exports!SaveRow, Exports!GoOn
<1>6. /\ pos'[a] = p + 1
      /\ \A b \in Threads \cup {Gui} : b # a => pc'[b] = pc[b] /\ pos'[b] = pos[b]
      /\ pc'[a] \in {"rows", "unlink", "idle", "tell", "auto"} /\ (a = Gui => pc'[a] # "unlink")
      /\ pc'[a] = "rows" <=> p # Len(fd)
  BY <1>1, <1>5 DEF ListInv, ListTypes, FileInv, FileTypes
<1> HIDE DEF p
<1>7. PICK r : r = Row(p + 1)
  OBVIOUS
<1>8. csv \in Seq(Exports!Rows) /\ r \in Exports!Rows /\ Hole \in Exports!Rows /\ Len(csv) \in Nat
  BY <1>2, <1>7, RowIs DEF FileInv, FileTypes, Exports!Rows
<1>9. PICK f : f = Exports!PutRow(csv, p + 1, r)
  OBVIOUS
<1>10. /\ f \in Seq(Exports!Rows)
       /\ Len(f) = IF p + 1 > Len(csv) THEN p + 1 ELSE Len(csv)
       /\ \A k \in 1 .. Len(f) :
             f[k] = IF k = p + 1 THEN r ELSE IF k <= Len(csv) THEN csv[k] ELSE Hole
  <2>1. f \in Seq(Exports!Rows) /\ PutInto(f, csv, p + 1, r)
    BY <1>2, <1>8, <1>9, PutIs
  <2>2. QED
    BY <2>1 DEF PutInto
<1>11. csv' = IF a \in gone THEN csv ELSE f
  BY <1>4, <1>7, <1>9
<1>12. FileTypes'
  <2>1. pos' \in [Threads \cup {Gui} -> Nat]
    BY <1>1 DEF FileInv, FileTypes
  <2>2. QED
    BY <1>1, <1>8, <1>10, <1>11, <2>1 DEF FileInv, FileTypes
<1>13. InPlace'
  <2>1. p # Len(fd) => p + 1 <= Len(fd)
    BY <1>2
  <2>2. QED
    BY <1>1, <1>2, <1>6, <2>1 DEF FileInv, InPlace
<1>14. Written'
  <2>1. Dirty' <=> Dirty
    BY <1>1, <1>6 DEF Dirty
  <2>2. CASE a \in gone
    <3>1. \A b \in Threads \cup {Gui} : Writing(b) /\ b \notin gone =>
             Writing(b)' /\ b \notin gone' /\ pos'[b] = pos[b]
      BY <1>1, <1>6, <2>2 DEF Writing
    <3>2. QED
      BY <1>1, <1>11, <2>1, <2>2, <3>1, WrittenStays
  <2>3. CASE a \notin gone
    <3>1. SUFFICES ASSUME ~Dirty PROVE
             /\ Len(f) <= Len(fd) + 1
             /\ \A k \in 1 .. Len(f) : f[k] = Hole \/ f[k] = Row(k)
             /\ \A k \in 1 .. Len(fd) + 1 :
                   \/ k <= Len(f) /\ f[k] = Row(k)
                   \/ \E b \in Threads \cup {Gui} : Writing(b)' /\ b \notin gone' /\ pos'[b] < k
      BY <1>1, <1>11, <2>1, <2>3 DEF Written, Row
    <3>2. /\ Len(csv) <= Len(fd) + 1
          /\ \A k \in 1 .. Len(csv) : csv[k] = Hole \/ csv[k] = Row(k)
          /\ \A k \in 1 .. Len(fd) + 1 :
                \/ k <= Len(csv) /\ csv[k] = Row(k)
                \/ \E b \in Threads \cup {Gui} : Writing(b) /\ b \notin gone /\ pos[b] < k
      BY <1>2, <3>1 DEF FileInv, Written
    <3>3. Len(f) <= Len(fd) + 1 /\ p + 1 <= Len(f) /\ Len(csv) <= Len(f)
      BY <1>2, <1>8, <1>10, <3>2
    <3>4. ASSUME NEW k \in 1 .. Len(f) PROVE f[k] = Hole \/ f[k] = Row(k)
      <4>1. k <= Len(csv) => k \in 1 .. Len(csv)
        BY <1>8
      <4>2. QED
        BY <1>7, <1>10, <3>2, <4>1
    <3>5. ASSUME NEW k \in 1 .. Len(fd) + 1
          PROVE  \/ k <= Len(f) /\ f[k] = Row(k)
                 \/ \E b \in Threads \cup {Gui} : Writing(b)' /\ b \notin gone' /\ pos'[b] < k
      <4>1. CASE k = p + 1
        <5>1. k \in 1 .. Len(f)
          BY <1>2, <1>10, <3>3, <4>1
        <5>2. QED
          BY <1>7, <1>10, <4>1, <5>1
      <4>2. CASE k # p + 1 /\ k <= Len(csv) /\ csv[k] = Row(k)
        <5>1. k \in 1 .. Len(f)
          BY <1>8, <1>10, <3>3, <4>2
        <5>2. QED
          BY <1>10, <4>2, <5>1
      <4>3. CASE k # p + 1 /\ \E b \in Threads \cup {Gui} : Writing(b) /\ b \notin gone /\ pos[b] < k
        <5>1. PICK b \in Threads \cup {Gui} : Writing(b) /\ b \notin gone /\ pos[b] < k
          BY <4>3
        <5>2. CASE b # a
          BY <1>1, <1>6, <5>1, <5>2 DEF Writing
        <5>3. CASE b = a
          <6>1. p < k /\ k # p + 1 /\ k <= Len(fd) + 1
            BY <4>3, <5>1, <5>3 DEF p
          <6>2. p + 1 < k /\ p # Len(fd)
            BY <6>1, <1>2
          <6>3. QED
            BY <1>1, <1>6, <2>3, <6>2 DEF Writing
        <5>4. QED
          BY <5>2, <5>3
      <4>4. QED
        BY <3>2, <4>1, <4>2, <4>3
    <3>6. QED
      BY <3>3, <3>4, <3>5
  <2>4. QED
    BY <2>2, <2>3
<1>15. Owned'
  BY <1>1, <1>6, OwnedStays DEF FileInv
<1>16. QED
  BY <1>12, <1>13, <1>14, <1>15 DEF FileInv

\* notifyListener().
LEMMA TellKeepsFile ==
    ASSUME ListInv, FileInv, NEW a \in Threads \cup {Gui},
           Exports!TellRead(a) \/ Exports!TellPost(a)
    PROVE  FileInv'
<1> USE QueueNames
<1>1. /\ UNCHANGED <<fd, paramsOf, files, fate, old, csv, pos, gone>>
      /\ pc[a] \in {"tell", "post"}
  BY DEF Exports!TellRead, Exports!TellPost, Exports!queue, Exports!panel, Exports!disk
<1>2. /\ pc'[a] \in {"post", "return", "idle", "tell", "auto"}
      /\ \A b \in Threads \cup {Gui} : b # a => pc'[b] = pc[b]
  <2>1. \E at \in {"post", "return", "idle", "tell", "auto"} : pc' = [pc EXCEPT ![a] = at]
    <3>1. todo # <<>> => Head(todo) \in {"tell", "auto"}
      BY DEF ListInv, ListTypes
    <3>2. QED
      BY <3>1 DEF Exports!TellRead, Exports!TellPost, Exports!GoOn
  <2>2. QED
    BY <2>1 DEF ListInv, ListTypes
<1>3. InPlace' /\ Written'
  BY <1>1, <1>2, OthersKeepFile DEF Saving
<1>4. CASE Exports!TellRead(a)
  <2>1. bIdles' = bIdles /\ seen' = [seen EXCEPT ![a] = processing # None]
    BY <1>4 DEF Exports!TellRead, Exports!panel
  <2>2. seen' \in [Threads \cup {Gui} -> BOOLEAN]
    BY <2>1 DEF FileInv, FileTypes
  <2>3. FileTypes'
    BY <1>1, <2>1, <2>2 DEF FileInv, FileTypes
  <2>4. Owned'
    BY <1>1, <1>2, <2>1, OwnedStays DEF FileInv
  <2>5. QED
    BY <1>3, <2>3, <2>4 DEF FileInv
<1>5. CASE Exports!TellPost(a)
  <2>1. PICK m : m = [kind |-> "size", size |-> Len(fd), running |-> seen[a]]
    OBVIOUS
  <2>2. bIdles' = Append(bIdles, m) /\ seen' = seen
    BY <1>5, <2>1 DEF Exports!TellPost
  <2>3. m \in Exports!Idles /\ m.kind # "remove"
    BY <2>1 DEF Exports!Idles, FileInv, FileTypes, ListInv, ListTypes
  <2>4. bIdles \in Seq(Exports!Idles)
    BY DEF FileInv, FileTypes
  <2>5. bIdles' \in Seq(Exports!Idles)
    BY <2>2, <2>3, <2>4
  <2>6. FileTypes'
    BY <1>1, <2>2, <2>5 DEF FileInv, FileTypes
  <2>7. ASSUME NEW k \in 1 .. Len(bIdles'), bIdles'[k].kind = "remove"
        PROVE  \E i \in 1 .. Len(bIdles) : bIdles'[k] = bIdles[i]
    BY <2>2, <2>3, <2>4, <2>7
  <2>8. Owned'
    BY <1>1, <1>2, <2>2, <2>7, OwnedStays DEF FileInv
  <2>9. QED
    BY <1>3, <2>6, <2>8 DEF FileInv
<1>6. QED
  BY <1>4, <1>5

\* A thread before it removes its photo, and when it ends.
LEMMA ThreadsKeepFile ==
    ASSUME ListInv, FileInv, NEW w \in Threads,
           \/ Exports!Develop(w) \/ Exports!SaveImage(w) \/ Exports!CheckEmpty(w)
           \/ Exports!Return(w) \/ Exports!ErrorFlag(w) \/ Exports!ErrorClear(w)
    PROVE  FileInv'
<1> USE QueueNames
<1>1. /\ UNCHANGED <<fd, paramsOf, files, old, csv, pos, gone, seen, bIdles>>
      /\ \A j \in Photos : fate[j] # "new" => fate'[j] # "new"
  BY DEF Exports!Develop, Exports!SaveImage, Exports!CheckEmpty, Exports!Return,
     Exports!ErrorFlag, Exports!ErrorClear, Exports!queue, Exports!panel, Exports!disk,
     ListInv, ListTypes
<1>2. /\ pc[w] \notin Saving /\ pc'[w] \notin Saving /\ pc'[w] # "unlink"
      /\ pc'[w] = "clean" => fd = <<>>
      /\ \A b \in Threads \cup {Gui} : b # w => pc'[b] = pc[b]
  BY DEF Exports!Develop, Exports!SaveImage, Exports!CheckEmpty, Exports!Return,
     Exports!ErrorFlag, Exports!ErrorClear, Exports!Moves, ListInv, ListTypes, Saving
<1>3. InPlace' /\ Written'
  BY <1>1, <1>2, OthersKeepFile
<1>4. FileTypes'
  BY <1>1 DEF FileInv, FileTypes
<1>5. Owned'
  BY <1>1, <1>2, OwnedStays DEF FileInv, Saving
<1>6. QED
  BY <1>3, <1>4, <1>5 DEF FileInv

LEMMA ErrorTellKeepsFile ==
    ASSUME ListInv, FileInv, NEW w \in Threads, Exports!ErrorTell(w) PROVE FileInv'
<1> USE QueueNames
<1>1. /\ UNCHANGED <<fd, paramsOf, files, fate, old, csv, pos, gone, seen>>
      /\ pc[w] = "err3" /\ pc' = [pc EXCEPT ![w] = "none"]
  BY DEF Exports!ErrorTell, Exports!Moves, Exports!queue, Exports!disk
<1>2. pc'[w] = "none" /\ \A b \in Threads \cup {Gui} : b # w => pc'[b] = pc[b]
  BY <1>1 DEF ListInv, ListTypes
<1>3. InPlace' /\ Written'
  BY <1>1, <1>2, OthersKeepFile DEF Saving
<1>4. PICK m : m = [kind |-> "size", size |-> 0, running |-> FALSE]
  OBVIOUS
<1>5. bIdles' = Append(bIdles, m) /\ m \in Exports!Idles /\ m.kind # "remove"
  BY <1>4 DEF Exports!ErrorTell, Exports!Idles
<1>6. bIdles \in Seq(Exports!Idles)
  BY DEF FileInv, FileTypes
<1>7. bIdles' \in Seq(Exports!Idles)
  BY <1>5, <1>6
<1>8. FileTypes'
  BY <1>1, <1>7 DEF FileInv, FileTypes
<1>9. ASSUME NEW k \in 1 .. Len(bIdles'), bIdles'[k].kind = "remove"
      PROVE  \E i \in 1 .. Len(bIdles) : bIdles'[k] = bIdles[i]
  BY <1>5, <1>6, <1>9
<1>10. Owned'
  BY <1>1, <1>2, <1>9, OwnedStays DEF FileInv
<1>11. QED
  BY <1>3, <1>8, <1>10 DEF FileInv

\* The photo that was developed leaves the list.
LEMMA EraseKeepsFile ==
    ASSUME ListInv, FileInv, NEW w \in Threads, Exports!Erase(w) PROVE FileInv'
<1> USE QueueNames
<1>1. /\ UNCHANGED <<paramsOf, files, fate, csv, pos, gone, seen, bIdles>>
      /\ pc[w] = "erase" /\ processing \in Photos /\ fd # <<>> /\ fd' = Tail(fd)
      /\ old' = [old EXCEPT ![w] = paramsOf[processing]]
      /\ \A b \in Threads \cup {Gui} : pc[b] # "rows"
      /\ \E at \in {"button", "open"} : pc' = [pc EXCEPT ![w] = at]
  BY DEF Exports!Erase, Exports!panel, Exports!disk, Exports!CanWrite, Exports!Actors,
     ListInv, ListTypes
<1>2. \A v \in Threads : v # w => pc[v] = "none"
  BY <1>1, Alone
<1>3. fd[1] = processing
  BY <1>1, <1>2 DEF ListInv, HeadInHand
<1>4. Listed(fd') = Listed(fd) \ {processing}
  BY <1>1, <1>3, TailOf DEF ListInv, ListTypes, ListedOnce
<1>5. processing \in Listed(fd)
  <2>1. 1 \in 1 .. Len(fd)
    BY <1>1 DEF ListInv, ListTypes
  <2>2. QED
    BY <2>1, <1>3 DEF Listed
<1>6. PICK e \in Photos : e = processing
  BY <1>1
<1>7. Left(e)'
  BY <1>1, <1>4, <1>5, <1>6 DEF Left, ListInv, ListedOnce
<1>8. /\ pc'[w] \in {"button", "open"} /\ old'[w] = paramsOf[processing]
      /\ \A b \in Threads \cup {Gui} : b # w => pc'[b] = pc[b]
      /\ \A v \in Threads : v # w => old'[v] = old[v]
      /\ old' \in [Threads -> Names \cup {None}]
  BY <1>1 DEF ListInv, ListTypes, FileInv, FileTypes
<1>9. FileTypes'
  BY <1>1, <1>8 DEF FileInv, FileTypes
<1>10. InPlace'
  BY <1>1, <1>2, <1>8 DEF FileInv, InPlace
<1>11. Written'
  <2>1. Dirty'
    BY <1>8 DEF Dirty
  <2>2. QED
    BY <2>1 DEF Written
<1>12. Owned'
  <2>1. old'[w] = None \/ (old'[w] = OwnName(e) /\ Left(e)')
    BY <1>1, <1>7, <1>8, <1>6 DEF FileInv, FileTypes
  <2>2. ASSUME NEW v \in Threads, pc'[v] \in {"button", "open", "lock", "rows", "unlink"}
        PROVE  \/ pc[v] \in {"button", "open", "lock", "rows", "unlink"} /\ old'[v] = old[v]
               \/ old'[v] = None
               \/ \E j \in Photos : old'[v] = OwnName(j) /\ Left(j)'
    BY <1>1, <1>8, <2>1, <2>2
  <2>3. QED
    BY <1>1, <1>4, <2>2, OwnedStays DEF FileInv
<1>13. QED
  BY <1>9, <1>10, <1>11, <1>12 DEF FileInv

LEMMA ButtonsKeepFile ==
    ASSUME ListInv, FileInv, NEW w \in Threads, Exports!RemoveButtons(w) PROVE FileInv'
<1> USE QueueNames
<1>1. /\ UNCHANGED <<fd, paramsOf, files, fate, old, csv, pos, gone, seen, bIdles>>
      /\ pc[w] = "button" /\ pc' = [pc EXCEPT ![w] = "open"]
  BY DEF Exports!RemoveButtons, Exports!Moves, Exports!queue, Exports!panel, Exports!disk
<1>2. pc'[w] = "open" /\ \A b \in Threads \cup {Gui} : b # w => pc'[b] = pc[b]
  BY <1>1 DEF ListInv, ListTypes
<1>3. FileTypes'
  BY <1>1 DEF FileInv, FileTypes
<1>4. InPlace'
  BY <1>1, <1>2 DEF FileInv, InPlace
<1>5. Written'
  BY <1>2 DEF Written, Dirty
<1>6. Owned'
  BY <1>1, <1>2, OwnedStays DEF FileInv
<1>7. QED
  BY <1>3, <1>4, <1>5, <1>6 DEF FileInv

\* The parameter file of what has left the list.
LEMMA UnlinkKeepsFile ==
    ASSUME ListInv, FileInv, OwnNames, NEW w \in Threads, Exports!Unlink(w) PROVE FileInv'
<1> USE QueueNames
<1>1. /\ UNCHANGED <<fd, paramsOf, fate, old, csv, pos, gone, seen, bIdles>>
      /\ pc[w] = "unlink" /\ pc' = [pc EXCEPT ![w] = "check"]
      /\ files' = [n \in Names |-> IF n = old[w] THEN None ELSE files[n]]
  BY DEF Exports!Unlink, Exports!Moves, Exports!queue, Exports!panel
<1>2. pc'[w] = "check" /\ \A b \in Threads \cup {Gui} : b # w => pc'[b] = pc[b]
  BY <1>1 DEF ListInv, ListTypes
<1>3. FileTypes'
  BY <1>1 DEF FileInv, FileTypes
<1>4. InPlace' /\ Written'
  BY <1>1, <1>2, OthersKeepFile DEF Saving
<1>5. ASSUME NEW j \in Listed(fd), paramsOf[j] # None
      PROVE  files'[paramsOf[j]] = files[paramsOf[j]]
  <2>1. j \in Photos
    BY DEF ListInv, ListTypes, Listed
  <2>2. paramsOf[j] = OwnName(j) /\ OwnName(j) \in Names
    BY <2>1, <1>5, NamesAre DEF FileInv, FileTypes
  <2>3. old[w] = None \/ \E i \in Photos : old[w] = OwnName(i) /\ Left(i)
    BY <1>1 DEF FileInv, Owned
  <2>4. OwnName(j) # old[w]
    <3>1. fate[j] # "new"
      BY DEF ListInv, ListedOnce
    <3>2. QED
      BY <2>1, <2>3, <3>1, NamesAre DEF OwnNames, Left
  <2>5. QED
    BY <1>1, <2>2, <2>4
<1>6. Owned'
  BY <1>1, <1>2, <1>5, OwnedStays DEF FileInv
<1>7. QED
  BY <1>3, <1>4, <1>6 DEF FileInv

LEMMA CleanKeepsFile ==
    ASSUME ListInv, FileInv, NEW w \in Threads, Exports!Clean(w) PROVE FileInv'
<1> USE QueueNames
<1>1. /\ UNCHANGED <<fd, paramsOf, fate, old, pos, seen, bIdles>>
      /\ pc[w] = "clean" /\ pc' = [pc EXCEPT ![w] = "tell"]
      /\ files' = [n \in Names |-> None] /\ csv' = <<>>
  BY DEF Exports!Clean, Exports!Moves, Exports!queue, Exports!panel
<1>2. pc'[w] = "tell" /\ \A b \in Threads \cup {Gui} : b # w => pc'[b] = pc[b]
  BY <1>1 DEF ListInv, ListTypes
<1>3. fd = <<>> /\ Listed(fd) = {}
  BY <1>1 DEF FileInv, InPlace, Listed
<1>4. FileTypes'
  BY <1>1 DEF FileInv, FileTypes
<1>5. InPlace'
  BY <1>1, <1>2 DEF FileInv, InPlace
<1>6. Written'
  BY <1>1, <1>3 DEF Written
<1>7. Owned'
  BY <1>1, <1>2, <1>3, OwnedStays DEF FileInv
<1>8. QED
  BY <1>4, <1>5, <1>6, <1>7 DEF FileInv

\* A list with nothing in it is empty.
LEMMA NothingListed == ASSUME NEW S, NEW q \in Seq(S), Listed(q) = {} PROVE q = <<>>
<1>1. Len(q) \in Nat
  OBVIOUS
<1>2. 1 .. Len(q) = {}
  BY DEF Listed
<1>3. Len(q) = 0
  <2>1. Len(q) # 0 => 1 \in 1 .. Len(q)
    BY <1>1
  <2>2. QED
    BY <2>1, <1>2
<1>4. QED
  BY <1>3

\* A handler of the user's changes the list, and goes on to save it.
LEMMA HandlersKeepFile ==
    ASSUME ListInv, FileInv, Exports!CanWrite, pc' = [pc EXCEPT ![Gui] = "open"],
           UNCHANGED pos, pc[Gui] = "idle", fd' \in Seq(Photos),
           (\E w \in Threads : pc[w] = "clean") => Listed(fd') \subseteq Listed(fd)
    PROVE  InPlace' /\ Written'
<1> USE QueueNames
<1>1. /\ pc'[Gui] = "open"
      /\ \A w \in Threads : pc'[w] = pc[w] /\ pc'[w] # "rows"
  BY DEF ListInv, ListTypes, Exports!CanWrite, Exports!Actors
<1>2. ASSUME NEW w \in Threads, pc[w] = "clean" PROVE fd' = <<>>
  <2>1. fd = <<>> /\ Listed(fd) = {}
    BY <1>2 DEF FileInv, InPlace, Listed
  <2>2. Listed(fd') = {}
    BY <2>1, <1>2
  <2>3. QED
    BY <2>2, NothingListed
<1>3. InPlace'
  BY <1>1, <1>2 DEF FileInv, InPlace
<1>4. Written'
  BY <1>1 DEF Written, Dirty
<1>5. QED
  BY <1>3, <1>4

LEMMA AddKeepsFile ==
    ASSUME ListInv, FileInv, OwnNames', "add" \notin mishaps',
           NEW sent \in Batches \cup CrashBatches, NEW head \in BOOLEAN,
           head => Len(sent) = 1, Exports!AddEntries(sent, head)
    PROVE  FileInv'
<1> USE QueueNames
<1>1. /\ pc' = [pc EXCEPT ![Gui] = "open"]
      /\ fate' = [j \in Photos |-> IF j \in Listed(sent) THEN "queued" ELSE fate[j]]
      /\ \A j \in Listed(sent) : fate[j] = "new"
      /\ sent \in Seq(Photos) /\ Listed(sent) \subseteq Photos
      /\ Listed(fd) \cap Listed(sent) = {} /\ Listed(fd) \subseteq Photos
      /\ fd' \in Seq(Photos) /\ Listed(fd') = Listed(fd) \cup Listed(sent)
  BY Added
<1>2. /\ UNCHANGED <<csv, pos, gone, seen, old, bIdles>> /\ Exports!CanWrite
      /\ pc[Gui] = "idle" /\ \A w \in Threads : pc[w] # "clean"
  BY DEF Exports!AddEntries, Exports!Mishap, Exports!May, Exports!panel
<1>3. PICK saved \in SUBSET Listed(sent) :
         /\ paramsOf' = [j \in Photos |-> IF j \in Listed(sent)
                                          THEN IF j \in saved THEN OwnName(j) ELSE None
                                          ELSE paramsOf[j]]
         /\ files' = [n \in Names |->
               LET named == {i \in DOMAIN sent : sent[i] \in saved /\ OwnName(sent[i]) = n}
               IN  IF named = {} THEN files[n] ELSE sent[Exports!Max(named)]]
  <2>1. Exports!ToSet(sent) = Listed(sent)
    BY <1>1 DEF Exports!ToSet, Listed
  <2>2. PICK saved \in SUBSET Exports!ToSet(sent) :
          /\ paramsOf' = [j \in Photos |-> IF j \in Exports!ToSet(sent)
                                           THEN IF j \in saved THEN OwnName(j) ELSE None
                                           ELSE paramsOf[j]]
          /\ files' = [n \in Names |->
                LET named == {i \in DOMAIN sent : sent[i] \in saved /\ OwnName(sent[i]) = n}
                IN  IF named = {} THEN files[n] ELSE sent[Exports!Max(named)]]
    BY DEF Exports!AddEntries
  <2>3. paramsOf' = [j \in Photos |-> IF j \in Listed(sent)
                                     THEN IF j \in saved THEN OwnName(j) ELSE None
                                     ELSE paramsOf[j]]
    BY <2>1, <2>2
  <2>4. QED
    BY <2>1, <2>2, <2>3
\* Every name is given once.
<1>4. ASSUME NEW n \in Names
      PROVE  \/ \E j \in saved : OwnName(j) = n /\ files'[n] = j
             \/ files'[n] = files[n] /\ \A j \in saved : OwnName(j) # n
  <2>1. PICK named : named = {i \in DOMAIN sent : sent[i] \in saved /\ OwnName(sent[i]) = n}
    OBVIOUS
  <2>2. files'[n] = IF named = {} THEN files[n] ELSE sent[Exports!Max(named)]
    BY <1>3, <2>1
  <2>3. DOMAIN sent = 1 .. Len(sent) /\ Len(sent) \in Nat
    BY <1>1
  <2>4. named \in SUBSET Nat /\ IsFiniteSet(named)
    <3>1. 1 \in Int /\ Len(sent) \in Int /\ named \in SUBSET (1 .. Len(sent))
          /\ 1 .. Len(sent) \subseteq Nat
      BY <2>1, <2>3
    <3>2. IsFiniteSet(1 .. Len(sent))
      BY <3>1, FS_Interval
    <3>3. QED
      BY <3>1, <3>2, FS_Subset
  <2>5. CASE named # {}
    <3>1. Exports!Max(named) \in named
      BY <2>4, <2>5, GreatestOf
    <3>2. QED
      BY <2>1, <2>2, <2>5, <3>1
  <2>6. CASE named = {}
    <3>1. ASSUME NEW j \in saved PROVE OwnName(j) # n
      <4>1. PICK i \in 1 .. Len(sent) : sent[i] = j
        BY <3>1 DEF Listed
      <4>2. QED
        BY <2>1, <2>3, <2>6, <4>1
    <3>2. QED
      BY <2>2, <2>6, <3>1
  <2>7. QED
    BY <2>5, <2>6
<1>5. FileTypes'
  <2>1. \A j \in Photos : paramsOf'[j] \in {None, OwnName(j)}
    BY <1>1, <1>3 DEF FileInv, FileTypes
  <2>2. paramsOf' \in [Photos -> Names \cup {None}]
    BY <1>1, <1>3, NamesAre DEF FileInv, FileTypes
  <2>3. files' \in [Names -> Photos \cup {None}]
    <3>1. \A n \in Names : files'[n] \in Photos \cup {None}
      <4>1. saved \subseteq Photos /\ \A n \in Names : files[n] \in Photos \cup {None}
        BY <1>1 DEF FileInv, FileTypes
      <4>2. QED
        BY <4>1, <1>4
    <3>2. files' = [n \in Names |-> files'[n]]
      BY <1>3
    <3>3. QED
      BY <3>1, <3>2
  <2>4. QED
    BY <1>2, <2>1, <2>2, <2>3 DEF FileInv, FileTypes
<1>6. InPlace' /\ Written'
  BY <1>1, <1>2, HandlersKeepFile
<1>9. \A i, j \in Listed(fd') : OwnName(i) = OwnName(j) => i = j
  <2>1. \A i \in Listed(fd') : i \in Photos /\ fate'[i] # "new"
    BY <1>1 DEF ListInv, ListedOnce
  <2>2. QED
    BY <2>1 DEF OwnNames
<1>7. Owned'
  <2>1. ASSUME NEW j \in Listed(fd'), paramsOf'[j] # None PROVE files'[paramsOf'[j]] = j
    <3>1. CASE j \in Listed(sent)
      <4>1. j \in saved /\ j \in Photos /\ paramsOf'[j] = OwnName(j)
        BY <1>1, <1>3, <2>1, <3>1
      <4>2. QED
        <5>1. OwnName(j) \in Names /\ j \in Listed(fd')
          BY <4>1, <2>1, NamesAre
        <5>2. \A i \in saved : OwnName(i) = OwnName(j) => i = j
          BY <5>1, <1>1, <1>9
        <5>3. QED
          BY <4>1, <5>1, <5>2, <1>4
    <3>2. CASE j \notin Listed(sent)
      <4>1. j \in Listed(fd) /\ j \in Photos /\ paramsOf'[j] = paramsOf[j]
        BY <1>1, <1>3, <3>2
      <4>2. paramsOf[j] = OwnName(j) /\ files[OwnName(j)] = j
        BY <2>1, <4>1 DEF FileInv, FileTypes, Owned
      <4>3. \A i \in saved : OwnName(i) # OwnName(j)
        BY <1>1, <1>9, <3>2, <4>1
      <4>4. QED
        BY <4>1, <4>2, <4>3, <1>4, NamesAre
    <3>3. QED
      BY <3>1, <3>2
  <2>2. \A w \in Threads : pc'[w] = pc[w]
    BY <1>1 DEF ListInv, ListTypes
  <2>3. ASSUME NEW j, Left(j) PROVE Left(j)'
    BY <1>1, <2>3 DEF Left
  <2>4. QED
    BY <1>2, <2>1, <2>2, <2>3 DEF FileInv, Owned
<1>8. QED
  BY <1>5, <1>6, <1>7 DEF FileInv

LEMMA CancelKeepsFile ==
    ASSUME ListInv, FileInv, NEW items \in SUBSET Photos, Exports!CancelItems(items)
    PROVE  FileInv'
<1> USE QueueNames
<1>1. PICK out : out = {j \in items : j \notin flagged /\ Exports!Contains(fd, j)}
  OBVIOUS
<1>2. /\ UNCHANGED <<paramsOf, files, csv, pos, gone, seen, old>> /\ Exports!CanWrite
      /\ pc[Gui] = "idle" /\ pc' = [pc EXCEPT ![Gui] = "open"]
      /\ fate' = [j \in Photos |-> IF j \in out THEN "cancelled" ELSE fate[j]]
      /\ fd' = Exports!Without(fd, out)
      /\ bIdles' = IF out = {} THEN bIdles ELSE Append(bIdles, [kind |-> "remove", entries |-> out])
  <2>1. Head(<<"open", "tell">>) = "open"
    OBVIOUS
  <2>2. QED
    BY <1>1, <2>1 DEF Exports!CancelItems, Exports!Handler, Exports!May
<1>3. out \in SUBSET Photos
  BY <1>1
<1>4. fd' \in Seq(Photos) /\ Listed(fd') = Listed(fd) \ out
  BY <1>2, LeftOver DEF ListInv, ListTypes
<1>5. pc'[Gui] = "open" /\ \A w \in Threads : pc'[w] = pc[w]
  BY <1>2 DEF ListInv, ListTypes
<1>6. PICK m : m = [kind |-> "remove", entries |-> out]
  OBVIOUS
<1>7. m \in Exports!Idles /\ m.entries = out /\ bIdles \in Seq(Exports!Idles)
      /\ bIdles' \in {bIdles, Append(bIdles, m)}
  BY <1>2, <1>3, <1>6 DEF Exports!Idles, FileInv, FileTypes
<1>8. FileTypes'
  <2>1. bIdles' \in Seq(Exports!Idles)
    BY <1>7
  <2>2. QED
    BY <1>2, <2>1 DEF FileInv, FileTypes
<1>9. InPlace' /\ Written'
  BY <1>2, <1>4, HandlersKeepFile
<1>10. Owned'
  <2>1. \A j \in out : Left(j)'
    BY <1>2, <1>3, <1>4 DEF Left
  <2>2. ASSUME NEW k \in 1 .. Len(bIdles')
        PROVE  (\E i \in 1 .. Len(bIdles) : bIdles'[k] = bIdles[i]) \/ bIdles'[k] = m
    BY <1>7
  <2>3. \A j \in Photos : fate[j] # "new" => fate'[j] # "new"
    BY <1>2
  <2>4. Listed(fd') \subseteq Listed(fd)
    BY <1>4
  <2>5. ASSUME NEW k \in 1 .. Len(bIdles'), bIdles'[k].kind = "remove"
        PROVE  \/ \E i \in 1 .. Len(bIdles) : bIdles'[k] = bIdles[i]
               \/ \A j \in bIdles'[k].entries : Left(j)'
    BY <1>7, <2>1, <2>2
  <2>6. QED
    BY <1>2, <1>5, <2>3, <2>4, <2>5, OwnedStays
<1>11. QED
  BY <1>8, <1>9, <1>10 DEF FileInv

LEMMA MoveKeepsFile ==
    ASSUME ListInv, FileInv, NEW j \in Photos, Exports!HeadItem(j) \/ Exports!TailItem(j)
    PROVE  FileInv'
<1> USE QueueNames
<1>1. /\ UNCHANGED <<paramsOf, files, csv, pos, gone, seen, old, bIdles>> /\ Exports!CanWrite
      /\ pc[Gui] = "idle"
  BY DEF Exports!HeadItem, Exports!TailItem, Exports!panel, Exports!disk, Exports!May
<1>2. /\ pc' = [pc EXCEPT ![Gui] = "open"] /\ UNCHANGED fate
      /\ fd' \in Seq(Photos) /\ Listed(fd') = Listed(fd)
  BY Moved
<1>3. \A w \in Threads : pc'[w] = pc[w]
  BY <1>2 DEF ListInv, ListTypes
<1>4. FileTypes'
  BY <1>1 DEF FileInv, FileTypes
<1>5. InPlace' /\ Written'
  BY <1>1, <1>2, HandlersKeepFile
<1>6. Owned'
  BY <1>1, <1>2, <1>3, OwnedStays
<1>7. QED
  BY <1>4, <1>5, <1>6 DEF FileInv

\* The queue is started, or not.
LEMMA StartsKeepFile ==
    ASSUME ListInv, FileInv, Exports!AutoStart \/ Exports!StartOrStop PROVE FileInv'
<1> USE QueueNames
<1>1. UNCHANGED <<fd, paramsOf, files, fate, csv, pos, gone, seen, old, bIdles>>
  BY DEF Exports!AutoStart, Exports!StartOrStop, Exports!StartBatchProc, Exports!queue,
     Exports!panel, Exports!disk, Exports!control
<1>2. \A a \in Threads \cup {Gui} :
         pc'[a] = pc[a] \/ (pc[a] \notin Saving /\ pc'[a] \in {"idle", "tell", "auto", "develop"})
  <2>1. CASE Exports!StartBatchProc /\ pc[Gui] \notin Saving
    BY <2>1 DEF Exports!StartBatchProc, ListInv, ListTypes, Saving
  <2>2. CASE Exports!GoOn(Gui, "idle") /\ pc[Gui] \notin Saving
    <3>1. \E at \in {"idle", "tell", "auto"} : pc' = [pc EXCEPT ![Gui] = at]
      <4>1. todo # <<>> => Head(todo) \in {"tell", "auto"}
        BY DEF ListInv, ListTypes
      <4>2. QED
        BY <2>2, <4>1 DEF Exports!GoOn
    <3>2. QED
      BY <2>2, <3>1 DEF ListInv, ListTypes
  <2>3. CASE UNCHANGED pc
    BY <2>3
  <2>4. QED
    BY <2>1, <2>2, <2>3 DEF Exports!AutoStart, Exports!StartOrStop, Exports!May, Exports!control,
       Saving
<1>3. FileTypes'
  BY <1>1 DEF FileInv, FileTypes
<1>4. InPlace' /\ Written'
  <2>1. \A a \in Threads \cup {Gui} :
           \/ pc'[a] = pc[a]
           \/ pc[a] \notin Saving /\ pc'[a] \notin Saving /\ (pc'[a] = "clean" => fd = <<>>)
    BY <1>2 DEF Saving
  <2>2. QED
    BY <1>1, <2>1, OthersKeepFile
<1>5. Owned'
  BY <1>1, <1>2, OwnedStays
<1>6. QED
  BY <1>3, <1>4, <1>5 DEF FileInv

\* The callbacks of the GUI loop.
LEMMA CallbacksKeepFile ==
    ASSUME ListInv, FileInv, OwnNames, Exports!QueueSizeChanged \/ Exports!RemoveCancelled
    PROVE  FileInv'
<1> USE QueueNames
<1>1. /\ UNCHANGED <<fd, paramsOf, fate, csv, pos, gone, seen, old, pc>>
      /\ bIdles # <<>> /\ bIdles' = Tail(bIdles) /\ bIdles \in Seq(Exports!Idles)
  BY DEF Exports!QueueSizeChanged, Exports!RemoveCancelled, Exports!queue, Exports!disk,
     Exports!control, Exports!Due, FileInv, FileTypes
<1>2. bIdles' \in Seq(Exports!Idles)
  BY <1>1
<1>3. \A k \in 1 .. Len(bIdles') : \E i \in 1 .. Len(bIdles) : bIdles'[k] = bIdles[i]
  <2>1. ASSUME NEW k \in 1 .. Len(bIdles') PROVE k + 1 \in 1 .. Len(bIdles) /\ bIdles'[k] = bIdles[k + 1]
    BY <1>1
  <2>2. QED
    BY <2>1
<1>4. InPlace' /\ Written'
  BY <1>1, OthersKeepFile
<1>5. files' \in [Names -> Photos \cup {None}]
  BY DEF Exports!QueueSizeChanged, Exports!RemoveCancelled, Exports!disk, FileInv, FileTypes
<1>6. FileTypes'
  BY <1>1, <1>2, <1>5 DEF FileInv, FileTypes
<1>7. ASSUME NEW j \in Listed(fd), paramsOf[j] # None
      PROVE  files'[paramsOf[j]] = files[paramsOf[j]]
  <2>1. j \in Photos
    BY DEF ListInv, ListTypes, Listed
  <2>2. paramsOf[j] = OwnName(j) /\ OwnName(j) \in Names
    BY <2>1, <1>7, NamesAre DEF FileInv, FileTypes
  <2>3. CASE Exports!QueueSizeChanged
    BY <2>3 DEF Exports!QueueSizeChanged, Exports!disk
  <2>4. CASE Exports!RemoveCancelled
    <3>1. 1 \in 1 .. Len(bIdles) /\ bIdles[1].kind = "remove"
      BY <2>4, <1>1 DEF Exports!RemoveCancelled, Exports!Due
    <3>2. \A i \in bIdles[1].entries : Left(i)
      BY <3>1 DEF FileInv, Owned
    <3>3. ASSUME NEW i \in bIdles[1].entries PROVE paramsOf[i] # OwnName(j)
      <4>1. i \in Photos /\ i # j /\ fate[i] # "new" /\ fate[j] # "new"
        BY <3>2 DEF Left, ListInv, ListedOnce
      <4>2. OwnName(i) # OwnName(j) /\ OwnName(j) # None
        BY <4>1, <2>1, NamesAre DEF OwnNames
      <4>3. QED
        BY <4>1, <4>2 DEF FileInv, FileTypes
    <3>4. QED
      BY <2>2, <2>4, <3>3 DEF Exports!RemoveCancelled
  <2>5. QED
    BY <2>3, <2>4
<1>8. Owned'
  BY <1>1, <1>3, <1>7, OwnedStays
<1>9. QED
  BY <1>4, <1>6, <1>8 DEF FileInv

LEMMA SavesKeepFile ==
    ASSUME ListInv, FileInv, "open" \notin mishaps', NEW a \in Threads \cup {Gui}, Exports!Saves(a)
    PROVE  FileInv'
BY SaveOpenKeepsFile, SaveLockKeepsFile, SaveRowKeepsFile, TellKeepsFile DEF Exports!Saves

LEMMA FilesStay ==
    ASSUME ListInv, FileInv, OwnNames, OwnNames', mishaps' \cap {"add", "open"} = {}, ExportStep
    PROVE  FileInv'
<1>1. ASSUME NEW w \in Threads, Exports!WorkerStep(w) PROVE FileInv'
  BY <1>1, SavesKeepFile, ThreadsKeepFile, ErrorTellKeepsFile, EraseKeepsFile, ButtonsKeepFile,
     UnlinkKeepsFile, CleanKeepsFile DEF Exports!WorkerStep
<1>2. CASE Exports!GuiStep
  BY <1>2, SavesKeepFile, StartsKeepFile, CallbacksKeepFile DEF Exports!GuiStep
<1>3. CASE \E sent \in Batches \cup CrashBatches, head \in BOOLEAN :
              (head => Len(sent) = 1) /\ Exports!AddEntries(sent, head)
  BY <1>3, AddKeepsFile
<1>4. CASE \E items \in SUBSET Photos : Exports!CancelItems(items)
  BY <1>4, CancelKeepsFile
<1>5. CASE \E j \in Photos : Exports!HeadItem(j) \/ Exports!TailItem(j)
  BY <1>5, MoveKeepsFile
<1>6. CASE Exports!StartOrStop
  BY <1>6, StartsKeepFile
<1>7. QED
  BY <1>1, <1>2, <1>3, <1>4, <1>5, <1>6 DEF ExportStep

-----------------------------------------------------------------------------
(* What a restart would find. *)

Shifted(K) == {i + 1 : i \in K}

LEMMA ShiftCounts ==
    ASSUME NEW K \in SUBSET Nat, IsFiniteSet(K)
    PROVE  /\ Shifted(K) \in SUBSET Nat /\ IsFiniteSet(Shifted(K))
           /\ Cardinality(Shifted(K)) = Cardinality(K)
<1> DEFINE f == [i \in K |-> i + 1]
<1>1. f \in Bijection(K, Shifted(K))
  <2>1. f \in [K -> Shifted(K)]
    BY DEF Shifted
  <2>2. ASSUME NEW i \in K, NEW h \in K, f[i] = f[h] PROVE i = h
    <3>1. i + 1 = h + 1 /\ i \in Nat /\ h \in Nat
      BY <2>2
    <3>2. QED
      BY <3>1
  <2>3. \A j \in Shifted(K) : \E i \in K : f[i] = j
    BY DEF Shifted
  <2>4. QED
    BY <2>1, <2>2, <2>3 DEF Bijection, Injection, Surjection, IsInjective
<1>2. Shifted(K) \in SUBSET Nat
  BY DEF Shifted
<1>3. QED
  BY <1>1, <1>2, FS_Bijection DEF ExistsBijection

LEMMA ShiftBefore ==
    ASSUME NEW K \in SUBSET Nat, IsFiniteSet(K), NEW i \in K
    PROVE  Before(Shifted(K), i + 1) = Before(K, i)
<1>1. PICK A : A = {h \in K : h < i}
  OBVIOUS
<1>2. A \in SUBSET Nat /\ IsFiniteSet(A)
  BY <1>1, FS_Subset
<1>3. {j \in Shifted(K) : j < i + 1} = Shifted(A)
  <2>1. ASSUME NEW h \in K PROVE h + 1 < i + 1 <=> h < i
    <3>1. h \in Nat /\ i \in Nat
      OBVIOUS
    <3>2. QED
      BY <3>1
  <2>2. QED
    BY <1>1, <2>1 DEF Shifted
<1>4. Cardinality(Shifted(A)) = Cardinality(A)
  BY <1>2, ShiftCounts
<1>5. QED
  BY <1>1, <1>3, <1>4 DEF Before

\* A list and the same list one place further have the same parts.
LEMMA ShiftTakes ==
    ASSUME NEW K \in SUBSET Nat, IsFiniteSet(K), NEW r, NEW s, \A i \in K : s[i + 1] = r[i]
    PROVE  Part(s, Shifted(K)) = Part(r, K)
<1> DEFINE n == Cardinality(K)
<1>1. PICK I : I = Shifted(K)
  OBVIOUS
<1>2. I \in SUBSET Nat /\ IsFiniteSet(I) /\ Cardinality(I) = n /\ n \in Nat
  BY <1>1, ShiftCounts, FS_CardinalityType
<1>3. PICK t : Lists(t, r, K)
  BY Taken
<1>4. PICK u : Lists(u, s, I)
  BY <1>2, Taken
<1>5. ASSUME NEW k \in 1 .. n PROVE Part(s, I)[k] = Part(r, K)[k]
  <2>1. u[k] \in I /\ Before(I, u[k]) = k - 1 /\ Part(s, I)[k] = s[u[k]]
    BY <1>2, <1>4 DEF Lists
  <2>2. t[k] \in K /\ Before(K, t[k]) = k - 1 /\ Part(r, K)[k] = r[t[k]]
    BY <1>3 DEF Lists
  <2>3. PICK h \in K : u[k] = h + 1
    BY <2>1, <1>1 DEF Shifted
  <2>4. Before(K, h) = k - 1
    BY <2>1, <2>3, <1>1, ShiftBefore
  <2>5. h = t[k]
    <3>1. \E i \in K : Before(K, i) = k - 1 /\ \A j \in K : Before(K, j) = k - 1 => j = i
      BY Ranks
    <3>2. QED
      BY <3>1, <2>2, <2>4
  <2>6. QED
    BY <2>1, <2>2, <2>3, <2>5
<1>6. Exports!Cardinality(I) = Cardinality(I) /\ Exports!Cardinality(K) = Cardinality(K)
  BY Counts
<1>7. Part(s, I) = [k \in 1 .. n |-> Part(s, I)[k]] /\ Part(r, K) = [k \in 1 .. n |-> Part(r, K)[k]]
  BY <1>2, <1>6 DEF Part, Exports!AtPlaces
<1>8. QED
  BY <1>1, <1>5, <1>7

\* When nobody saves, every line of the list is written.
LEMMA AllWritten ==
    ASSUME ListInv, FileInv, Exports!AtRest
    PROVE  /\ Len(csv) <= Len(fd) + 1
           /\ fd # <<>> => Len(csv) = Len(fd) + 1 /\ \A k \in 1 .. Len(fd) + 1 : csv[k] = Row(k)
<1>1. ~Dirty /\ \A a \in Threads \cup {Gui} : ~Writing(a)
  BY DEF Exports!AtRest, Dirty, Writing
<1>2. /\ Len(csv) <= Len(fd) + 1
      /\ fd # <<>> => \A k \in 1 .. Len(fd) + 1 : k <= Len(csv) /\ csv[k] = Row(k)
  BY <1>1 DEF FileInv, Written
<1>3. Len(csv) \in Nat /\ Len(fd) \in Nat
  BY DEF ListInv, ListTypes, FileInv, FileTypes
<1>4. fd # <<>> => Len(fd) + 1 <= Len(csv)
  BY <1>2, <1>3
<1>5. QED
  BY <1>2, <1>3, <1>4

LEMMA RestIsDurable == ASSUME ListInv, FileInv PROVE Exports!Durable
<1>1. SUFFICES ASSUME Exports!AtRest PROVE Exports!Durable
  BY DEF Exports!Durable
<1>2. PICK kept : kept = {i \in DOMAIN fd : paramsOf[fd[i]] # None}
  OBVIOUS
<1>3. PICK rows : rows = [i \in DOMAIN fd |-> <<fd[i], paramsOf[fd[i]]>>]
  OBVIOUS
<1>4. PICK P : P = {k \in DOMAIN csv :
                       /\ k > 1 /\ csv[k] \notin {Header, Hole} /\ csv[k - 1] # Hole
                       /\ csv[k][2] # None /\ files[csv[k][2]] # None}
  OBVIOUS
<1>5. DOMAIN fd = 1 .. Len(fd) /\ DOMAIN csv = 1 .. Len(csv)
  BY DEF ListInv, ListTypes, FileInv, FileTypes
<1>6. /\ Len(fd) \in Nat /\ Len(csv) \in Nat /\ Len(csv) <= Len(fd) + 1
      /\ fd # <<>> => Len(csv) = Len(fd) + 1
  BY <1>1, AllWritten DEF ListInv, ListTypes, FileInv, FileTypes
<1>7. fd # <<>> => \A k \in 1 .. Len(fd) + 1 : csv[k] = Row(k)
  BY <1>1, AllWritten
<1>8. kept \in SUBSET Nat /\ IsFiniteSet(kept)
  <2>1. kept \in SUBSET (1 .. Len(fd))
    BY <1>2, <1>5
  <2>3. 1 .. Len(fd) \subseteq Nat /\ 1 \in Int /\ Len(fd) \in Int
    BY <1>6
  <2>2. QED
    BY <2>1, <2>3, FS_Interval, FS_Subset
<1>9. ASSUME NEW i \in 1 .. Len(fd)
      PROVE  /\ i + 1 \in 1 .. Len(csv) /\ fd # <<>> /\ fd[i] \in Photos
             /\ csv[i + 1] = <<fd[i], paramsOf[fd[i]]>>
             /\ csv[i + 1] \notin {Header, Hole} /\ csv[i] # Hole
  <2>1. fd # <<>> /\ i + 1 \in 1 .. Len(fd) + 1 /\ i \in 1 .. Len(fd) + 1
        /\ i + 1 # 1 /\ (i + 1) - 1 = i /\ fd[i] \in Photos
    <3>1. fd \in Seq(Photos) /\ i \in Nat /\ i >= 1 /\ i <= Len(fd)
      BY <1>6 DEF ListInv, ListTypes
    <3>2. fd[i] \in Photos /\ fd # <<>>
      BY <3>1
    <3>3. QED
      BY <3>1, <3>2, <1>6
  <2>2. csv[i + 1] = <<fd[i], paramsOf[fd[i]]>>
    <3>1. csv[i + 1] = Row(i + 1)
      BY <1>7, <2>1
    <3>2. QED
      BY <2>1, <3>1 DEF Row
  <2>3. <<fd[i], paramsOf[fd[i]]>> \in Photos \X (Names \cup {None})
    BY <2>1 DEF FileInv, FileTypes
  <2>4. csv[i] = Row(i)
    BY <1>7, <2>1
  <2>5. Row(i) # Hole
    <3>1. CASE i = 1
      BY <3>1, RowsAre DEF Row
    <3>2. CASE i # 1
      <4>1. i - 1 \in 1 .. Len(fd) /\ fd[i - 1] \in Photos
        <5>1. fd \in Seq(Photos) /\ i - 1 \in 1 .. Len(fd)
          BY <1>6, <3>2 DEF ListInv, ListTypes
        <5>2. QED
          BY <5>1
      <4>2. <<fd[i - 1], paramsOf[fd[i - 1]]>> \in Photos \X (Names \cup {None})
        BY <4>1 DEF FileInv, FileTypes
      <4>3. QED
        BY <3>2, <4>2, RowsAre DEF Row
    <3>3. QED
      BY <3>1, <3>2
  <2>6. QED
    BY <1>6, <2>1, <2>2, <2>3, <2>4, <2>5, RowsAre
<1>10. ASSUME NEW i \in kept PROVE files[paramsOf[fd[i]]] = fd[i]
  <2>1. i \in 1 .. Len(fd) /\ paramsOf[fd[i]] # None /\ fd[i] \in Listed(fd)
    BY <1>2, <1>5 DEF Listed
  <2>2. QED
    BY <2>1 DEF FileInv, Owned
<1>11. P = Shifted(kept)
  <2>1. ASSUME NEW k \in P PROVE k \in Shifted(kept)
    <3>1. k \in 1 .. Len(csv) /\ k > 1 /\ csv[k][2] # None
      BY <1>4, <1>5
    <3>2. PICK i \in 1 .. Len(fd) : k = i + 1
      <4>1. k - 1 \in 1 .. Len(fd) /\ k = (k - 1) + 1
        <5>1. k \in Nat /\ k > 1 /\ k <= Len(csv)
          BY <1>6, <3>1
        <5>2. k <= Len(fd) + 1
          BY <1>6, <5>1
        <5>3. QED
          BY <1>6, <5>1, <5>2
      <4>2. QED
        BY <4>1
    <3>3. csv[k] = <<fd[i], paramsOf[fd[i]]>>
      BY <1>9, <3>2
    <3>4. i \in kept
      <4>1. csv[k][2] = paramsOf[fd[i]]
        BY <3>3
      <4>2. QED
        BY <1>2, <1>5, <3>1, <4>1
    <3>5. QED
      BY <3>2, <3>4 DEF Shifted
  <2>2. ASSUME NEW k \in Shifted(kept) PROVE k \in P
    <3>1. PICK i \in kept : k = i + 1
      BY DEF Shifted
    <3>2. i \in 1 .. Len(fd) /\ paramsOf[fd[i]] # None
      BY <1>2, <1>5
    <3>3. /\ k \in 1 .. Len(csv) /\ csv[k] = <<fd[i], paramsOf[fd[i]]>> /\ fd[i] \in Photos
          /\ csv[k] \notin {Header, Hole} /\ csv[i] # Hole
      BY <1>9, <3>1, <3>2
    <3>4. k > 1 /\ k - 1 = i
      BY <3>1, <3>2
    <3>5. files[paramsOf[fd[i]]] # None
      BY <1>10, <3>1, <3>3, QueueNames
    <3>6. csv[k][2] = paramsOf[fd[i]] /\ k \in DOMAIN csv /\ csv[k - 1] # Hole
      BY <1>5, <3>3, <3>4
    <3>7. QED
      BY <1>4, <3>2, <3>3, <3>4, <3>5, <3>6
  <2>3. QED
    BY <2>1, <2>2
<1>12. Part(csv, P) = Part(rows, kept)
  <2>1. \A i \in kept : csv[i + 1] = rows[i]
    BY <1>2, <1>3, <1>5, <1>9
  <2>2. QED
    BY <2>1, <1>8, <1>11, ShiftTakes
<1>13. Exports!Recovered = Part(csv, P)
  BY <1>4 DEF Exports!Recovered, Part
<1>14. QED
  BY <1>2, <1>3, <1>10, <1>12, <1>13 DEF Exports!Durable, Part

\* Nothing has happened that the code does not guard against.
Saved == mishaps \cap {"start", "add", "open"} = {} /\ OwnNames

SavedInv == ExportInv /\ (crashes = 0 /\ Saved => FileInv)

LEMMA SavedStarts == ASSUME AllInit PROVE SavedInv
<1>1. Exports!Init
  BY DEF AllInit, Batch!Init, Exports!Init, Batch!Actors, Exports!Actors
<1>2. QED
  BY <1>1, ExportsStart, FilesStart DEF SavedInv

LEMMA SavedStays == ASSUME SavedInv, [AllNext]_all PROVE SavedInv'
<1>1. ExportInv /\ ExportInv'
  BY ExportsStay DEF SavedInv
<1>2. ASSUME crashes' = 0, Saved' PROVE FileInv'
  <2>1. ListInv /\ ListInv' /\ (ExportStep \/ UNCHANGED batchVars) /\ crashes = 0
    BY <1>1, <1>2, StepsAre DEF ExportInv, Saved
  <2>2. CASE ExportStep
    <3>1. mishaps \subseteq mishaps'
      BY <2>2, MishapsGrow
    <3>2. OwnNames
      BY <1>2, <2>1, <2>2, SentStays DEF OwnNames, Saved
    <3>3. FileInv
      BY <1>2, <2>1, <3>1, <3>2 DEF SavedInv, Saved
    <3>4. QED
      BY <1>2, <2>1, <2>2, <3>2, <3>3, FilesStay DEF Saved
  <2>3. CASE UNCHANGED batchVars
    <3>1. UNCHANGED <<fd, paramsOf, files, fate, csv, pos, gone, seen, old, bIdles, pc, mishaps>>
      BY <2>3 DEF batchVars
    <3>6. FileInv
      BY <1>2, <2>1, <3>1 DEF SavedInv, Saved, OwnNames
    <3>2. InPlace' /\ Written'
      BY <2>1, <3>1, <3>6, OthersKeepFile
    <3>3. FileTypes'
      BY <3>1, <3>6 DEF FileInv, FileTypes
    <3>4. Owned'
      BY <3>1, <3>6, OwnedStays, Zenon
    <3>5. QED
      BY <3>2, <3>3, <3>4 DEF FileInv
  <2>4. QED
    BY <2>1, <2>2, <2>3
<1>3. QED
  BY <1>1, <1>2 DEF SavedInv

LEMMA DurableInBoth == ASSUME Exports!Durable PROVE Durable
<1>1. Batch!Durable
  BY DEF Exports!Durable, Exports!AtRest, Exports!Recovered, Exports!AtPlaces,
         Exports!Cardinality, Exports!Kept, Exports!OwnNames, Batch!Durable, Batch!Kept,
         Batch!OwnNames, Batch!AtRest, Batch!Recovered, Batch!AtPlaces,
         Batch!Cardinality
<1>2. Crash!Durable
  BY DEF Exports!Durable, Exports!AtRest, Exports!Recovered, Exports!AtPlaces,
         Exports!Cardinality, Exports!Kept, Exports!OwnNames, Crash!Durable, Crash!Kept,
         Crash!OwnNames, Crash!AtRest, Crash!Recovered, Crash!AtPlaces,
         Crash!Cardinality
<1>3. QED
  BY <1>1, <1>2, Zenon DEF Durable

\* Whenever nobody is between a change of the list and the end of its saving, a
\* restart would find the list as it is, every photo with its own parameters: for
\* any photos and threads, however the user sends, moves and cancels photos while
\* one is finished and queue.csv is written by two (saveBatchQueue() takes entryRW
\* only to read), and although parameters, images and names may fail; for as long
\* as queue.csv could be opened, no two photos had a name in common, nothing was
\* sent while the thread emptied the directory, and no thread was created while
\* another was finishing its photo.
THEOREM ListIsDurable == AllSpec => [](crashes = 0 => Durable)
<1>1. AllInit => SavedInv
  BY SavedStarts
<1>2. SavedInv /\ [AllNext]_all => SavedInv'
  BY SavedStays
<1>3. SavedInv => (crashes = 0 => Durable)
  <2>1. ASSUME SavedInv, crashes = 0, Saved PROVE Exports!Durable
    BY <2>1, RestIsDurable DEF SavedInv, ExportInv, Saved
  <2>2. ASSUME ~Saved PROVE Exports!Durable
    BY <2>2 DEF Exports!Durable, Exports!Kept, Exports!OwnNames, Saved, OwnNames
  <2>3. QED
    BY <2>1, <2>2, DurableInBoth
<1>4. QED
  BY <1>1, <1>2, <1>3, PTL DEF AllSpec

=============================================================================
