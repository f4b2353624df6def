--------------------------- MODULE ThumbnailsProofs ---------------------------
(***************************************************************************)
(* Proofs about the previews of the batch queue (QueuePreviews, the        *)
(* instance Batch of MCThumbnails) and about the cells of the file browser *)
(* (EntryImages, Grid and Crowd).                                          *)
(*                                                                         *)
(* For the cells: each entry keeps AskedFor and UpToDate, and is Apart:    *)
(* one worker at a time, at the size of its cell.  A step is quiet         *)
(* for the entries it is not about (StepOfOne); for the one it is about,   *)
(* it sets the entry aside, asks for a rendering (Renewed), or moves the   *)
(* picture on its way one stage further.                                   *)
(*                                                                         *)
(* For their helpers (the instance Crowd): a step takes or gives back one  *)
(* reference of one entry, or none (CountedStep, QuietCounts).             *)
(***************************************************************************)
EXTENDS MCThumbnails, Sequences, FiniteSetTheorems, SequenceTheorems,
        WellFoundedInduction, TLAPS

\* What a thread of the batch queue is, whatever its job.
ThreadShape ==
    thread = [t \in Threads |-> [pc |-> thread[t].pc, job |-> thread[t].job]]

\* A thread that runs is the only one, and is not taken for stopped.
Alone ==
    /\ ThreadShape
    /\ \A t1, t2 \in Threads : thread[t1].pc # "none" /\ thread[t2].pc # "none" => t1 = t2
    /\ stopped => \A t \in Threads : thread[t].pc = "none"

\* At first no thread runs.
LEMMA AloneInit == ASSUME Batch!Init PROVE Alone
BY DEF Batch!Init, Alone, ThreadShape

\* A step of the updater starts a thread only when none runs.
LEMMA AloneStep == ASSUME Alone, [Batch!Next]_(Batch!vars) PROVE Alone'
<1>0. thread = [t \in Threads |-> [pc |-> thread[t].pc, job |-> thread[t].job]]
  BY DEF Alone, ThreadShape
<1>1. CASE Batch!StartThread
  <2>1. CASE stopped
    <3>1. PICK t \in Threads : thread' = [thread EXCEPT ![t].pc = "look"] /\ stopped' = FALSE
      BY <1>1, <2>1 DEF Batch!StartThread
    <3>2. ThreadShape'
      BY <1>0, <3>1 DEF ThreadShape
    <3>3. \A x \in Threads \ {t} : thread'[x].pc = "none"
      BY <1>0, <2>1, <3>1 DEF Alone
    <3>4. QED
      BY <3>1, <3>2, <3>3 DEF Alone
  <2>2. CASE ~stopped
    BY <1>1, <2>2 DEF Batch!StartThread, Alone, ThreadShape
  <2>3. QED
    BY <2>1, <2>2
<1>2. CASE UNCHANGED <<thread, stopped>>
  BY <1>2 DEF Alone, ThreadShape
<1>3. ASSUME NEW t \in Threads, Batch!Finish(t) PROVE Alone'
  <2>1. /\ thread[t].pc = "end" /\ thread' = [thread EXCEPT ![t].pc = "none"]
        /\ stopped' = TRUE
    BY <1>3 DEF Batch!Finish
  <2>2. ThreadShape'
    BY <1>0, <2>1 DEF ThreadShape
  <2>3. \A x \in Threads : thread'[x].pc = "none"
    BY <1>0, <2>1 DEF Alone
  <2>4. QED
    BY <2>2, <2>3 DEF Alone
<1>4. ASSUME NEW t \in Threads, Batch!Look(t) \/ Batch!Render(t) \/ Batch!Deliver(t)
      PROVE  Alone'
  <2>1. thread[t].pc # "none" /\ UNCHANGED stopped
    BY <1>4 DEF Batch!Look, Batch!Render, Batch!Deliver
  <2>2. \/ \E next \in {"end", "deliver", "look"} : thread' = [thread EXCEPT ![t].pc = next]
        \/ thread' = [thread EXCEPT ![t] = [pc |-> "render", job |-> Head(jobs)]]
    BY <1>4 DEF Batch!Look, Batch!Render, Batch!Deliver
  <2>3. ThreadShape' /\ \A x \in Threads \ {t} : thread'[x].pc = thread[x].pc
    <3>1. CASE \E next \in {"end", "deliver", "look"} : thread' = [thread EXCEPT ![t].pc = next]
      BY <1>0, <3>1 DEF ThreadShape
    <3>2. CASE thread' = [thread EXCEPT ![t] = [pc |-> "render", job |-> Head(jobs)]]
      BY <1>0, <3>2 DEF ThreadShape
    <3>3. QED
      BY <2>2, <3>1, <3>2
  <2>4. QED
    BY <2>1, <2>3 DEF Alone
<1>5. CASE \E e \in Photos :
            Batch!Add(e) \/ Batch!Delete(e) \/ \E s \in Sizes : Batch!Resize(e, s)
  BY <1>2, <1>5 DEF Batch!Add, Batch!Delete, Batch!Resize
<1>6. CASE UNCHANGED Batch!vars
  BY <1>2, <1>6 DEF Batch!vars
<1>7. QED
  BY <1>1, <1>3, <1>4, <1>5, <1>6 DEF Batch!Next, Batch!ThreadStep

\* QueuePreviews and FiniteSetTheorems count alike.
LEMMA SameCardinality == ASSUME NEW S PROVE Batch!Cardinality(S) = Cardinality(S)
BY DEF Batch!Cardinality, Cardinality

\* process() may start a thread when it finds the updater stopped: it is never
\* the second one (Batch of the run, whose states say that it acts).
THEOREM UpdaterHasOneThread == Batch!Spec => []OneThread
<1>1. Alone => OneThread
  <2>1. SUFFICES ASSUME Alone PROVE Batch!OneThread
    BY DEF OneThread
  <2>2. CASE Batch!Running = {}
    BY <2>2, FS_EmptySet, SameCardinality DEF Batch!OneThread
  <2>3. CASE Batch!Running # {}
    <3>1. PICK t \in Threads : Batch!Running = {t}
      BY <2>1, <2>3 DEF Batch!Running, Alone
    <3>2. Cardinality({t}) = 1
      BY FS_Singleton
    <3>3. QED
      BY <3>1, <3>2, SameCardinality DEF Batch!OneThread
  <2>4. QED
    BY <2>2, <2>3
<1>2. QED
  BY <1>1, AloneInit, AloneStep, PTL DEF Batch!Spec


-----------------------------------------------------------------------------
\* The updates of an entry that wait for the drain.
UpdatesOf(e) == {images[i] : i \in {j \in DOMAIN images : images[j].of = e}}

\* A picture that is up to date: the last edit, or the camera's.
Good(e, pic) ==
    \/ pic = entry[e].params
    \/ pic = Grid!Camera /\ entry[e].quick

\* A worker that has something in hand for an entry, or a picture of it.
Busy(w, e) == worker[w].of = e /\ worker[w].pc # "idle"

Carries(w, e) ==
    /\ worker[w].of = e
    /\ \/ worker[w].pc \in {"stamp", "queue"}
       \/ worker[w].pc = "call" /\ worker[w].pic # Grid!None

\* Entries whose picture is nobody's business: another is asked for later, or
\* two workers have met there.
Aside(e) ==
    \/ e \in hover \cup applying
    \/ entry[e].life # "open"
    \/ e \in met

\* A job that will bring a picture, not yet rendered.
WillRender(e) ==
    \/ \E j \in renderings : j.of = e /\ (j.upgrade => entry[e].quick)
    \/ \E w \in Workers : /\ worker[w].of = e /\ worker[w].pc = "render"
                          /\ worker[w].upgrade => entry[e].quick

\* What is asked for is on its way, and its generation is the last.
OnItsWay(e) ==
    \/ \E j \in renderings : j.of = e
    \/ \E w \in Workers : /\ worker[w].of = e
                          /\ worker[w].pc \in {"render", "call", "stamp"}
    \/ \E w \in Workers : /\ worker[w].of = e /\ worker[w].pc = "queue"
                          /\ worker[w].gen = entry[e].gen
    \/ /\ \A w \in Workers : ~ (worker[w].of = e /\ worker[w].pc = "queue")
       /\ \E u \in UpdatesOf(e) : u.gen = entry[e].gen

AskedFor(e) == Aside(e) \/ ~ entry[e].lazy \/ OnItsWay(e)

\* The last picture on its way, or else the one shown, is up to date.
LastIsGood(e) ==
    \/ \E w \in Workers :
          /\ Carries(w, e) /\ Good(e, worker[w].pic)
          /\ worker[w].pc = "queue" => worker[w].gen = entry[e].gen
    \/ /\ \A w \in Workers : ~ Carries(w, e)
       /\ \A u \in UpdatesOf(e) : u.gen = entry[e].gen => Good(e, u.pic)
       /\ \/ \E u \in UpdatesOf(e) : u.gen = entry[e].gen
          \/ Grid!Usable(entry[e]) => Good(e, entry[e].preview.pic)

UpToDate(e) ==
    Aside(e) \/ entry[e].live \/ e \in caught \/ WillRender(e) \/ LastIsGood(e)

\* What else is needed: one entry at most is under the pointer, the helper of
\* an open entry lives, and pictures are pictures.
EntrySound ==
    /\ \A x, y \in hover : x = y
    /\ \A x, y \in applying : x = y
    /\ \A e \in Cells :
          /\ entry[e].life = "open" => entry[e].helper = "live"
          /\ entry[e].params <= ops + 1
          /\ e \in applying => entry[e].params <= ops
    /\ \A w \in Workers :
          worker[w].pc \in {"stamp", "queue"} => worker[w].pic # Grid!None

EntryInv ==
    /\ EntrySound
    /\ \A e \in Cells : AskedFor(e) /\ UpToDate(e)

\* Like EntryStates; that pending is never negative is HelperIsCounted, below.
EntryShapes ==
    [life : {"open", "deleted"}, params : Grid!Edits, quick : BOOLEAN,
     size : Sizes, preview : [size : Sizes, pic : Grid!Pictures \cup {Grid!None}],
     slots : [Sizes -> Grid!Pictures \cup {Grid!None}],
     lazy : BOOLEAN, live : BOOLEAN, gen : Nat, retries : Nat, retryGen : Nat,
     visible : BOOLEAN, redraws : Int, pending : Int,
     helper : {"live", "destroyed", "freed"}]

EntryShape ==
    /\ entry \in [Cells -> EntryShapes]
    /\ renderings \subseteq [of : Cells, upgrade : BOOLEAN]
    /\ worker \in [Workers -> Grid!WorkerStates]
    /\ images \in Seq(Grid!Updates)
    /\ timers \in Seq([of : Cells, gen : Nat])
    /\ hover \subseteq Cells
    /\ applying \subseteq Cells
    /\ ops \in 0 .. MaxOps

\* What has been met or caught stays so.
Remembers == met \subseteq met' /\ caught \subseteq caught'

\* A step that is nothing to an entry.
Same(r, n) ==
    /\ n.life = r.life /\ n.quick = r.quick /\ n.live = r.live
    /\ n.gen = r.gen /\ n.preview = r.preview /\ n.size = r.size

Quiet(e) ==
    /\ Remembers
    /\ Same(entry[e], entry'[e])
    /\ entry'[e].live \/ entry'[e].params = entry[e].params
    /\ entry'[e].lazy => entry[e].lazy
    /\ \A j \in renderings : j.of = e => j \in renderings'
    /\ \A w \in Workers :
          \/ worker'[w] = worker[w]
          \/ ~ Busy(w, e) /\ ~ Busy(w, e)'
    /\ UpdatesOf(e)' = UpdatesOf(e)
    /\ e \in hover \cup applying => e \in hover' \cup applying'

\* A step that asks for a rendering.
Renewed(e) == \E j \in renderings' : j.of = e /\ (j.upgrade => entry'[e].quick)

\* A quiet step leaves an entry as it was.
LEMMA QuietKeeps ==
    ASSUME NEW e \in Cells, AskedFor(e), UpToDate(e), Quiet(e)
    PROVE  AskedFor(e)' /\ UpToDate(e)'
<1>1. AskedFor(e)'
  <2>1. CASE Aside(e)
    BY <2>1 DEF Aside, AskedFor, Quiet, Same, Remembers
  <2>2. CASE ~ entry[e].lazy
    BY <2>2 DEF AskedFor, Quiet
  <2>3. CASE OnItsWay(e)
    <3>1. CASE \E j \in renderings : j.of = e
      BY <3>1 DEF Quiet, OnItsWay, AskedFor
    <3>2. CASE \E w \in Workers : worker[w].of = e /\ worker[w].pc \in {"render", "call", "stamp"}
      BY <3>2 DEF Quiet, OnItsWay, AskedFor, Busy
    <3>3. CASE \E w \in Workers : worker[w].of = e /\ worker[w].pc = "queue" /\ worker[w].gen = entry[e].gen
      BY <3>3 DEF Quiet, Same, OnItsWay, AskedFor, Busy
    <3>4. CASE /\ \A w \in Workers : ~ (worker[w].of = e /\ worker[w].pc = "queue")
               /\ \E u \in UpdatesOf(e) : u.gen = entry[e].gen
      <4>1. \A w \in Workers : ~ (worker'[w].of = e /\ worker'[w].pc = "queue")
        BY <3>4 DEF Quiet, Busy
      <4>2. \E u \in UpdatesOf(e)' : u.gen = entry'[e].gen
        BY <3>4 DEF Quiet, Same
      <4>3. QED
        BY <4>1, <4>2 DEF OnItsWay, AskedFor
    <3>5. QED
      BY <2>3, <3>1, <3>2, <3>3, <3>4 DEF OnItsWay
  <2>4. QED
    BY <2>1, <2>2, <2>3 DEF AskedFor
<1>2. UpToDate(e)'
  <2>1. CASE Aside(e) \/ entry[e].live \/ e \in caught
    BY <2>1 DEF Aside, UpToDate, Quiet, Same, Remembers
  <2>2. CASE entry'[e].live
    BY <2>2 DEF UpToDate
  <2>3. CASE WillRender(e)
    <3>1. CASE \E j \in renderings : j.of = e /\ (j.upgrade => entry[e].quick)
      BY <3>1 DEF Quiet, Same, WillRender, UpToDate
    <3>2. CASE \E w \in Workers : /\ worker[w].of = e /\ worker[w].pc = "render"
                                  /\ worker[w].upgrade => entry[e].quick
      BY <3>2 DEF Quiet, Same, WillRender, UpToDate, Busy
    <3>3. QED
      BY <2>3, <3>1, <3>2 DEF WillRender
  <2>4. CASE LastIsGood(e) /\ ~ entry'[e].live
    <3>0. \A p : Good(e, p) => entry'[e].params = p \/ (p = Grid!Camera /\ entry'[e].quick)
      BY <2>4 DEF Quiet, Same, Good
    <3>1. CASE \E w \in Workers :
                  /\ Carries(w, e) /\ Good(e, worker[w].pic)
                  /\ worker[w].pc = "queue" => worker[w].gen = entry[e].gen
      <4>1. PICK w \in Workers :
                  /\ Carries(w, e) /\ Good(e, worker[w].pic)
                  /\ worker[w].pc = "queue" => worker[w].gen = entry[e].gen
        BY <3>1
      <4>2. worker'[w] = worker[w]
        BY <4>1 DEF Quiet, Busy, Carries
      <4>3. Carries(w, e)'
        BY <4>1, <4>2 DEF Carries
      <4>4. Good(e, worker[w].pic)'
        BY <4>1, <4>2, <3>0 DEF Good
      <4>5. worker'[w].pc = "queue" => worker'[w].gen = entry'[e].gen
        BY <4>1, <4>2 DEF Quiet, Same
      <4>6. QED
        BY <4>3, <4>4, <4>5 DEF UpToDate, LastIsGood
    <3>2. CASE /\ \A w \in Workers : ~ Carries(w, e)
               /\ \A u \in UpdatesOf(e) : u.gen = entry[e].gen => Good(e, u.pic)
               /\ \/ \E u \in UpdatesOf(e) : u.gen = entry[e].gen
                  \/ Grid!Usable(entry[e]) => Good(e, entry[e].preview.pic)
      <4>1. \A w \in Workers : ~ Carries(w, e)'
        BY <3>2 DEF Quiet, Busy, Carries
      <4>2. \A u \in UpdatesOf(e)' : u.gen = entry'[e].gen => Good(e, u.pic)'
        BY <3>2, <3>0 DEF Quiet, Same, Good
      <4>3. \/ \E u \in UpdatesOf(e)' : u.gen = entry'[e].gen
            \/ Grid!Usable(entry[e])' => Good(e, entry[e].preview.pic)'
        BY <3>2, <3>0 DEF Quiet, Same, Good, Grid!Usable
      <4>4. QED
        BY <4>1, <4>2, <4>3 DEF UpToDate, LastIsGood
    <3>3. QED
      BY <2>4, <3>1, <3>2 DEF LastIsGood
  <2>5. QED
    BY <2>1, <2>2, <2>3, <2>4 DEF UpToDate
<1>3. QED
  BY <1>1, <1>2

\* So does one that asks for a rendering.
LEMMA RenewedKeeps ==
    ASSUME NEW e \in Cells, Renewed(e) PROVE AskedFor(e)' /\ UpToDate(e)'
BY DEF Renewed, AskedFor, OnItsWay, UpToDate, WillRender

\* An entry set aside, or one that shows the editor and asks for nothing.
LEMMA AsideKeeps ==
    ASSUME NEW e \in Cells, Aside(e)' \/ (entry'[e].live /\ ~ entry'[e].lazy)
    PROVE  AskedFor(e)' /\ UpToDate(e)'
BY DEF AskedFor, UpToDate, Aside

\* The queue without one of its updates.
LEMMA RemoveAtFacts ==
    ASSUME NEW S, NEW s \in Seq(S), NEW i \in DOMAIN s
    PROVE  /\ Grid!RemoveAt(s, i) \in Seq(S)
           /\ Len(Grid!RemoveAt(s, i)) = Len(s) - 1
           /\ \A k \in 1 .. Len(s) - 1 :
                 Grid!RemoveAt(s, i)[k] = IF k < i THEN s[k] ELSE s[k + 1]
<1>1. i \in 1 .. Len(s) /\ Len(s) \in Nat
  OBVIOUS
<1> DEFINE a == SubSeq(s, 1, i - 1)
           b == SubSeq(s, i + 1, Len(s))
<1>2. /\ a \in Seq(S) /\ Len(a) = i - 1
      /\ \A k \in 1 .. i - 1 : a[k] = s[k]
  BY <1>1, SubSeqProperties
<1>3. b \in Seq(S)
  BY <1>1, SubSeqProperties
<1>4. Len(b) = Len(s) - i
  BY <1>1, SubSeqProperties
<1>5. \A k \in 1 .. Len(s) - i : b[k] = s[k + i]
  BY <1>1, SubSeqProperties
<1>6. Grid!RemoveAt(s, i) = a \o b
  BY DEF Grid!RemoveAt
<1> HIDE DEF a, b
<1>7. /\ a \o b \in Seq(S) /\ Len(a \o b) = Len(s) - 1
      /\ \A k \in 1 .. Len(s) - 1 :
            (a \o b)[k] = IF k <= i - 1 THEN a[k] ELSE b[k - (i - 1)]
  BY <1>1, <1>2, <1>3, <1>4, ConcatProperties, SMTT(20), ZenonT(20)
<1>8. \A k \in 1 .. Len(s) - 1 : (a \o b)[k] = IF k < i THEN s[k] ELSE s[k + 1]
  <2> TAKE k \in 1 .. Len(s) - 1
  <2>1. CASE k < i
    BY <2>1, <1>1, <1>2, <1>7
  <2>2. CASE ~ (k < i)
    <3>1. k - (i - 1) \in 1 .. Len(s) - i /\ k - (i - 1) + i = k + 1
      BY <2>2, <1>1
    <3>2. b[k - (i - 1)] = s[k + 1]
      BY <3>1, <1>5
    <3>3. (a \o b)[k] = b[k - (i - 1)]
      BY <2>2, <1>1, <1>7
    <3>4. QED
      BY <2>2, <3>2, <3>3
  <2>3. QED
    BY <2>1, <2>2
<1>9. QED
  BY <1>6, <1>7, <1>8

\* The queue without an update has the others of its entry, and of the rest.
LEMMA RemoveAtUpdates ==
    ASSUME EntryShape, NEW i \in DOMAIN images, images' = Grid!RemoveAt(images, i),
           NEW e \in Cells
    PROVE  /\ images' \in Seq(Grid!Updates)
           /\ images[i].of # e => UpdatesOf(e)' = UpdatesOf(e)
           /\ images[i].of = e => UpdatesOf(e) = UpdatesOf(e)' \cup {images[i]}
<1>1. images \in Seq(Grid!Updates)
  BY DEF EntryShape
<1>2. /\ images' \in Seq(Grid!Updates) /\ Len(images') = Len(images) - 1
      /\ \A k \in 1 .. Len(images) - 1 : images'[k] = IF k < i THEN images[k] ELSE images[k + 1]
  BY <1>1, RemoveAtFacts
<1>3. /\ DOMAIN images = 1 .. Len(images)
      /\ DOMAIN images' = 1 .. Len(images) - 1
      /\ Len(images) \in Nat
  BY <1>1, <1>2
<1>4. \A u \in UpdatesOf(e)' : u \in UpdatesOf(e)
  BY <1>2, <1>3 DEF UpdatesOf
<1>5. \A k \in DOMAIN images : k # i => \E l \in DOMAIN images' : images'[l] = images[k]
  <2> TAKE k \in DOMAIN images
  <2> HAVE k # i
  <2>1. CASE k < i
    BY <2>1, <1>2, <1>3
  <2>2. CASE k > i
    <3>1. k - 1 \in DOMAIN images' /\ images'[k - 1] = images[k]
      BY <2>2, <1>2, <1>3
    <3>2. QED
      BY <3>1
  <2>3. QED
    BY <2>1, <2>2, <1>3
<1>6. \A u \in UpdatesOf(e) : u \in UpdatesOf(e)' \/ u = images[i]
  BY <1>5 DEF UpdatesOf
<1>7. images[i].of = e => images[i] \in UpdatesOf(e)
  BY DEF UpdatesOf
<1>8. images[i].of # e => images[i] \notin UpdatesOf(e)
  BY DEF UpdatesOf
<1>9. QED
  BY <1>2, <1>4, <1>6, <1>7, <1>8

\* An update put in the queue is the only one of its entry.
LEMMA PutUpdates ==
    ASSUME EntryShape, NEW u \in Grid!Updates, Grid!Put(u), NEW e \in Cells
    PROVE  /\ images' \in Seq(Grid!Updates)
           /\ e # u.of => UpdatesOf(e)' = UpdatesOf(e)
           /\ e = u.of => UpdatesOf(e)' = {u}
<1>1. images \in Seq(Grid!Updates)
  BY DEF EntryShape
<1>2. CASE Grid!Waits(images, u.of)
  <2>1. images' = [i \in DOMAIN images |-> IF images[i].of = u.of THEN u ELSE images[i]]
    BY <1>2 DEF Grid!Put
  <2>2. /\ DOMAIN images' = DOMAIN images
        /\ DOMAIN images = 1 .. Len(images)
        /\ Len(images) \in Nat
    BY <1>1, <2>1
  <2>3. images' \in Seq(Grid!Updates)
    BY <1>1, <2>1, <2>2
  <2>4. \A i \in DOMAIN images : (images'[i].of = e <=> images[i].of = e)
                                /\ (images[i].of # u.of => images'[i] = images[i])
                                /\ (images[i].of = u.of => images'[i] = u)
    BY <2>1
  <2>5. e # u.of => UpdatesOf(e)' = UpdatesOf(e)
    BY <2>2, <2>4 DEF UpdatesOf
  <2>6. e = u.of => UpdatesOf(e)' = {u}
    BY <2>2, <2>4, <1>2 DEF UpdatesOf, Grid!Waits
  <2>7. QED
    BY <2>3, <2>5, <2>6
<1>3. CASE ~ Grid!Waits(images, u.of)
  <2>1. images' = Append(images, u)
    BY <1>3 DEF Grid!Put
  <2>2. /\ images' \in Seq(Grid!Updates) /\ Len(images') = Len(images) + 1
        /\ \A i \in 1 .. Len(images) : images'[i] = images[i]
        /\ images'[Len(images) + 1] = u
    BY <1>1, <2>1, AppendProperties
  <2>3. /\ DOMAIN images = 1 .. Len(images) /\ DOMAIN images' = 1 .. Len(images) + 1
        /\ Len(images) \in Nat
    BY <1>1, <2>2
  <2>4. \A i \in DOMAIN images' : i \in DOMAIN images \/ i = Len(images) + 1
    BY <2>3
  <2>5. e # u.of => UpdatesOf(e)' = UpdatesOf(e)
    BY <2>2, <2>3, <2>4 DEF UpdatesOf
  <2>6. e = u.of => UpdatesOf(e)' = {u}
    BY <2>2, <2>3, <2>4, <1>3 DEF UpdatesOf, Grid!Waits
  <2>7. QED
    BY <2>2, <2>5, <2>6
<1>4. QED
  BY <1>2, <1>3

\* One worker at a time is busy with an entry, unless two have met there ...
Unshared(e) == e \in met \/ \A v, w \in Workers : Busy(v, e) /\ Busy(w, e) => v = w

\* ... and what is on its way to it has the size of the cell, unless a resize
\* has caught it.
Fitting(e) ==
    \/ e \in caught
    \/ /\ \A w \in Workers : Busy(w, e) => worker[w].size = entry[e].size
       /\ \A u \in UpdatesOf(e) : u.size = entry[e].size

Apart == \A e \in Cells : Unshared(e) /\ Fitting(e)

\* A worker alone with an entry, and not about to render it, leaves a job to.
LEMMA JobWillRender ==
    ASSUME NEW e \in Cells, NEW w \in Workers, \A v \in Workers : Busy(v, e) => v = w,
           WillRender(e), ~ (worker[w].pc = "render" /\ (worker[w].upgrade => entry[e].quick))
    PROVE  \E j \in renderings : j.of = e /\ (j.upgrade => entry[e].quick)
<1>1. ASSUME NEW v \in Workers, worker[v].of = e, worker[v].pc = "render",
             worker[v].upgrade => entry[e].quick
      PROVE  FALSE
  <2>1. Busy(v, e)
    BY <1>1 DEF Busy
  <2>2. v = w
    BY <2>1
  <2>3. QED
    BY <1>1, <2>2
<1>2. QED
  BY <1>1 DEF WillRender

\* The worker that is busy with an entry is the only one.
LEMMA BusyAlone ==
    ASSUME Apart, NEW e \in Cells, NEW w \in Workers, Busy(w, e)
    PROVE  \/ Aside(e)
           \/ \A v \in Workers : Busy(v, e) => v = w
BY DEF Apart, Unshared, Aside

\* What keeps the picture, and what it does not touch.
Alike(r, n) ==
    /\ n \in EntryShapes /\ Same(r, n)
    /\ n.params = r.params /\ n.lazy = r.lazy
    /\ r.helper = "live" => n.helper = "live"

\* A reference released and an update discarded leave the picture alone.
LEMMA ReleaseFacts == ASSUME NEW r \in EntryShapes PROVE Alike(r, Grid!Release(r))
<1>1. Grid!Release(r) \in EntryShapes
  <2> DEFINE h == IF r.helper = "destroyed" /\ r.pending = 1 THEN "freed" ELSE r.helper
             p == r.pending - 1
  <2>1. h \in {"live", "destroyed", "freed"} /\ p \in Int
    BY DEF EntryShapes
  <2>2. Grid!Release(r) = [r EXCEPT !.pending = p, !.helper = h]
    BY DEF Grid!Release
  <2> HIDE DEF h, p
  <2>3. [r EXCEPT !.pending = p, !.helper = h] \in EntryShapes
    BY <2>1 DEF EntryShapes
  <2>4. QED
    BY <2>2, <2>3
<1>2. Same(r, Grid!Release(r))
  BY DEF Grid!Release, EntryShapes, Same
<1>3. QED
  BY <1>1, <1>2 DEF Grid!Release, EntryShapes, Alike

LEMMA DiscardFacts == ASSUME NEW r \in EntryShapes PROVE Alike(r, Grid!Discard(r))
<1>1. Alike(r, Grid!Release(r))
  BY ReleaseFacts
<1>2. CASE r.helper = "destroyed"
  BY <1>1, <1>2 DEF Grid!Discard
<1>3. CASE r.helper # "destroyed"
  <2>1. Grid!Discard(r) = [Grid!Release(r) EXCEPT !.redraws = @ - 1]
    BY <1>3 DEF Grid!Discard
  <2>2. \A n \in EntryShapes : LET m == [n EXCEPT !.redraws = @ - 1] IN
            /\ m \in EntryShapes /\ Same(n, m) /\ m.params = n.params
            /\ m.lazy = n.lazy /\ m.helper = n.helper
    BY DEF EntryShapes, Same
  <2>3. QED
    BY <2>1, <2>2, <1>1 DEF Alike, Same
<1>4. QED
  BY <1>2, <1>3

\* A picture painted at the size of the cell answers what was asked for.
LEMMA PaintFacts ==
    ASSUME NEW r \in EntryShapes, NEW p \in Grid!Pictures
    PROVE  LET n == Grid!Paint(r, r.size, p) IN
           /\ n \in EntryShapes /\ n.preview = [size |-> r.size, pic |-> p]
           /\ ~ n.lazy /\ n.life = r.life /\ n.params = r.params
           /\ n.quick = r.quick /\ n.live = r.live /\ n.gen = r.gen
           /\ n.size = r.size /\ n.helper = r.helper
<1>1. Grid!Paint(r, r.size, p) =
          [r EXCEPT !.preview = [size |-> r.size, pic |-> p], !.lazy = FALSE,
                    !.redraws = @ - 1, !.retries = 0, !.retryGen = @ + 1]
  BY DEF Grid!Paint
<1> DEFINE q == [size |-> r.size, pic |-> p]
           d == r.redraws - 1
           g == r.retryGen + 1
<1>2. q \in [size : Sizes, pic : Grid!Pictures \cup {Grid!None}] /\ d \in Int /\ g \in Nat
  BY DEF EntryShapes
<1>3. Grid!Paint(r, r.size, p) =
          [r EXCEPT !.preview = q, !.lazy = FALSE, !.redraws = d, !.retries = 0,
                    !.retryGen = g]
  BY <1>1
<1> HIDE DEF q, d, g
<1>a. Grid!Paint(r, r.size, p) \in EntryShapes
  <2>1. [r EXCEPT !.preview = q] \in EntryShapes
    BY <1>2 DEF EntryShapes
  <2>2. \A n \in EntryShapes :
            [n EXCEPT !.lazy = FALSE, !.redraws = d, !.retries = 0, !.retryGen = g] \in EntryShapes
    BY <1>2 DEF EntryShapes
  <2>3. Grid!Paint(r, r.size, p) =
            [[r EXCEPT !.preview = q] EXCEPT !.lazy = FALSE, !.redraws = d, !.retries = 0,
                                             !.retryGen = g]
    BY <1>3
  <2>4. QED
    BY <2>1, <2>2, <2>3
<1>4. LET n == Grid!Paint(r, r.size, p) IN
      /\ n.preview = q
      /\ ~ n.lazy /\ n.life = r.life /\ n.params = r.params
      /\ n.quick = r.quick /\ n.live = r.live /\ n.gen = r.gen
      /\ n.size = r.size /\ n.helper = r.helper
  BY <1>2, <1>3 DEF EntryShapes
<1>5. QED
  BY <1>a, <1>4 DEF q

\* An edit changes the parameters, and ends the picture of the editor.
LEMMA EditedFacts ==
    ASSUME NEW r \in EntryShapes, r.params + 1 \in Grid!Edits
    PROVE  LET n == Grid!Edited(r) IN
           /\ n \in EntryShapes /\ n.params = r.params + 1
           /\ n.life = r.life /\ n.quick = r.quick /\ n.helper = r.helper
BY DEF Grid!Edited, Grid!DropSlots, Grid!NoSlots, EntryShapes

\* An edit asks for a rendering that brings its picture.
LEMMA EditAsks ==
    ASSUME EntryShape, NEW e \in Cells
    PROVE  /\ Grid!EditJobs(e) \subseteq [of : Cells, upgrade : BOOLEAN]
           /\ \E j \in Grid!EditJobs(e) : j.of = e /\ (j.upgrade => entry[e].quick)
<1>1. entry[e].quick \in BOOLEAN /\ Grid!WantsUpgrade(entry[e]) \in BOOLEAN
  BY DEF EntryShape, EntryShapes, Grid!WantsUpgrade, Grid!Usable
<1>2. CASE entry[e].quick
  <2>1. Grid!WantsUpgrade(entry[e]) \/ ~ Grid!Usable(entry[e])
    BY <1>2 DEF Grid!WantsUpgrade
  <2>2. Grid!EditJobs(e) = {[of |-> e, upgrade |-> Grid!WantsUpgrade(entry[e])]}
    BY <1>2, <2>1 DEF Grid!EditJobs, Grid!QuickJobs
  <2> DEFINE a == [of |-> e, upgrade |-> Grid!WantsUpgrade(entry[e])]
  <2>3. /\ a.of = e
        /\ a.upgrade = Grid!WantsUpgrade(entry[e])
        /\ a \in [of : Cells, upgrade : BOOLEAN]
    BY <1>1
  <2>4. Grid!EditJobs(e) = {a}
    BY <2>2
  <2> HIDE DEF a
  <2>5. Grid!EditJobs(e) \subseteq [of : Cells, upgrade : BOOLEAN]
    BY <2>3, <2>4
  <2>6. a \in Grid!EditJobs(e)
    BY <2>4
  <2>7. \E j \in Grid!EditJobs(e) : j.of = e /\ (j.upgrade => entry[e].quick)
    BY <1>2, <2>3, <2>6, Zenon
  <2>8. QED
    BY <2>5, <2>7
<1>3. CASE ~ entry[e].quick
  <2> DEFINE a == [of |-> e, upgrade |-> FALSE]
  <2>1. a.of = e /\ a.upgrade = FALSE /\ a \in [of : Cells, upgrade : BOOLEAN]
    OBVIOUS
  <2>2. Grid!EditJobs(e) = {a}
    BY <1>3 DEF Grid!EditJobs, Grid!RefreshJobs
  <2> HIDE DEF a
  <2>3. \E j \in Grid!EditJobs(e) : j.of = e /\ (j.upgrade => entry[e].quick)
    <3>1. a \in Grid!EditJobs(e) /\ a.of = e /\ (a.upgrade => entry[e].quick)
      BY <2>1, <2>2
    <3>2. QED
      BY <3>1
  <2>4. QED
    BY <2>1, <2>2, <2>3
<1>4. QED
  BY <1>2, <1>3

\* A step that changes one entry and is quiet for the others.
LEMMA StepOfOne ==
    ASSUME Grid!EntryAssumption, EntryShape, EntryInv, Remembers,
           NEW e \in Cells, NEW n \in EntryShapes,
           entry' = [entry EXCEPT ![e] = n],
           n.life = "open" => n.helper = "live",
           ops' \in 0 .. MaxOps, ops <= ops',
           n.params <= ops' + 1, e \in applying' => n.params <= ops',
           hover' \subseteq Cells, applying' \subseteq applying \cup {e},
           \A x, y \in hover' : x = y, \A x, y \in applying' : x = y,
           \A x \in hover \cup applying : x # e => x \in hover' \cup applying',
           renderings' \subseteq [of : Cells, upgrade : BOOLEAN],
           \A j \in renderings : j.of # e => j \in renderings',
           worker' \in [Workers -> Grid!WorkerStates],
           \A w \in Workers : \/ worker'[w] = worker[w]
                              \/ \A x \in Cells : Busy(w, x) \/ Busy(w, x)' => x = e,
           \A w \in Workers :
               worker'[w].pc \in {"stamp", "queue"} => worker'[w].pic # Grid!None,
           images' \in Seq(Grid!Updates),
           \A x \in Cells : x # e => UpdatesOf(x)' = UpdatesOf(x),
           timers' \in Seq([of : Cells, gen : Nat]),
           AskedFor(e)', UpToDate(e)'
    PROVE  EntryShape' /\ EntryInv'
<1>1. entry \in [Cells -> EntryShapes]
  BY DEF EntryShape
<1>2. entry'[e] = n /\ \A x \in Cells : x # e => entry'[x] = entry[x]
  BY <1>1
<1>3. entry' \in [Cells -> EntryShapes]
  BY <1>1
<1>4. EntryShape'
  BY <1>3 DEF EntryShape
<1>5. EntrySound'
  <2>1. \A x \in Cells : entry'[x].life = "open" => entry'[x].helper = "live"
    BY <1>2 DEF EntryInv, EntrySound
  <2>2. \A x \in Cells : entry'[x].params <= ops' + 1
    <3>1. \A x \in Cells : entry[x].params \in Int /\ entry[x].params <= ops + 1 /\ ops \in Int
      BY <1>1 DEF EntryInv, EntrySound, EntryShape, EntryShapes, Grid!Edits
    <3>2. ops' \in Int
      OBVIOUS
    <3>3. QED
      BY <3>1, <3>2, <1>2
  <2>3. \A x \in applying' : entry'[x].params <= ops'
    <3>1. \A x \in applying : x \in Cells /\ entry[x].params \in Int /\ entry[x].params <= ops /\ ops \in Int
      BY <1>1 DEF EntryInv, EntrySound, EntryShape, EntryShapes, Grid!Edits
    <3>2. ops' \in Int
      OBVIOUS
    <3>3. QED
      BY <3>1, <3>2, <1>2
  <2>4. QED
    BY <2>1, <2>2, <2>3 DEF EntrySound
<1>6. \A x \in Cells : AskedFor(x)' /\ UpToDate(x)'
  <2> TAKE x \in Cells
  <2>1. CASE x = e
    BY <2>1
  <2>2. CASE x # e
    <3>1. Quiet(x)
      BY <1>2, <2>2 DEF Quiet, Same
    <3>2. QED
      BY <3>1, QuietKeeps DEF EntryInv
  <2>3. QED
    BY <2>1, <2>2
<1>7. QED
  BY <1>4, <1>5, <1>6 DEF EntryInv

\* Such a step of the GTK thread that leaves the workers and the queue alone.
LEMMA StepOfGtk ==
    ASSUME Grid!EntryAssumption, EntryShape, EntryInv, Remembers,
           NEW e \in Cells, NEW n \in EntryShapes,
           entry' = [entry EXCEPT ![e] = n],
           n.life = "open" => n.helper = "live",
           ops' \in 0 .. MaxOps, ops <= ops',
           n.params <= ops' + 1, e \in applying' => n.params <= ops',
           hover' \subseteq Cells, applying' \subseteq applying \cup {e},
           \A x, y \in hover' : x = y, \A x, y \in applying' : x = y,
           \A x \in hover \cup applying : x # e => x \in hover' \cup applying',
           renderings' \subseteq [of : Cells, upgrade : BOOLEAN],
           \A j \in renderings : j.of # e => j \in renderings',
           UNCHANGED <<worker, images>>,
           timers' \in Seq([of : Cells, gen : Nat]),
           AskedFor(e)', UpToDate(e)'
    PROVE  EntryShape' /\ EntryInv'
<1>1. /\ worker' \in [Workers -> Grid!WorkerStates]
      /\ \A w \in Workers : worker'[w] = worker[w]
      /\ \A w \in Workers :
             worker'[w].pc \in {"stamp", "queue"} => worker'[w].pic # Grid!None
  BY DEF EntryShape, EntryInv, Remembers, EntrySound
<1>2. images' \in Seq(Grid!Updates) /\ \A x \in Cells : UpdatesOf(x)' = UpdatesOf(x)
  BY DEF EntryShape, UpdatesOf
<1>3. QED
  BY <1>1, <1>2, StepOfOne

\* What the entry, the counter and the sets are.
LEMMA EntryFacts ==
    ASSUME Grid!EntryAssumption, EntryShape, EntryInv, NEW e \in Cells
    PROVE  /\ entry[e] \in EntryShapes /\ entry[e].params \in 1 .. MaxOps + 1
           /\ entry[e].life = "open" => entry[e].helper = "live"
           /\ MaxOps \in Nat /\ ops \in 0 .. MaxOps
           /\ entry[e].params <= ops + 1
           /\ e \in applying => entry[e].params <= ops
BY DEF Grid!EntryAssumption, EntryShape, EntryShapes, EntryInv, EntrySound, Grid!Edits

\* An edit renews the entry.
LEMMA EditedStep ==
    ASSUME Grid!EntryAssumption, EntryShape, EntryInv, Remembers, NEW e \in Cells,
           entry[e].life = "open",
           Grid!Set(e, Grid!Edited(entry[e])), renderings' = renderings \cup Grid!EditJobs(e),
           ops' \in 0 .. MaxOps, ops <= ops',
           entry[e].params <= ops', e \in applying' => entry[e].params + 1 <= ops',
           hover' \subseteq hover, applying' \subseteq applying,
           \A x \in hover \cup applying : x # e => x \in hover' \cup applying',
           UNCHANGED <<worker, images, timers>>
    PROVE  EntryShape' /\ EntryInv'
<1>1. /\ entry[e] \in EntryShapes /\ entry[e].params \in 1 .. MaxOps + 1
      /\ entry[e].helper = "live" /\ MaxOps \in Nat /\ ops \in 0 .. MaxOps
  BY EntryFacts
<1>2. entry[e].params + 1 \in Grid!Edits
  BY <1>1 DEF Grid!Edits
<1> DEFINE n == Grid!Edited(entry[e])
<1>3. /\ n \in EntryShapes /\ n.params = entry[e].params + 1 /\ n.life = "open"
      /\ n.quick = entry[e].quick /\ n.helper = "live"
  BY <1>1, <1>2, EditedFacts
<1>4. entry' = [entry EXCEPT ![e] = n]
  BY DEF Grid!Set
<1> HIDE DEF n
<1>5. entry'[e] = n
  BY <1>4 DEF EntryShape
<1>6. /\ Grid!EditJobs(e) \subseteq [of : Cells, upgrade : BOOLEAN]
      /\ \E j \in Grid!EditJobs(e) : j.of = e /\ (j.upgrade => entry[e].quick)
  BY EditAsks
<1>7. Renewed(e)
  <2>1. PICK j \in Grid!EditJobs(e) : j.of = e /\ (j.upgrade => entry[e].quick)
    BY <1>6
  <2>2. j \in renderings' /\ (j.upgrade => entry'[e].quick)
    BY <2>1, <1>3, <1>5
  <2>3. QED
    BY <2>1, <2>2 DEF Renewed
<1>8. AskedFor(e)' /\ UpToDate(e)'
  BY <1>7, RenewedKeeps
<1>9. /\ hover' \subseteq Cells /\ \A x, y \in hover' : x = y
      /\ \A x, y \in applying' : x = y
  BY DEF EntryShape, EntryInv, Remembers, EntrySound
<1>10. /\ renderings' \subseteq [of : Cells, upgrade : BOOLEAN]
       /\ \A j \in renderings : j \in renderings'
       /\ timers' \in Seq([of : Cells, gen : Nat])
  BY <1>6 DEF EntryShape
<1>11. n.params <= ops' + 1 /\ (e \in applying' => n.params <= ops')
  BY <1>1, <1>3
<1>12. QED
  BY <1>3, <1>4, <1>8, <1>9, <1>10, <1>11, StepOfGtk

LEMMA EditKeeps ==
    ASSUME Grid!EntryAssumption, EntryShape, EntryInv, Remembers, NEW e \in Cells, Grid!Edit(e)
    PROVE  EntryShape' /\ EntryInv'
<1>1. /\ entry[e].params \in 1 .. MaxOps + 1 /\ MaxOps \in Nat /\ ops \in 0 .. MaxOps
      /\ entry[e].params <= ops + 1
      /\ e \in applying => entry[e].params <= ops
  BY EntryFacts
<1>2. /\ ops < MaxOps /\ ops' = ops + 1 /\ entry[e].life = "open"
      /\ Grid!Set(e, Grid!Edited(entry[e])) /\ renderings' = renderings \cup Grid!EditJobs(e)
      /\ hover' = hover \ {e} /\ UNCHANGED <<worker, images, timers, applying>>
  BY DEF Grid!Edit, Grid!Does
<1>3. ops' \in 0 .. MaxOps /\ ops <= ops'
  BY <1>1, <1>2
<1>4. entry[e].params <= ops' /\ (e \in applying' => entry[e].params + 1 <= ops')
  BY <1>1, <1>2
<1>5. QED
  BY <1>2, <1>3, <1>4, EditedStep

LEMMA EditorEditKeeps ==
    ASSUME Grid!EntryAssumption, EntryShape, EntryInv, Remembers, NEW e \in Cells, Grid!EditorEdit(e)
    PROVE  EntryShape' /\ EntryInv'
<1>1. /\ entry[e] \in EntryShapes /\ entry[e].params \in 1 .. MaxOps + 1
      /\ MaxOps \in Nat /\ ops \in 0 .. MaxOps
      /\ entry[e].params <= ops + 1
      /\ e \in applying => entry[e].params <= ops
      /\ entry[e].life = "open" => entry[e].helper = "live"
  BY EntryFacts
<1>2. /\ ops < MaxOps /\ ops' = ops + 1 /\ entry[e].life = "open"
      /\ UNCHANGED <<worker, images, timers, applying, hover>>
  BY DEF Grid!EditorEdit, Grid!Does
<1>3. ops' \in 0 .. MaxOps /\ ops <= ops'
  BY <1>1, <1>2
<1>4. CASE ~ entry[e].live
  <2>1. Grid!Set(e, Grid!Edited(entry[e])) /\ renderings' = renderings \cup Grid!EditJobs(e)
    BY <1>4 DEF Grid!EditorEdit
  <2>2. entry[e].params <= ops' /\ (e \in applying' => entry[e].params + 1 <= ops')
    BY <1>1, <1>2
  <2>3. QED
    BY <1>2, <1>3, <2>1, <2>2, EditedStep
<1>5. CASE entry[e].live
  <2> DEFINE p == entry[e].params + 1
             n == [entry[e] EXCEPT !.params = p]
  <2>1. entry' = [entry EXCEPT ![e] = n] /\ UNCHANGED renderings
    BY <1>5 DEF Grid!EditorEdit, Grid!Set
  <2>2. p \in Grid!Edits
    BY <1>1, <1>2 DEF Grid!Edits
  <2>3. p <= ops' + 1 /\ (e \in applying' => p <= ops')
    BY <1>1, <1>2
  <2> HIDE DEF p
  <2>4. /\ n \in EntryShapes /\ n.params = p /\ Same(entry[e], n)
        /\ n.lazy = entry[e].lazy /\ n.helper = entry[e].helper
    BY <1>1, <2>2 DEF EntryShapes, Same
  <2> HIDE DEF n
  <2>5. entry'[e] = n
    BY <2>1 DEF EntryShape
  <2>6. Quiet(e)
    BY <1>2, <1>5, <2>1, <2>4, <2>5 DEF Quiet, Same, UpdatesOf
  <2>7. AskedFor(e)' /\ UpToDate(e)'
    BY <2>6, QuietKeeps DEF EntryInv
  <2>8. n.life = "open" => n.helper = "live"
    BY <1>1, <2>4 DEF Same
  <2>9. /\ hover' \subseteq Cells /\ \A x, y \in hover' : x = y
        /\ \A x, y \in applying' : x = y
        /\ renderings' \subseteq [of : Cells, upgrade : BOOLEAN]
        /\ timers' \in Seq([of : Cells, gen : Nat])
    BY <1>2, <2>1 DEF EntryShape, EntryInv, Remembers, EntrySound
  <2>10. QED
    BY <1>2, <1>3, <2>1, <2>3, <2>4, <2>7, <2>8, <2>9, StepOfGtk
<1>6. QED
  BY <1>4, <1>5

\* The kept pixels are dropped, and nothing else.
LEMMA DropSlotsFacts ==
    ASSUME NEW r \in EntryShapes
    PROVE  LET n == Grid!DropSlots(r) IN
           /\ n \in EntryShapes /\ n.params = r.params /\ n.life = r.life
           /\ n.live = r.live /\ n.helper = r.helper
BY DEF Grid!DropSlots, Grid!NoSlots, EntryShapes

\* The picture of the editor is shown, and answers what was asked for.
LEMMA LivePreviewKeeps ==
    ASSUME Grid!EntryAssumption, EntryShape, EntryInv, Remembers, NEW e \in Cells, Grid!LivePreview(e)
    PROVE  EntryShape' /\ EntryInv'
<1>1. /\ entry[e] \in EntryShapes /\ entry[e].params \in 1 .. MaxOps + 1
      /\ MaxOps \in Nat /\ ops \in 0 .. MaxOps
      /\ entry[e].params <= ops + 1
      /\ e \in applying => entry[e].params <= ops
      /\ entry[e].life = "open" => entry[e].helper = "live"
  BY EntryFacts
<1>2. /\ ops < MaxOps /\ ops' = ops + 1 /\ entry[e].life = "open"
      /\ UNCHANGED <<renderings, worker, images, timers, applying, hover>>
  BY DEF Grid!LivePreview, Grid!Does
<1> DEFINE r == Grid!DropSlots([entry[e] EXCEPT !.live = TRUE, !.gen = @ + 1, !.redraws = @ + 1])
           n == Grid!Paint(r, r.size, r.params)
<1>3. entry' = [entry EXCEPT ![e] = n]
  BY DEF Grid!LivePreview, Grid!Set
<1>4. /\ r \in EntryShapes /\ r.params = entry[e].params /\ r.live
      /\ r.life = entry[e].life /\ r.helper = entry[e].helper
  <2> DEFINE g == entry[e].gen + 1
             d == entry[e].redraws + 1
             m == [entry[e] EXCEPT !.live = TRUE, !.gen = g, !.redraws = d]
  <2>1. g \in Nat /\ d \in Int
    BY <1>1 DEF EntryShapes
  <2>2. r = Grid!DropSlots(m)
    OBVIOUS
  <2> HIDE DEF g, d
  <2>3. /\ m \in EntryShapes /\ m.params = entry[e].params /\ m.live
        /\ m.life = entry[e].life /\ m.helper = entry[e].helper
    BY <1>1, <2>1 DEF EntryShapes
  <2> HIDE DEF m
  <2>4. QED
    BY <2>2, <2>3, DropSlotsFacts
<1> HIDE DEF r
<1>5. r.params \in Grid!Pictures
  BY <1>1, <1>4 DEF Grid!Pictures
<1>6. /\ n \in EntryShapes /\ ~ n.lazy /\ n.live /\ n.params = entry[e].params
      /\ n.life = "open" /\ n.helper = "live"
  BY <1>1, <1>2, <1>4, <1>5, PaintFacts
<1> HIDE DEF n
<1>7. entry'[e] = n
  BY <1>3 DEF EntryShape
<1>8. AskedFor(e)' /\ UpToDate(e)'
  BY <1>6, <1>7, AsideKeeps
<1>9. /\ ops' \in 0 .. MaxOps /\ ops <= ops' /\ n.params <= ops' + 1
      /\ e \in applying' => n.params <= ops'
  BY <1>1, <1>2, <1>6
<1>10. /\ hover' \subseteq Cells /\ \A x, y \in hover' : x = y
       /\ \A x, y \in applying' : x = y
       /\ renderings' \subseteq [of : Cells, upgrade : BOOLEAN]
       /\ timers' \in Seq([of : Cells, gen : Nat])
  BY <1>2 DEF EntryShape, EntryInv, Remembers, EntrySound
<1>11. QED
  BY <1>2, <1>3, <1>6, <1>8, <1>9, <1>10, StepOfGtk

\* The entry under the pointer is set aside.
LEMMA HoverShowKeeps ==
    ASSUME Grid!EntryAssumption, EntryShape, EntryInv, Remembers, NEW e \in Cells, Grid!HoverShow(e)
    PROVE  EntryShape' /\ EntryInv'
<1>1. /\ entry[e] \in EntryShapes /\ entry[e].params \in 1 .. MaxOps + 1
      /\ MaxOps \in Nat /\ ops \in 0 .. MaxOps
      /\ entry[e].params <= ops + 1
      /\ entry[e].life = "open" => entry[e].helper = "live"
  BY EntryFacts
<1>2. /\ ops < MaxOps /\ ops' = ops + 1 /\ entry[e].life = "open"
      /\ hover = {} /\ applying = {} /\ hover' = {e}
      /\ UNCHANGED <<renderings, worker, timers, applying>>
  BY DEF Grid!HoverShow, Grid!Does
<1> DEFINE r == [entry[e] EXCEPT !.redraws = @ + 1, !.pending = @ + 1, !.gen = @ + 1]
           u == [of |-> e, size |-> r.size, pic |-> Grid!Hovered, gen |-> r.gen,
                 visible |-> r.visible]
           n == IF Grid!Waits(images, e) THEN Grid!Discard(r) ELSE r
<1>3. entry' = [entry EXCEPT ![e] = n] /\ Grid!Put(u)
  BY DEF Grid!HoverShow, Grid!Set
<1>4. /\ r \in EntryShapes /\ r.params = entry[e].params
      /\ r.life = "open" /\ r.helper = "live"
  <2> DEFINE g == entry[e].gen + 1
             d == entry[e].redraws + 1
             k == entry[e].pending + 1
  <2>1. g \in Nat /\ d \in Int /\ k \in Int
    BY <1>1 DEF EntryShapes
  <2>2. r = [entry[e] EXCEPT !.redraws = d, !.pending = k, !.gen = g]
    OBVIOUS
  <2> HIDE DEF g, d, k
  <2>3. QED
    BY <1>1, <1>2, <2>1, <2>2 DEF EntryShapes
<1>5. u \in Grid!Updates /\ u.of = e
  <2>1. r.size \in Sizes /\ r.gen \in Nat /\ r.visible \in BOOLEAN
    BY <1>4 DEF EntryShapes
  <2>2. Grid!Hovered \in Grid!Pictures
    BY <1>1 DEF Grid!Hovered, Grid!Pictures
  <2>3. QED
    BY <2>1, <2>2 DEF Grid!Updates
<1> HIDE DEF r, u
<1>6. Alike(r, Grid!Discard(r))
  BY <1>4, DiscardFacts
<1>7. /\ n \in EntryShapes /\ n.params = entry[e].params
      /\ n.life = "open" /\ n.helper = "live"
  BY <1>4, <1>6 DEF Alike, Same
<1> HIDE DEF n
<1>8. AskedFor(e)' /\ UpToDate(e)'
  BY <1>2, AsideKeeps DEF Aside
<1>9. /\ images' \in Seq(Grid!Updates)
      /\ \A x \in Cells : x # e => UpdatesOf(x)' = UpdatesOf(x)
  BY <1>3, <1>5, PutUpdates
<1>10. /\ ops' \in 0 .. MaxOps /\ ops <= ops' /\ n.params <= ops' + 1
  BY <1>1, <1>2, <1>7
<1>11. /\ renderings' \subseteq [of : Cells, upgrade : BOOLEAN]
       /\ timers' \in Seq([of : Cells, gen : Nat])
       /\ worker' \in [Workers -> Grid!WorkerStates]
       /\ \A w \in Workers :
              /\ worker'[w] = worker[w]
              /\ worker'[w].pc \in {"stamp", "queue"} => worker'[w].pic # Grid!None
  BY <1>2 DEF EntryShape, EntryInv, Remembers, EntrySound
<1>12. /\ \A x, y \in hover' : x = y
       /\ \A x, y \in applying' : x = y
       /\ e \notin applying' /\ hover' \subseteq Cells
  BY <1>2
<1>13. QED
  BY <1>2, <1>3, <1>7, <1>8, <1>9, <1>10, <1>11, <1>12, StepOfOne

\* The pointer leaves: the picture is asked for.
LEMMA HoverEndKeeps ==
    ASSUME Grid!EntryAssumption, EntryShape, EntryInv, Remembers, NEW e \in Cells, Grid!HoverEnd(e)
    PROVE  EntryShape' /\ EntryInv'
<1>1. /\ entry[e] \in EntryShapes /\ entry[e].params \in 1 .. MaxOps + 1
      /\ MaxOps \in Nat /\ ops \in 0 .. MaxOps
      /\ entry[e].params <= ops + 1
      /\ e \in applying => entry[e].params <= ops
      /\ entry[e].life = "open" => entry[e].helper = "live"
  BY EntryFacts
<1>2. /\ e \in hover /\ entry[e].life = "open" /\ hover' = {}
      /\ renderings' = renderings \cup Grid!RefreshJobs(e)
      /\ UNCHANGED <<worker, images, timers, applying, ops>>
  BY DEF Grid!HoverEnd
<1> DEFINE n == Grid!DropSlots([entry[e] EXCEPT !.gen = @ + 1, !.live = FALSE])
<1>3. entry' = [entry EXCEPT ![e] = n]
  BY DEF Grid!HoverEnd, Grid!Set
<1>4. /\ n \in EntryShapes /\ n.params = entry[e].params
      /\ n.life = entry[e].life /\ n.helper = entry[e].helper
  <2> DEFINE g == entry[e].gen + 1
             m == [entry[e] EXCEPT !.gen = g, !.live = FALSE]
  <2>0. g \in Nat
    BY <1>1 DEF EntryShapes
  <2>2. n = Grid!DropSlots(m)
    OBVIOUS
  <2> HIDE DEF g
  <2>1. /\ m \in EntryShapes /\ m.params = entry[e].params
        /\ m.life = entry[e].life /\ m.helper = entry[e].helper
    BY <1>1, <2>0 DEF EntryShapes
  <2> HIDE DEF m
  <2>3. QED
    BY <2>1, <2>2, DropSlotsFacts
<1> HIDE DEF n
<1> DEFINE a == [of |-> e, upgrade |-> FALSE]
<1>5. a.of = e /\ a.upgrade = FALSE /\ a \in [of : Cells, upgrade : BOOLEAN]
  OBVIOUS
<1>6. renderings' = renderings \cup {a}
  BY <1>2 DEF Grid!RefreshJobs
<1> HIDE DEF a
<1>7. Renewed(e)
  BY <1>5, <1>6 DEF Renewed
<1>8. AskedFor(e)' /\ UpToDate(e)'
  BY <1>7, RenewedKeeps
<1>9. \A x, y \in hover : x = y
  BY DEF EntryInv, EntrySound
<1>10. \A x \in hover \cup applying : x # e => x \in hover' \cup applying'
  BY <1>2, <1>9
<1>11. /\ hover' \subseteq Cells /\ \A x, y \in hover' : x = y
       /\ \A x, y \in applying' : x = y
       /\ timers' \in Seq([of : Cells, gen : Nat])
  BY <1>2 DEF EntryShape, EntryInv, Remembers, EntrySound
<1>12. /\ renderings' \subseteq [of : Cells, upgrade : BOOLEAN]
       /\ \A j \in renderings : j \in renderings'
  BY <1>5, <1>6 DEF EntryShape
<1>13. /\ ops' \in 0 .. MaxOps /\ ops <= ops' /\ n.params <= ops' + 1
       /\ e \in applying' => n.params <= ops'
  BY <1>1, <1>2, <1>4
<1>14. QED
  BY <1>1, <1>2, <1>3, <1>4, <1>8, <1>10, <1>11, <1>12, <1>13, StepOfGtk

\* The menu entry is chosen: the entry stays aside until the edit is made.
LEMMA HoverApplyKeeps ==
    ASSUME Grid!EntryAssumption, EntryShape, EntryInv, Remembers, NEW e \in Cells, Grid!HoverApply(e)
    PROVE  EntryShape' /\ EntryInv'
<1>1. /\ entry[e] \in EntryShapes /\ entry[e].params \in 1 .. MaxOps + 1
      /\ MaxOps \in Nat /\ ops \in 0 .. MaxOps
      /\ entry[e].params <= ops + 1
      /\ entry[e].life = "open" => entry[e].helper = "live"
  BY EntryFacts
<1>2. /\ ops < MaxOps /\ ops' = ops + 1 /\ e \in hover /\ entry[e].life = "open"
      /\ hover' = {} /\ applying = {} /\ applying' = {e}
      /\ UNCHANGED <<renderings, worker, images, timers>>
  BY DEF Grid!HoverApply, Grid!Does
<1> DEFINE n == [entry[e] EXCEPT !.gen = @ + 1]
<1>3. entry' = [entry EXCEPT ![e] = n]
  BY DEF Grid!HoverApply, Grid!Set
<1>4. /\ n \in EntryShapes /\ n.params = entry[e].params
      /\ n.life = entry[e].life /\ n.helper = entry[e].helper
  BY <1>1 DEF EntryShapes
<1> HIDE DEF n
<1>5. AskedFor(e)' /\ UpToDate(e)'
  BY <1>2, AsideKeeps DEF Aside
<1>6. \A x, y \in hover : x = y
  BY DEF EntryInv, EntrySound
<1>7. \A x \in hover \cup applying : x # e => x \in hover' \cup applying'
  BY <1>2, <1>6
<1>8. /\ hover' \subseteq Cells /\ \A x, y \in hover' : x = y
      /\ \A x, y \in applying' : x = y
      /\ timers' \in Seq([of : Cells, gen : Nat])
      /\ renderings' \subseteq [of : Cells, upgrade : BOOLEAN]
  BY <1>2 DEF EntryShape
<1>9. /\ ops' \in 0 .. MaxOps /\ ops <= ops' /\ n.params <= ops'
      /\ n.params <= ops' + 1
  BY <1>1, <1>2, <1>4
<1>10. QED
  BY <1>1, <1>2, <1>3, <1>4, <1>5, <1>7, <1>8, <1>9, StepOfGtk

\* ... which renews it.
LEMMA ApplyEditKeeps ==
    ASSUME Grid!EntryAssumption, EntryShape, EntryInv, Remembers, NEW e \in Cells, Grid!ApplyEdit(e)
    PROVE  EntryShape' /\ EntryInv'
<1>1. /\ entry[e] \in EntryShapes /\ entry[e].params \in 1 .. MaxOps + 1
      /\ MaxOps \in Nat /\ ops \in 0 .. MaxOps
      /\ entry[e].params <= ops + 1
      /\ e \in applying => entry[e].params <= ops
      /\ entry[e].life = "open" => entry[e].helper = "live"
  BY EntryFacts
<1>2. /\ e \in applying /\ applying' = {} /\ UNCHANGED <<worker, images, timers, ops>>
  BY DEF Grid!ApplyEdit
<1>3. \A x, y \in applying : x = y
  BY DEF EntryInv, EntrySound
<1>4. ops' \in 0 .. MaxOps /\ ops <= ops' /\ entry[e].params <= ops'
  BY <1>1, <1>2
<1>5. CASE /\ entry[e].life = "open" /\ Grid!Set(e, Grid!Edited(entry[e]))
           /\ renderings' = renderings \cup Grid!EditJobs(e) /\ hover' = hover \ {e}
  <2>1. \A x \in hover \cup applying : x # e => x \in hover' \cup applying'
    BY <1>2, <1>3, <1>5
  <2>2. QED
    BY <1>2, <1>4, <1>5, <2>1, EditedStep
<1>6. CASE entry[e].life = "deleted" /\ UNCHANGED <<entry, renderings, hover>>
  <2>1. entry' = [entry EXCEPT ![e] = entry[e]] /\ entry'[e] = entry[e]
    BY <1>6 DEF EntryShape
  <2>2. AskedFor(e)' /\ UpToDate(e)'
    BY <1>6, <2>1, AsideKeeps DEF Aside
  <2>3. \A x \in hover \cup applying : x # e => x \in hover' \cup applying'
    BY <1>2, <1>3, <1>6
  <2>4. /\ hover' \subseteq Cells /\ \A x, y \in hover' : x = y
        /\ timers' \in Seq([of : Cells, gen : Nat])
        /\ renderings' \subseteq [of : Cells, upgrade : BOOLEAN]
    BY <1>2, <1>6 DEF EntryShape, EntryInv, Remembers, EntrySound
  <2>5. entry[e].params <= ops' + 1
    BY <1>1, <1>4
  <2>6. QED
    BY <1>1, <1>2, <1>4, <1>6, <2>1, <2>2, <2>3, <2>4, <2>5, StepOfGtk
<1>7. QED
  BY <1>5, <1>6 DEF Grid!ApplyEdit

\* A step that changes no entry.
LEMMA NothingKeeps ==
    ASSUME Grid!EntryAssumption, EntryShape, EntryInv, Remembers,
           ops' \in 0 .. MaxOps, ops <= ops',
           UNCHANGED <<entry, renderings, worker, images, timers, hover, applying>>
    PROVE  EntryShape' /\ EntryInv'
<1>1. EntryShape'
  BY DEF EntryShape
<1>2. \A e \in Cells :
          /\ entry[e].params \in Int /\ entry[e].params <= ops + 1 /\ ops \in Int
          /\ e \in applying => entry[e].params <= ops
  BY DEF EntryInv, EntrySound, EntryShape, EntryShapes, Grid!Edits
<1>3. \A e \in Cells : entry[e].params <= ops' + 1 /\ (e \in applying => entry[e].params <= ops')
  BY <1>2
<1>4. EntrySound'
  BY <1>3 DEF EntryInv, EntrySound
<1>5. \A e \in Cells : Quiet(e)
  BY DEF Quiet, Same, UpdatesOf
<1>6. \A e \in Cells : AskedFor(e)' /\ UpToDate(e)'
  BY <1>5, QuietKeeps DEF EntryInv
<1>7. QED
  BY <1>1, <1>4, <1>6 DEF EntryInv

LEMMA PauseKeeps ==
    ASSUME Grid!EntryAssumption, EntryShape, EntryInv, Remembers, Grid!Pause \/ Grid!Resume
    PROVE  EntryShape' /\ EntryInv'
<1>1. UNCHANGED <<entry, renderings, worker, images, timers, hover, applying>>
  BY DEF Grid!Pause, Grid!Resume
<1>2. ops' = ops \/ (ops < MaxOps /\ ops' = ops + 1)
  BY DEF Grid!Pause, Grid!Resume, Grid!Does
<1>3. ops \in 0 .. MaxOps /\ MaxOps \in Nat
  BY DEF EntryShape, Grid!EntryAssumption
<1>4. ops' \in 0 .. MaxOps /\ ops <= ops'
  BY <1>2, <1>3
<1>5. QED
  BY <1>1, <1>4, NothingKeeps

\* A cell that is resized asks for nothing, and ends the picture of the editor.
LEMMA ResizedFacts ==
    ASSUME NEW r \in EntryShapes, NEW s \in Sizes
    PROVE  LET n == Grid!Resized(r, s) IN
           /\ n \in EntryShapes /\ n.life = r.life /\ n.params = r.params
           /\ n.quick = r.quick /\ n.helper = r.helper /\ n.size = s
           /\ ~ n.lazy /\ ~ n.live
<1> DEFINE kept == IF Grid!Usable(r) THEN [r.slots EXCEPT ![r.size] = r.preview.pic] ELSE r.slots
           back == kept[s]
           pr == IF back # Grid!None THEN [size |-> s, pic |-> back] ELSE r.preview
           sl == [kept EXCEPT ![s] = Grid!None]
           g == r.retryGen + 1
<1>1. r.preview.pic \in Grid!Pictures \cup {Grid!None} /\ r.size \in Sizes
  BY DEF EntryShapes
<1>2. kept \in [Sizes -> Grid!Pictures \cup {Grid!None}]
  BY <1>1 DEF EntryShapes
<1>3. g \in Nat
  BY DEF EntryShapes
<1>4. Grid!Resized(r, s) = [r EXCEPT !.size = s, !.live = FALSE, !.retries = 0, !.retryGen = g,
                                     !.lazy = FALSE, !.preview = pr, !.slots = sl]
  BY DEF Grid!Resized
<1> HIDE DEF kept, g
<1>5. sl \in [Sizes -> Grid!Pictures \cup {Grid!None}]
  BY <1>2
<1>6. back \in Grid!Pictures \cup {Grid!None}
  BY <1>2
<1> HIDE DEF sl, back
<1>7. pr \in [size : Sizes, pic : Grid!Pictures \cup {Grid!None}]
  BY <1>6 DEF EntryShapes
<1> HIDE DEF pr
<1>8. Grid!Resized(r, s) \in EntryShapes
  <2>1. \A x \in EntryShapes : [x EXCEPT !.size = s, !.live = FALSE, !.retries = 0] \in EntryShapes
    BY DEF EntryShapes
  <2>2. \A x \in EntryShapes : [x EXCEPT !.retryGen = g, !.lazy = FALSE] \in EntryShapes
    BY <1>3 DEF EntryShapes
  <2>3. \A x \in EntryShapes : [x EXCEPT !.preview = pr] \in EntryShapes
    BY <1>7 DEF EntryShapes
  <2>4. \A x \in EntryShapes : [x EXCEPT !.slots = sl] \in EntryShapes
    BY <1>5 DEF EntryShapes
  <2>5. PICK a \in EntryShapes : a = [r EXCEPT !.size = s, !.live = FALSE, !.retries = 0]
    BY <2>1
  <2>6. PICK b \in EntryShapes : b = [a EXCEPT !.retryGen = g, !.lazy = FALSE]
    BY <2>2
  <2>7. PICK c \in EntryShapes : c = [b EXCEPT !.preview = pr]
    BY <2>3
  <2>8. Grid!Resized(r, s) = [c EXCEPT !.slots = sl]
    BY <1>4, <2>5, <2>6, <2>7
  <2>9. QED
    BY <2>4, <2>8
<1>9. LET n == Grid!Resized(r, s) IN
      /\ n.life = r.life /\ n.params = r.params
      /\ n.quick = r.quick /\ n.helper = r.helper /\ n.size = s
      /\ ~ n.lazy /\ ~ n.live
  BY <1>4 DEF EntryShapes
<1>10. QED
  BY <1>8, <1>9

\* A resize asks for nothing; what it does not catch is at rest.
LEMMA ResizeKeeps ==
    ASSUME Grid!EntryAssumption, EntryShape, EntryInv, Remembers,
           NEW s \in Sizes, Grid!Resize(s)
    PROVE  EntryShape' /\ EntryInv'
<1>1. /\ UNCHANGED <<renderings, worker, images, timers, hover, applying>>
      /\ ops < MaxOps /\ ops' = ops + 1
      /\ caught' = caught \cup {e \in Cells : entry'[e].size # entry[e].size
                                                 /\ Grid!Catches(e, entry'[e])}
  BY DEF Grid!Resize, Grid!Does
<1>2. entry' = [e \in Cells |->
                    IF entry[e].life = "open" /\ entry[e].size # s
                    THEN Grid!Resized(entry[e], s) ELSE entry[e]]
  BY DEF Grid!Resize
<1>3. \A e \in Cells : entry[e] \in EntryShapes
  BY DEF EntryShape
<1>4. \A e \in Cells :
          /\ entry'[e] \in EntryShapes /\ entry'[e].life = entry[e].life
          /\ entry'[e].params = entry[e].params /\ entry'[e].helper = entry[e].helper
  BY <1>2, <1>3, ResizedFacts
<1>5. ops \in 0 .. MaxOps /\ MaxOps \in Nat
  BY DEF EntryShape, Grid!EntryAssumption
<1>6. ops' \in 0 .. MaxOps
  BY <1>1, <1>5
<1>7. EntryShape'
  <2>1. entry' \in [Cells -> EntryShapes]
    BY <1>2, <1>4
  <2>2. QED
    BY <1>1, <1>6, <2>1 DEF EntryShape
<1>8. EntrySound'
  <2>1. \A e \in Cells : /\ entry[e].params \in Int /\ entry[e].params <= ops + 1
                         /\ e \in applying => entry[e].params <= ops
    BY <1>3 DEF EntryInv, EntrySound, EntryShapes, Grid!Edits
  <2>2. \A e \in Cells : /\ entry'[e].params <= ops' + 1
                         /\ e \in applying => entry'[e].params <= ops'
    BY <1>1, <1>4, <1>5, <2>1
  <2>3. QED
    BY <1>1, <1>4, <2>2 DEF EntryInv, EntrySound
<1>9. ASSUME NEW e \in Cells PROVE AskedFor(e)' /\ UpToDate(e)'
  <2>1. CASE entry[e].life = "open" /\ entry[e].size # s
    <3>1. /\ entry'[e] = Grid!Resized(entry[e], s) /\ entry'[e].size # entry[e].size
          /\ ~ entry'[e].lazy
      BY <1>2, <1>3, <2>1, ResizedFacts
    <3>2. CASE Grid!Catches(e, entry'[e])
      BY <1>1, <3>1, <3>2 DEF AskedFor, UpToDate
    <3>3. CASE ~ Grid!Catches(e, entry'[e])
      <4>1. Grid!Settled(e) /\ (Grid!Usable(entry'[e]) => Grid!Current(entry'[e]))
        BY <3>3 DEF Grid!Catches
      <4>2. \A w \in Workers : ~ Carries(w, e)'
        BY <1>1, <4>1 DEF Grid!Settled, Carries
      <4>3. UpdatesOf(e)' = {}
        BY <1>1, <4>1 DEF Grid!Settled, Grid!Waits, UpdatesOf
      <4>4. Grid!Usable(entry[e])' => Good(e, entry[e].preview.pic)'
        BY <4>1 DEF Good, Grid!Usable, Grid!Current
      <4>5. QED
        BY <3>1, <4>2, <4>3, <4>4 DEF AskedFor, UpToDate, LastIsGood
    <3>4. QED
      BY <3>2, <3>3
  <2>2. CASE ~ (entry[e].life = "open" /\ entry[e].size # s)
    <3>1. entry'[e] = entry[e]
      BY <1>2, <2>2
    <3>2. Quiet(e)
      BY <1>1, <3>1 DEF Quiet, Same, UpdatesOf
    <3>3. QED
      BY <3>2, QuietKeeps DEF EntryInv
  <2>3. QED
    BY <2>1, <2>2
<1>10. QED
  BY <1>7, <1>8, <1>9 DEF EntryInv

LEMMA ScrollKeeps ==
    ASSUME Grid!EntryAssumption, EntryShape, EntryInv, Remembers, NEW e \in Cells, Grid!Scroll(e)
    PROVE  EntryShape' /\ EntryInv'
<1>1. /\ entry[e] \in EntryShapes /\ entry[e].params \in 1 .. MaxOps + 1
      /\ MaxOps \in Nat /\ ops \in 0 .. MaxOps
      /\ entry[e].params <= ops + 1
      /\ e \in applying => entry[e].params <= ops
      /\ entry[e].life = "open" => entry[e].helper = "live"
  BY EntryFacts
<1>2. /\ ops < MaxOps /\ ops' = ops + 1
      /\ UNCHANGED <<renderings, worker, images, timers, applying, hover>>
  BY DEF Grid!Scroll, Grid!Does
<1> DEFINE n == [entry[e] EXCEPT !.visible = ~ @]
<1>3. entry' = [entry EXCEPT ![e] = n]
  BY DEF Grid!Scroll, Grid!Set
<1>4. /\ n \in EntryShapes /\ Same(entry[e], n) /\ n.params = entry[e].params
      /\ n.lazy = entry[e].lazy /\ n.helper = entry[e].helper
  BY <1>1 DEF EntryShapes, Same
<1> HIDE DEF n
<1>5. entry'[e] = n
  BY <1>3 DEF EntryShape
<1>6. Quiet(e)
  BY <1>2, <1>4, <1>5 DEF Quiet, Same, UpdatesOf
<1>7. AskedFor(e)' /\ UpToDate(e)'
  BY <1>6, QuietKeeps DEF EntryInv
<1>8. n.life = "open" => n.helper = "live"
  BY <1>1, <1>4 DEF Same
<1>9. /\ ops' \in 0 .. MaxOps /\ ops <= ops' /\ n.params <= ops' + 1
      /\ e \in applying' => n.params <= ops'
  BY <1>1, <1>2, <1>4
<1>10. /\ hover' \subseteq Cells /\ \A x, y \in hover' : x = y
       /\ \A x, y \in applying' : x = y
       /\ renderings' \subseteq [of : Cells, upgrade : BOOLEAN]
       /\ timers' \in Seq([of : Cells, gen : Nat])
  BY <1>2 DEF EntryShape, EntryInv, Remembers, EntrySound
<1>11. QED
  BY <1>2, <1>3, <1>4, <1>7, <1>8, <1>9, <1>10, StepOfGtk

LEMMA DeleteKeeps ==
    ASSUME Grid!EntryAssumption, EntryShape, EntryInv, Remembers, NEW e \in Cells, Grid!Delete(e)
    PROVE  EntryShape' /\ EntryInv'
<1>1. /\ entry[e] \in EntryShapes /\ entry[e].params \in 1 .. MaxOps + 1
      /\ MaxOps \in Nat /\ ops \in 0 .. MaxOps
      /\ entry[e].params <= ops + 1
      /\ e \in applying => entry[e].params <= ops
  BY EntryFacts
<1>2. /\ ops < MaxOps /\ ops' = ops + 1
      /\ renderings' = {j \in renderings : j.of # e} /\ hover' = hover \ {e}
      /\ UNCHANGED <<worker, images, timers, applying>>
  BY DEF Grid!Delete, Grid!Does
<1> DEFINE h == IF entry[e].pending > 0 THEN "destroyed" ELSE "freed"
           n == [entry[e] EXCEPT !.life = "deleted", !.helper = h]
<1>3. entry' = [entry EXCEPT ![e] = n]
  BY DEF Grid!Delete, Grid!Set
<1>4. h \in {"live", "destroyed", "freed"}
  OBVIOUS
<1> HIDE DEF h
<1>5. n \in EntryShapes /\ n.life = "deleted" /\ n.params = entry[e].params
  BY <1>1, <1>4 DEF EntryShapes
<1> HIDE DEF n
<1>6. entry'[e] = n
  BY <1>3 DEF EntryShape
<1>7. AskedFor(e)' /\ UpToDate(e)'
  BY <1>5, <1>6, AsideKeeps DEF Aside
<1>8. /\ ops' \in 0 .. MaxOps /\ ops <= ops' /\ n.params <= ops' + 1
      /\ e \in applying' => n.params <= ops'
  BY <1>1, <1>2, <1>5
<1>9. /\ hover' \subseteq Cells /\ \A x, y \in hover' : x = y
      /\ \A x, y \in applying' : x = y
      /\ renderings' \subseteq [of : Cells, upgrade : BOOLEAN]
      /\ timers' \in Seq([of : Cells, gen : Nat])
  BY <1>2 DEF EntryShape, EntryInv, Remembers, EntrySound
<1>10. QED
  BY <1>2, <1>3, <1>5, <1>7, <1>8, <1>9, StepOfGtk

\* A drawing asks for what it believes to be asked for.
LEMMA DrawKeeps ==
    ASSUME Grid!EntryAssumption, EntryShape, EntryInv, Remembers, Grid!Draw
    PROVE  EntryShape' /\ EntryInv'
<1>1. UNCHANGED <<worker, images, timers, hover, ops, applying>>
  BY DEF Grid!Draw
<1>2. entry' = [e \in Cells |-> [entry[e] EXCEPT !.lazy = @ \/ Grid!Asks(entry[e])]]
  BY DEF Grid!Draw
<1>3. \A r \in EntryShapes : \A b \in BOOLEAN : LET n == [r EXCEPT !.lazy = b] IN
          /\ n \in EntryShapes /\ Same(r, n) /\ n.params = r.params
          /\ n.lazy = b /\ n.helper = r.helper
  BY DEF EntryShapes, Same
<1>4. \A e \in Cells : entry[e] \in EntryShapes /\ (entry[e].lazy \/ Grid!Asks(entry[e])) \in BOOLEAN
  BY DEF EntryShape
<1>5. \A e \in Cells :
          /\ entry'[e] \in EntryShapes /\ Same(entry[e], entry'[e])
          /\ entry'[e].params = entry[e].params /\ entry'[e].helper = entry[e].helper
          /\ entry'[e].lazy = (entry[e].lazy \/ Grid!Asks(entry[e]))
  <2> TAKE e \in Cells
  <2> DEFINE b == entry[e].lazy \/ Grid!Asks(entry[e])
  <2>1. /\ entry'[e] = [entry[e] EXCEPT !.lazy = b]
        /\ b \in BOOLEAN
        /\ entry[e] \in EntryShapes
    BY <1>2, <1>4
  <2> HIDE DEF b
  <2>2. /\ entry'[e] \in EntryShapes /\ Same(entry[e], entry'[e])
        /\ entry'[e].params = entry[e].params /\ entry'[e].helper = entry[e].helper
        /\ entry'[e].lazy = b
    BY <2>1, <1>3
  <2>3. QED
    BY <2>2 DEF b
<1> DEFINE job(e) == [of |-> e, upgrade |-> Grid!WantsUpgrade(entry[e])]
<1>6. renderings' = renderings \cup {job(e) : e \in {x \in Cells : Grid!Asks(entry[x])}}
  BY DEF Grid!Draw
<1>7. \A e \in Cells :
          /\ job(e).of = e /\ (job(e).upgrade => entry[e].quick)
          /\ job(e) \in [of : Cells, upgrade : BOOLEAN]
  <2> TAKE e \in Cells
  <2>1. Grid!WantsUpgrade(entry[e]) \in BOOLEAN /\ (Grid!WantsUpgrade(entry[e]) => entry[e].quick)
    BY DEF Grid!WantsUpgrade
  <2>2. QED
    BY <2>1
<1> HIDE DEF job
<1>8. EntryShape'
  <2>1. entry' \in [Cells -> EntryShapes]
    BY <1>2, <1>5
  <2>2. renderings' \subseteq [of : Cells, upgrade : BOOLEAN]
    BY <1>6, <1>7 DEF EntryShape
  <2>3. QED
    BY <1>1, <2>1, <2>2 DEF EntryShape
<1>9. EntrySound'
  BY <1>1, <1>5 DEF EntryInv, EntrySound, Same
<1>10. ASSUME NEW e \in Cells PROVE AskedFor(e)' /\ UpToDate(e)'
  <2>1. CASE Grid!Asks(entry[e])
    <3>1. job(e) \in renderings' /\ entry'[e].quick = entry[e].quick
      BY <2>1, <1>5, <1>6 DEF Same
    <3>2. Renewed(e)
      BY <3>1, <1>7 DEF Renewed
    <3>3. QED
      BY <3>2, RenewedKeeps
  <2>2. CASE ~ Grid!Asks(entry[e])
    <3>1. entry'[e].lazy => entry[e].lazy
      BY <2>2, <1>5
    <3>2. Quiet(e)
      BY <1>1, <1>5, <1>6, <3>1 DEF Quiet, UpdatesOf
    <3>3. QED
      BY <3>2, QuietKeeps DEF EntryInv
  <2>3. QED
    BY <2>1, <2>2
<1>11. QED
  BY <1>8, <1>9, <1>10 DEF EntryInv

\* Of numbers there is a least one.
LEMMA LeastOf ==
    ASSUME NEW T, T \subseteq Nat, T # {}
    PROVE  \E x \in T : \A y \in T : x <= y
<1>1. PICK x \in T : \A y \in T : ~ (<<y, x>> \in OpToRel(<, Nat))
  BY NatLessThanWellFounded, WFMin
<1>2. \A y \in T : ~ (y < x)
  BY <1>1 DEF OpToRel
<1>3. \A y \in T : x <= y
  BY <1>2
<1>4. QED
  BY <1>3

\* What an update does to the entry: nothing, if it is a stale one, or it is
\* painted, if it is of the size of the cell.
LEMMA AppliedFacts ==
    ASSUME NEW r \in EntryShapes, NEW u \in Grid!Updates,
           r.life = "open" => r.helper = "live"
    PROVE  LET n == Grid!Applied(r, u) IN
           /\ n \in EntryShapes /\ n.life = r.life /\ n.params = r.params
           /\ n.quick = r.quick /\ n.live = r.live /\ n.gen = r.gen
           /\ n.life = "open" => n.helper = "live"
           /\ r.life = "open" /\ u.gen # r.gen =>
                  Same(r, n) /\ n.lazy = r.lazy
           /\ r.life = "open" /\ u.gen = r.gen =>
                  /\ ~ n.lazy /\ n.size = r.size
                  /\ u.size = r.size => n.preview = [size |-> r.size, pic |-> u.pic]
<1>1. Alike(r, Grid!Release(r)) /\ Alike(r, Grid!Discard(r))
  BY ReleaseFacts, DiscardFacts
<1>2. CASE r.helper = "destroyed"
  <2>1. Grid!Applied(r, u) = Grid!Release(r) /\ r.life # "open"
    BY <1>2 DEF Grid!Applied
  <2>2. QED
    BY <1>1, <2>1 DEF Alike, Same
<1>3. CASE r.helper # "destroyed" /\ u.gen # r.gen
  <2>1. Grid!Applied(r, u) = Grid!Discard(r)
    BY <1>3 DEF Grid!Applied
  <2>2. QED
    BY <1>1, <1>3, <2>1 DEF Alike, Same
<1>4. CASE r.helper # "destroyed" /\ u.gen = r.gen
  <2> DEFINE p == Grid!Paint(r, u.size, u.pic)
  <2>1. Grid!Applied(r, u) = Grid!Release(p)
    BY <1>4 DEF Grid!Applied
  <2>2. /\ p \in EntryShapes
        /\ u.size = r.size => p.preview = [size |-> r.size, pic |-> u.pic]
        /\ ~ p.lazy /\ p.life = r.life /\ p.params = r.params
        /\ p.quick = r.quick /\ p.live = r.live /\ p.gen = r.gen
        /\ p.size = r.size /\ p.helper = r.helper
    <3>1. u.pic \in Grid!Pictures
      BY DEF Grid!Updates
    <3>2. CASE u.size = r.size
      <4>1. p = Grid!Paint(r, r.size, u.pic)
        BY <3>2
      <4> HIDE DEF p
      <4>2. QED
        BY <3>1, <4>1, PaintFacts
    <3>3. CASE u.size # r.size
      <4> DEFINE d == r.redraws - 1
      <4>1. d \in Int
        BY DEF EntryShapes
      <4>2. p = [r EXCEPT !.redraws = d, !.lazy = FALSE]
        BY <3>3 DEF Grid!Paint
      <4> HIDE DEF p, d
      <4>3. QED
        BY <3>3, <4>1, <4>2 DEF EntryShapes
    <3>4. QED
      BY <3>2, <3>3
  <2> HIDE DEF p
  <2>3. Alike(p, Grid!Release(p))
    BY <2>2, ReleaseFacts
  <2>4. QED
    BY <1>4, <2>1, <2>2, <2>3 DEF Alike, Same
<1>5. QED
  BY <1>2, <1>3, <1>4

\* An update that is drained was the last of its entry, or does nothing to it.
LEMMA AppliedKeeps ==
    ASSUME Grid!EntryAssumption, EntryShape, EntryInv, Apart, Remembers,
           NEW i \in DOMAIN images, NEW u \in Grid!Updates, u = images[i],
           NEW e \in Cells, e = u.of,
           images' = Grid!RemoveAt(images, i), Grid!Set(e, Grid!Applied(entry[e], u)),
           UNCHANGED <<renderings, worker, timers, hover, ops, applying>>
    PROVE  EntryShape' /\ EntryInv'
<1>1. u.size \in Sizes /\ u.pic \in Grid!Pictures
  BY DEF Grid!Updates
<1>2. /\ entry[e] \in EntryShapes /\ entry[e].params \in 1 .. MaxOps + 1
      /\ MaxOps \in Nat /\ ops \in 0 .. MaxOps
      /\ entry[e].params <= ops + 1
      /\ e \in applying => entry[e].params <= ops
      /\ entry[e].life = "open" => entry[e].helper = "live"
  BY EntryFacts
<1>3. /\ images' \in Seq(Grid!Updates)
      /\ \A x \in Cells : x # e => UpdatesOf(x)' = UpdatesOf(x)
      /\ UpdatesOf(e) = UpdatesOf(e)' \cup {u}
  BY RemoveAtUpdates
<1>4. e \in caught \/ u.size = entry[e].size
  BY <1>3 DEF Apart, Fitting
<1>5. PICK r \in EntryShapes : r = entry[e]
  BY <1>2
<1>6. PICK n \in EntryShapes : n = Grid!Applied(r, u)
  BY <1>2, <1>5, AppliedFacts
<1>7. /\ n.life = r.life /\ n.params = r.params
      /\ n.quick = r.quick /\ n.live = r.live /\ n.gen = r.gen
      /\ n.life = "open" => n.helper = "live"
      /\ r.life = "open" /\ u.gen # r.gen => Same(r, n) /\ n.lazy = r.lazy
      /\ r.life = "open" /\ u.gen = r.gen =>
             /\ ~ n.lazy /\ n.size = r.size
             /\ u.size = r.size => n.preview = [size |-> r.size, pic |-> u.pic]
  BY <1>2, <1>5, <1>6, AppliedFacts
<1>8. entry' = [entry EXCEPT ![e] = n]
  BY <1>5, <1>6 DEF Grid!Set
<1>9. entry'[e] = n
  BY <1>8 DEF EntryShape
<1>10. AskedFor(e) /\ UpToDate(e)
  BY DEF EntryInv
<1>11. \A p : Good(e, p)' <=> Good(e, p)
  BY <1>5, <1>7, <1>9 DEF Good
<1>12. AskedFor(e)' /\ UpToDate(e)'
  <2>1. CASE Aside(e)
    <3>1. Aside(e)'
      BY <2>1, <1>5, <1>7, <1>9 DEF Aside, Remembers
    <3>2. QED
      BY <3>1, AsideKeeps
  <2>2. CASE ~ Aside(e) /\ u.gen # r.gen
    <3>1. Same(r, n) /\ n.lazy = r.lazy
      BY <2>2, <1>5, <1>7 DEF Aside
    <3>2. AskedFor(e)'
      <4>1. CASE ~ entry[e].lazy
        BY <4>1, <3>1, <1>5, <1>9 DEF AskedFor
      <4>2. CASE OnItsWay(e)
        <5>1. OnItsWay(e)'
          BY <4>2, <2>2, <1>3, <1>5, <1>7, <1>9 DEF OnItsWay
        <5>2. QED
          BY <5>1 DEF AskedFor
      <4>3. QED
        BY <4>1, <4>2, <2>2, <1>10 DEF AskedFor
    <3>3. ASSUME LastIsGood(e) PROVE LastIsGood(e)'
      <4>1. CASE \E w \in Workers :
                     /\ Carries(w, e) /\ Good(e, worker[w].pic)
                     /\ worker[w].pc = "queue" => worker[w].gen = entry[e].gen
        BY <4>1, <1>5, <1>7, <1>9 DEF LastIsGood, Carries, Good
      <4>2. CASE /\ \A w \in Workers : ~ Carries(w, e)
                 /\ \A v \in UpdatesOf(e) : v.gen = entry[e].gen => Good(e, v.pic)
                 /\ \/ \E v \in UpdatesOf(e) : v.gen = entry[e].gen
                    \/ Grid!Usable(entry[e]) => Good(e, entry[e].preview.pic)
        <5>1. \A w \in Workers : ~ Carries(w, e)'
          BY <4>2 DEF Carries
        <5>2. \A v \in UpdatesOf(e)' : v.gen = entry'[e].gen => Good(e, v.pic)'
          BY <4>2, <1>3, <1>5, <1>7, <1>9 DEF Good
        <5>3. \/ \E v \in UpdatesOf(e)' : v.gen = entry'[e].gen
              \/ Grid!Usable(entry[e])' => Good(e, entry[e].preview.pic)'
          BY <4>2, <2>2, <3>1, <1>3, <1>5, <1>7, <1>9 DEF Good, Grid!Usable, Same
        <5>4. QED
          BY <5>1, <5>2, <5>3 DEF LastIsGood
      <4>3. QED
        BY <3>3, <4>1, <4>2 DEF LastIsGood
    <3>4. UpToDate(e)'
      BY <2>2, <3>3, <1>5, <1>7, <1>9, <1>10 DEF UpToDate, WillRender, Remembers
    <3>5. QED
      BY <3>2, <3>4
  <2>3. CASE ~ Aside(e) /\ u.gen = r.gen
    <3>1. /\ ~ n.lazy /\ n.size = r.size
          /\ u.size = r.size => n.preview = [size |-> r.size, pic |-> u.pic]
      BY <2>3, <1>5, <1>7 DEF Aside
    <3>2. AskedFor(e)'
      BY <3>1, <1>9 DEF AskedFor
    <3>3. ASSUME LastIsGood(e), e \notin caught PROVE LastIsGood(e)'
      <4>1. CASE \E w \in Workers :
                     /\ Carries(w, e) /\ Good(e, worker[w].pic)
                     /\ worker[w].pc = "queue" => worker[w].gen = entry[e].gen
        BY <4>1, <1>5, <1>7, <1>9 DEF LastIsGood, Carries, Good
      <4>2. CASE /\ \A w \in Workers : ~ Carries(w, e)
                 /\ \A v \in UpdatesOf(e) : v.gen = entry[e].gen => Good(e, v.pic)
        <5>1. \A w \in Workers : ~ Carries(w, e)'
          BY <4>2 DEF Carries
        <5>2. \A v \in UpdatesOf(e)' : v.gen = entry'[e].gen => Good(e, v.pic)'
          BY <4>2, <1>3, <1>5, <1>7, <1>9 DEF Good
        <5>3. Good(e, u.pic)
          BY <4>2, <2>3, <1>3, <1>5
        <5>4. Good(e, entry[e].preview.pic)'
          BY <5>3, <3>1, <3>3, <1>4, <1>5, <1>7, <1>9 DEF Good
        <5>5. QED
          BY <5>1, <5>2, <5>4 DEF LastIsGood
      <4>3. QED
        BY <3>3, <4>1, <4>2 DEF LastIsGood
    <3>4. UpToDate(e)'
      BY <2>3, <3>3, <1>5, <1>7, <1>9, <1>10 DEF UpToDate, WillRender, Remembers
    <3>5. QED
      BY <3>2, <3>4
  <2>4. QED
    BY <2>1, <2>2, <2>3
<1>13. /\ ops' \in 0 .. MaxOps /\ ops <= ops' /\ n.params <= ops' + 1
       /\ e \in applying' => n.params <= ops'
  BY <1>2, <1>5, <1>7
<1>14. /\ hover' \subseteq Cells /\ \A x, y \in hover' : x = y
       /\ \A x, y \in applying' : x = y
       /\ renderings' \subseteq [of : Cells, upgrade : BOOLEAN]
       /\ timers' \in Seq([of : Cells, gen : Nat])
       /\ worker' \in [Workers -> Grid!WorkerStates]
       /\ \A w \in Workers :
              /\ worker'[w] = worker[w]
              /\ worker'[w].pc \in {"stamp", "queue"} => worker'[w].pic # Grid!None
  BY DEF EntryShape, EntryInv, Remembers, EntrySound
<1>15. QED
  BY <1>3, <1>7, <1>8, <1>12, <1>13, <1>14, StepOfOne

LEMMA DrainKeeps ==
    ASSUME Grid!EntryAssumption, EntryShape, EntryInv, Apart, Remembers, Grid!Drain
    PROVE  EntryShape' /\ EntryInv'
<1>1. UNCHANGED <<renderings, worker, timers, hover, ops, applying>>
  BY DEF Grid!Drain
<1>2. CASE Grid!Deliverable = {}
  <2>1. UNCHANGED <<entry, images>>
    BY <1>2 DEF Grid!Drain
  <2>2. ops' \in 0 .. MaxOps /\ ops <= ops'
    BY <1>1 DEF EntryShape
  <2>3. QED
    BY <1>1, <2>1, <2>2, NothingKeeps
<1>3. CASE Grid!Deliverable # {}
  <2>1. Grid!Deliverable \subseteq DOMAIN images /\ DOMAIN images \subseteq Nat
    BY DEF Grid!Deliverable, EntryShape
  <2>2. \E x \in Grid!Deliverable : \A y \in Grid!Deliverable : x <= y
    BY <1>3, <2>1, LeastOf
  <2>3. PICK i \in DOMAIN images :
            /\ images' = Grid!RemoveAt(images, i)
            /\ Grid!Set(images[i].of, Grid!Applied(entry[images[i].of], images[i]))
    <3> DEFINE k == CHOOSE x \in Grid!Deliverable : \A y \in Grid!Deliverable : x <= y
    <3>1. /\ images' = Grid!RemoveAt(images, k)
          /\ Grid!Set(images[k].of, Grid!Applied(entry[images[k].of], images[k]))
      BY <1>3 DEF Grid!Drain
    <3>2. k \in DOMAIN images
      BY <2>1, <2>2
    <3> HIDE DEF k
    <3>3. QED
      BY <3>1, <3>2
  <2>4. PICK u \in Grid!Updates : u = images[i]
    BY DEF EntryShape
  <2>5. PICK e \in Cells : e = u.of
    BY DEF Grid!Updates
  <2>6. QED
    BY <1>1, <2>3, <2>4, <2>5, AppliedKeeps
<1>4. QED
  BY <1>2, <1>3

\* A retry asks for what it believes to be asked for.
LEMMA RetryKeeps ==
    ASSUME Grid!EntryAssumption, EntryShape, EntryInv, Remembers, Grid!Retry
    PROVE  EntryShape' /\ EntryInv'
<1>0. PICK i \in DOMAIN timers :
        LET t == timers[i]
            r == entry[t.of]
            runs == r.helper = "live" /\ t.gen = r.retryGen /\ ~ Grid!Usable(r)
        IN /\ timers' = Grid!RemoveAt(timers, i)
           /\ Grid!Set(t.of, [Grid!Release(r) EXCEPT !.lazy = @ \/ runs])
           /\ renderings' = IF runs THEN renderings \cup Grid!QuickJobs(t.of, r) ELSE renderings
           /\ UNCHANGED <<worker, images, hover, ops, applying>>
  BY DEF Grid!Retry
<1>1. PICK e \in Cells : e = timers[i].of
  <2> DEFINE T == [of : Cells, gen : Nat]
  <2>1. timers \in Seq(T)
    BY DEF EntryShape
  <2> HIDE DEF T
  <2>2. timers[i] \in T
    BY <2>1
  <2>3. QED
    BY <2>2 DEF T
<1>2. /\ entry[e] \in EntryShapes /\ entry[e].params \in 1 .. MaxOps + 1
      /\ MaxOps \in Nat /\ ops \in 0 .. MaxOps
      /\ entry[e].params <= ops + 1
      /\ e \in applying => entry[e].params <= ops
      /\ entry[e].life = "open" => entry[e].helper = "live"
  BY EntryFacts
<1>3. PICK r \in EntryShapes : r = entry[e]
  BY <1>2
<1>4. PICK runs \in BOOLEAN : runs = (r.helper = "live" /\ timers[i].gen = r.retryGen /\ ~ Grid!Usable(r))
  OBVIOUS
<1>5. /\ timers' = Grid!RemoveAt(timers, i)
      /\ entry' = [entry EXCEPT ![e] = [Grid!Release(r) EXCEPT !.lazy = @ \/ runs]]
      /\ renderings' = IF runs THEN renderings \cup Grid!QuickJobs(e, r) ELSE renderings
      /\ UNCHANGED <<worker, images, hover, ops, applying>>
  BY <1>0, <1>1, <1>3, <1>4 DEF Grid!Set
<1>6. PICK p \in EntryShapes : p = Grid!Release(r) /\ Alike(r, p)
  BY ReleaseFacts DEF Alike
<1>7. PICK b \in BOOLEAN : b = (p.lazy \/ runs)
  OBVIOUS
<1>8. PICK n \in EntryShapes : n = [p EXCEPT !.lazy = b]
  BY DEF EntryShapes
<1>9. /\ Same(r, n) /\ n.params = r.params /\ n.lazy = b
      /\ n.life = "open" => n.helper = "live"
  <2>1. Same(p, n) /\ n.params = p.params /\ n.lazy = b /\ n.helper = p.helper
    BY <1>8 DEF EntryShapes, Same
  <2>2. QED
    BY <2>1, <1>2, <1>3, <1>6 DEF Alike, Same
<1>10. entry' = [entry EXCEPT ![e] = n]
  BY <1>5, <1>6, <1>7, <1>8
<1>11. entry'[e] = n
  BY <1>10 DEF EntryShape
<1>12. timers' \in Seq([of : Cells, gen : Nat])
  BY <1>5, RemoveAtFacts DEF EntryShape
<1>13. /\ renderings' \subseteq [of : Cells, upgrade : BOOLEAN]
       /\ \A j \in renderings : j \in renderings'
       /\ AskedFor(e)' /\ UpToDate(e)'
  <2>1. CASE runs
    <3> DEFINE a == [of |-> e, upgrade |-> FALSE]
    <3>1. ~ Grid!Usable(r) /\ ~ Grid!WantsUpgrade(r)
      BY <2>1, <1>4 DEF Grid!WantsUpgrade
    <3>2. Grid!WantsUpgrade(r) = FALSE
      BY <3>1 DEF Grid!WantsUpgrade
    <3>3. Grid!QuickJobs(e, r) = {a}
      BY <3>1, <3>2 DEF Grid!QuickJobs
    <3>4. renderings' = renderings \cup {a}
      BY <2>1, <1>5, <3>3
    <3>5. a.of = e /\ a.upgrade = FALSE /\ a \in [of : Cells, upgrade : BOOLEAN]
      OBVIOUS
    <3> HIDE DEF a
    <3>6. Renewed(e)
      BY <3>4, <3>5 DEF Renewed
    <3>7. QED
      BY <3>4, <3>5, <3>6, RenewedKeeps DEF EntryShape
  <2>2. CASE ~ runs
    <3>1. renderings' = renderings /\ (n.lazy => r.lazy)
      BY <2>2, <1>5, <1>6, <1>7, <1>9 DEF Alike
    <3>2. Quiet(e)
      BY <3>1, <1>3, <1>5, <1>9, <1>11 DEF Quiet, UpdatesOf
    <3>3. QED
      BY <3>1, <3>2, QuietKeeps DEF EntryInv, EntryShape
  <2>3. QED
    BY <2>1, <2>2
<1>14. /\ ops' \in 0 .. MaxOps /\ ops <= ops' /\ n.params <= ops' + 1
       /\ e \in applying' => n.params <= ops'
  BY <1>2, <1>3, <1>5, <1>9
<1>15. /\ hover' \subseteq Cells /\ \A x, y \in hover' : x = y
       /\ \A x, y \in applying' : x = y
  BY <1>5 DEF EntryShape, EntryInv, Remembers, EntrySound
<1>16. QED
  BY <1>5, <1>9, <1>10, <1>12, <1>13, <1>14, <1>15, StepOfGtk

\* A step of the worker that has an entry in hand, or takes a job of it.
LEMMA StepOfWorker ==
    ASSUME Grid!EntryAssumption, EntryShape, EntryInv, Remembers,
           NEW w \in Workers, NEW m \in Grid!WorkerStates, Grid!Become(w, m),
           NEW e \in Cells, NEW n \in EntryShapes,
           worker[w].pc = "idle" \/ worker[w].of = e, m.pc = "idle" \/ m.of = e,
           m.pc \in {"stamp", "queue"} => m.pic # Grid!None,
           entry' = [entry EXCEPT ![e] = n],
           n.life = "open" => n.helper = "live", n.params = entry[e].params,
           renderings' \subseteq renderings, \A j \in renderings : j.of # e => j \in renderings',
           images' \in Seq(Grid!Updates),
           \A x \in Cells : x # e => UpdatesOf(x)' = UpdatesOf(x),
           timers' \in Seq([of : Cells, gen : Nat]),
           UNCHANGED <<hover, applying, ops>>,
           AskedFor(e)', UpToDate(e)'
    PROVE  EntryShape' /\ EntryInv'
<1>1. /\ entry[e].params \in 1 .. MaxOps + 1 /\ MaxOps \in Nat /\ ops \in 0 .. MaxOps
      /\ entry[e].params <= ops + 1
      /\ e \in applying => entry[e].params <= ops
  BY EntryFacts
<1>2. worker' = [worker EXCEPT ![w] = m]
  BY DEF Grid!Become
<1>3. worker' \in [Workers -> Grid!WorkerStates]
  BY <1>2 DEF EntryShape
<1>4. worker'[w] = m /\ \A v \in Workers : v # w => worker'[v] = worker[v]
  BY <1>2 DEF EntryShape
<1>5. \A v \in Workers : \/ worker'[v] = worker[v]
                         \/ \A x \in Cells : Busy(v, x) \/ Busy(v, x)' => x = e
  <2> TAKE v \in Workers
  <2>1. CASE v = w
    BY <2>1, <1>4 DEF Busy
  <2>2. CASE v # w
    BY <2>2, <1>4
  <2>3. QED
    BY <2>1, <2>2
<1>6. \A v \in Workers : worker'[v].pc \in {"stamp", "queue"} => worker'[v].pic # Grid!None
  BY <1>4 DEF EntryInv, EntrySound
<1>7. /\ ops' \in 0 .. MaxOps /\ ops <= ops' /\ n.params <= ops' + 1
      /\ e \in applying' => n.params <= ops'
  BY <1>1
<1>8. /\ hover' \subseteq Cells /\ \A x, y \in hover' : x = y
      /\ \A x, y \in applying' : x = y
      /\ applying' \subseteq applying \cup {e}
      /\ \A x \in hover \cup applying : x # e => x \in hover' \cup applying'
      /\ renderings' \subseteq [of : Cells, upgrade : BOOLEAN]
  BY DEF EntryShape, EntryInv, Remembers, EntrySound
<1>9. QED
  BY <1>3, <1>5, <1>6, <1>7, <1>8, StepOfOne

\* A job that is taken is rendered.
LEMMA TakeJobKeeps ==
    ASSUME Grid!EntryAssumption, EntryShape, EntryInv, Remembers, NEW w \in Workers, Grid!TakeJob(w)
    PROVE  EntryShape' /\ EntryInv'
<1>1. PICK j \in renderings :
          /\ renderings' = renderings \ {j}
          /\ Grid!Become(w, [worker[w] EXCEPT !.pc = "render", !.of = j.of,
                          !.upgrade = j.upgrade, !.size = entry[j.of].size])
  BY DEF Grid!TakeJob
<1>2. worker[w].pc = "idle" /\ UNCHANGED <<entry, images, timers, hover, ops, applying>>
  BY DEF Grid!TakeJob
<1>3. PICK e \in Cells : e = j.of /\ j.upgrade \in BOOLEAN
  BY DEF EntryShape
<1>4. /\ entry[e] \in EntryShapes /\ entry[e].size \in Sizes
      /\ entry[e].life = "open" => entry[e].helper = "live"
  BY EntryFacts DEF EntryShapes
<1>5. worker[w] \in Grid!WorkerStates
  BY DEF EntryShape
<1>6. PICK m \in Grid!WorkerStates :
          m = [worker[w] EXCEPT !.pc = "render", !.of = j.of,
                          !.upgrade = j.upgrade, !.size = entry[j.of].size]
  BY <1>3, <1>4, <1>5 DEF Grid!WorkerStates
<1>7. m.pc = "render" /\ m.of = e /\ m.upgrade = j.upgrade
  BY <1>3, <1>5, <1>6 DEF Grid!WorkerStates
<1>8. Grid!Become(w, m)
  BY <1>1, <1>6
<1>9. worker'[w] = m /\ \A v \in Workers : v # w => worker'[v] = worker[v]
  BY <1>8 DEF EntryShape, Grid!Become
<1>10. AskedFor(e)'
  BY <1>7, <1>9 DEF AskedFor, OnItsWay
<1>11. UpToDate(e)'
  <2>1. AskedFor(e) /\ UpToDate(e)
    BY DEF EntryInv
  <2>2. CASE Aside(e) \/ entry[e].live \/ e \in caught
    BY <2>2, <1>2 DEF UpToDate, Aside, Remembers
  <2>3. CASE WillRender(e)
    <3>1. CASE \E x \in renderings : x.of = e /\ (x.upgrade => entry[e].quick)
      <4>1. PICK x \in renderings : x.of = e /\ (x.upgrade => entry[e].quick)
        BY <3>1
      <4>2. CASE x = j
        BY <4>1, <4>2, <1>2, <1>7, <1>9 DEF UpToDate, WillRender
      <4>3. CASE x # j
        BY <4>1, <4>3, <1>1, <1>2 DEF UpToDate, WillRender
      <4>4. QED
        BY <4>2, <4>3
    <3>2. CASE \E v \in Workers : /\ worker[v].of = e /\ worker[v].pc = "render"
                                  /\ worker[v].upgrade => entry[e].quick
      <4>1. PICK v \in Workers : /\ worker[v].of = e /\ worker[v].pc = "render"
                                 /\ worker[v].upgrade => entry[e].quick
        BY <3>2
      <4>2. worker'[v] = worker[v]
        BY <4>1, <1>2, <1>9
      <4>3. WillRender(e)'
        BY <4>1, <4>2, <1>2 DEF WillRender
      <4>4. QED
        BY <4>3 DEF UpToDate
    <3>3. QED
      BY <2>3, <3>1, <3>2 DEF WillRender
  <2>4. CASE LastIsGood(e)
    <3>0. /\ UpdatesOf(e)' = UpdatesOf(e)
          /\ \A p : Good(e, p)' <=> Good(e, p)
      BY <1>2 DEF UpdatesOf, Good
    <3>1. CASE \E v \in Workers :
                  /\ Carries(v, e) /\ Good(e, worker[v].pic)
                  /\ worker[v].pc = "queue" => worker[v].gen = entry[e].gen
      BY <3>1, <1>2, <1>9 DEF UpToDate, LastIsGood, Carries, Good
    <3>2. CASE /\ \A v \in Workers : ~ Carries(v, e)
               /\ \A u \in UpdatesOf(e) : u.gen = entry[e].gen => Good(e, u.pic)
               /\ \/ \E u \in UpdatesOf(e) : u.gen = entry[e].gen
                  \/ Grid!Usable(entry[e]) => Good(e, entry[e].preview.pic)
      <4>1. \A v \in Workers : ~ Carries(v, e)'
        BY <3>2, <1>7, <1>9 DEF Carries
      <4>2. \A u \in UpdatesOf(e)' : u.gen = entry'[e].gen => Good(e, u.pic)'
        BY <3>0, <3>2, <1>2 DEF Good
      <4>3. \/ \E u \in UpdatesOf(e)' : u.gen = entry'[e].gen
            \/ Grid!Usable(entry[e])' => Good(e, entry[e].preview.pic)'
        BY <3>0, <3>2, <1>2 DEF Good, Grid!Usable
      <4>4. QED
        BY <4>1, <4>2, <4>3 DEF UpToDate, LastIsGood
    <3>3. QED
      BY <2>4, <3>1, <3>2 DEF LastIsGood
  <2>5. QED
    BY <2>1, <2>2, <2>3, <2>4 DEF UpToDate
<1>12. entry' = [entry EXCEPT ![e] = entry[e]]
  BY <1>2 DEF EntryShape
<1>13. /\ images' \in Seq(Grid!Updates) /\ \A x \in Cells : UpdatesOf(x)' = UpdatesOf(x)
       /\ timers' \in Seq([of : Cells, gen : Nat])
  BY <1>2 DEF EntryShape, UpdatesOf
<1>14. renderings' \subseteq renderings /\ \A x \in renderings : x.of # e => x \in renderings'
  BY <1>1, <1>3
<1>15. PICK n \in EntryShapes : n = entry[e]
  BY <1>4
<1>16. /\ entry' = [entry EXCEPT ![e] = n] /\ n.params = entry[e].params
       /\ n.life = "open" => n.helper = "live"
       /\ m.pc = "idle" \/ m.of = e
       /\ m.pc \in {"stamp", "queue"} => m.pic # Grid!None
  BY <1>4, <1>7, <1>12, <1>15
<1>17. QED
  BY <1>2, <1>8, <1>10, <1>11, <1>13, <1>14, <1>16, StepOfWorker

\* A worker at rest.
LEMMA RestFacts ==
    ASSUME Grid!EntryAssumption, EntryShape, NEW w \in Workers, Grid!Rest(w)
    PROVE  \E m \in Grid!WorkerStates : Grid!Become(w, m) /\ m.pc = "idle"
<1>1. worker[w] \in Grid!WorkerStates
  BY DEF EntryShape
<1>2. PICK m \in Grid!WorkerStates : m = [worker[w] EXCEPT !.pc = "idle", !.pic = Grid!None, !.gen = 0]
  BY <1>1 DEF Grid!WorkerStates
<1>3. m.pc = "idle"
  BY <1>1, <1>2 DEF Grid!WorkerStates
<1>4. QED
  BY <1>2, <1>3 DEF Grid!Rest

\* What a worker has become.
LEMMA Became ==
    ASSUME EntryShape, NEW w \in Workers, NEW m, Grid!Become(w, m)
    PROVE  worker'[w] = m /\ \A v \in Workers : v # w => worker'[v] = worker[v]
BY DEF EntryShape, Grid!Become

\* A rendering that has been made brings a picture that is up to date.
LEMMA RenderKeeps ==
    ASSUME Grid!EntryAssumption, EntryShape, EntryInv, Apart, Remembers,
           NEW w \in Workers, Grid!Render(w)
    PROVE  EntryShape' /\ EntryInv'
<1>1. /\ worker[w].pc = "render"
      /\ UNCHANGED <<renderings, images, timers, hover, ops, applying>>
  BY DEF Grid!Render
<1>2. worker[w] \in Grid!WorkerStates
  BY DEF EntryShape
<1>3. PICK e \in Cells : e = worker[w].of
  BY <1>2 DEF Grid!WorkerStates
<1>4. /\ entry[e] \in EntryShapes /\ entry[e].params \in 1 .. MaxOps + 1 /\ MaxOps \in Nat
      /\ entry[e].life = "open" => entry[e].helper = "live"
  BY EntryFacts
<1>5. PICK r \in EntryShapes : r = entry[e]
  BY <1>4
<1>6. PICK pic \in Grid!Pictures \ {Grid!None} :
          pic = IF r.quick /\ ~ worker[w].upgrade THEN Grid!Camera ELSE r.params
  <2>1. /\ Grid!Camera \in Grid!Pictures \ {Grid!None}
        /\ r.params \in Grid!Pictures \ {Grid!None}
    BY <1>4, <1>5 DEF Grid!Camera, Grid!Pictures, Grid!None
  <2>2. QED
    BY <2>1
<1>7. /\ \A x \in Cells : UpdatesOf(x)' = UpdatesOf(x)
      /\ images' \in Seq(Grid!Updates) /\ timers' \in Seq([of : Cells, gen : Nat])
  BY <1>1 DEF EntryShape, UpdatesOf
<1>8. AskedFor(e) /\ UpToDate(e)
  BY DEF EntryInv
<1>9. Aside(e) \/ \A v \in Workers : Busy(v, e) => v = w
  BY <1>1, <1>3, BusyAlone DEF Busy
<1>10. CASE /\ Grid!Set(e, [r EXCEPT !.quick = @ /\ ~ worker[w].upgrade])
            /\ Grid!Become(w, [worker[w] EXCEPT !.pc = "call", !.pic = pic])
  <2>1. PICK b \in BOOLEAN : b = (r.quick /\ ~ worker[w].upgrade)
    OBVIOUS
  <2>2. PICK n \in EntryShapes : n = [r EXCEPT !.quick = b]
    BY DEF EntryShapes
  <2>3. /\ n.life = r.life /\ n.params = r.params /\ n.live = r.live
        /\ n.helper = r.helper /\ n.quick = b
    BY <2>2 DEF EntryShapes
  <2>4. entry' = [entry EXCEPT ![e] = n]
    BY <1>10, <2>1, <2>2 DEF Grid!Set
  <2>5. entry'[e] = n
    BY <2>4 DEF EntryShape
  <2>6. PICK m \in Grid!WorkerStates : m = [worker[w] EXCEPT !.pc = "call", !.pic = pic]
    BY <1>2 DEF Grid!WorkerStates
  <2>7. m.pc = "call" /\ m.pic = pic /\ m.of = e
    BY <1>2, <1>3, <2>6 DEF Grid!WorkerStates
  <2>8. Grid!Become(w, m)
    BY <1>10, <2>6
  <2>9. worker'[w] = m
    BY <2>8, Became
  <2>10. AskedFor(e)'
    BY <2>7, <2>9 DEF AskedFor, OnItsWay
  <2>11. UpToDate(e)'
    <3>1. Good(e, pic)'
      <4>1. CASE b
        BY <4>1, <1>6, <2>1, <2>3, <2>5 DEF Good
      <4>2. CASE ~ b
        <5>1. pic = r.params
          BY <4>2, <1>6, <2>1
        <5>2. QED
          BY <5>1, <2>3, <2>5 DEF Good
      <4>3. QED
        BY <4>1, <4>2
    <3>2. Carries(w, e)' /\ worker'[w].pic = pic /\ worker'[w].pc # "queue"
      BY <2>7, <2>9 DEF Carries
    <3>3. QED
      BY <3>1, <3>2 DEF UpToDate, LastIsGood, Good
  <2>12. /\ n.life = "open" => n.helper = "live"
         /\ n.params = entry[e].params /\ worker[w].of = e /\ (m.pc = "idle" \/ m.of = e)
         /\ m.pc \in {"stamp", "queue"} => m.pic # Grid!None
    BY <1>3, <1>4, <1>5, <2>3, <2>7
  <2>13. QED
    BY <1>1, <1>7, <2>4, <2>8, <2>10, <2>11, <2>12, StepOfWorker
<1>11. CASE /\ worker[w].upgrade /\ ~ r.quick /\ UNCHANGED entry
            /\ Grid!Become(w, [worker[w] EXCEPT !.pc = "call", !.pic = Grid!None])
  <2>1. PICK m \in Grid!WorkerStates : m = [worker[w] EXCEPT !.pc = "call", !.pic = Grid!None]
    BY <1>2 DEF Grid!WorkerStates
  <2>2. m.pc = "call" /\ m.pic = Grid!None /\ m.of = e
    BY <1>2, <1>3, <2>1 DEF Grid!WorkerStates
  <2>3. Grid!Become(w, m)
    BY <1>11, <2>1
  <2>4. worker'[w] = m
    BY <2>3, Became
  <2>5. AskedFor(e)'
    BY <2>2, <2>4 DEF AskedFor, OnItsWay
  <2>6. UpToDate(e)'
    <3>1. CASE Aside(e) \/ entry[e].live \/ e \in caught
      BY <3>1, <1>1, <1>11 DEF UpToDate, Aside, Remembers
    <3>2. CASE WillRender(e) /\ ~ Aside(e)
      <4>1. \E j \in renderings : j.of = e /\ (j.upgrade => entry[e].quick)
        BY <3>2, <1>5, <1>9, <1>11, JobWillRender
      <4>2. QED
        BY <4>1, <1>1, <1>11 DEF UpToDate, WillRender
    <3>3. CASE LastIsGood(e) /\ ~ Aside(e)
      <4>1. /\ \A v \in Workers : ~ Carries(v, e)
            /\ \A u \in UpdatesOf(e) : u.gen = entry[e].gen => Good(e, u.pic)
            /\ \/ \E u \in UpdatesOf(e) : u.gen = entry[e].gen
               \/ Grid!Usable(entry[e]) => Good(e, entry[e].preview.pic)
        BY <3>3, <1>1, <1>9 DEF LastIsGood, Carries, Busy
      <4>2. \A v \in Workers : ~ Carries(v, e)'
        BY <3>3, <1>9, <2>2, <2>3, <2>4, Became DEF Carries, Busy
      <4>3. \A u \in UpdatesOf(e)' : u.gen = entry'[e].gen => Good(e, u.pic)'
        BY <4>1, <1>7, <1>11 DEF Good
      <4>4. \/ \E u \in UpdatesOf(e)' : u.gen = entry'[e].gen
            \/ Grid!Usable(entry[e])' => Good(e, entry[e].preview.pic)'
        BY <4>1, <1>7, <1>11 DEF Good, Grid!Usable
      <4>5. QED
        BY <4>2, <4>3, <4>4 DEF UpToDate, LastIsGood
    <3>4. QED
      BY <3>1, <3>2, <3>3, <1>8 DEF UpToDate
  <2>7. /\ entry' = [entry EXCEPT ![e] = r] /\ r.params = entry[e].params
        /\ r.life = "open" => r.helper = "live"
        /\ worker[w].of = e /\ (m.pc = "idle" \/ m.of = e)
        /\ m.pc \in {"stamp", "queue"} => m.pic # Grid!None
    BY <1>3, <1>4, <1>5, <1>11, <2>2 DEF EntryShape
  <2>8. QED
    BY <1>1, <1>7, <2>3, <2>5, <2>6, <2>7, StepOfWorker
<1>12. QED
  BY <1>3, <1>5, <1>6, <1>10, <1>11 DEF Grid!Render

\* A step after which a worker rests, and that leaves the queue alone.
LEMMA RestingStep ==
    ASSUME Grid!EntryAssumption, EntryShape, EntryInv, Remembers, NEW w \in Workers, Grid!Rest(w),
           NEW e \in Cells, worker[w].of = e, NEW n \in EntryShapes,
           entry' = [entry EXCEPT ![e] = n],
           n.life = "open" => n.helper = "live", n.params = entry[e].params,
           timers' \in Seq([of : Cells, gen : Nat]),
           UNCHANGED <<renderings, images, hover, applying, ops>>,
           AskedFor(e)', UpToDate(e)'
    PROVE  EntryShape' /\ EntryInv'
<1>1. PICK m \in Grid!WorkerStates : Grid!Become(w, m) /\ m.pc = "idle"
  BY RestFacts
<1>2. images' \in Seq(Grid!Updates) /\ \A x \in Cells : UpdatesOf(x)' = UpdatesOf(x)
  BY DEF EntryShape, UpdatesOf
<1>3. QED
  BY <1>1, <1>2, StepOfWorker

LEMMA SkipKeeps ==
    ASSUME Grid!EntryAssumption, EntryShape, EntryInv, Remembers, NEW w \in Workers, Grid!Skip(w)
    PROVE  EntryShape' /\ EntryInv'
<1>1. PICK e \in Cells : e = worker[w].of
  BY DEF EntryShape, Grid!WorkerStates
<1>2. /\ entry[e].life = "deleted" /\ Grid!Rest(w)
      /\ UNCHANGED <<entry, renderings, images, timers, hover, ops, applying>>
  BY <1>1 DEF Grid!Skip
<1>3. PICK n \in EntryShapes : n = entry[e]
  BY EntryFacts
<1>4. /\ entry' = [entry EXCEPT ![e] = n] /\ n.params = entry[e].params
      /\ n.life = "open" => n.helper = "live"
      /\ timers' \in Seq([of : Cells, gen : Nat])
  BY <1>2, <1>3 DEF EntryShape
<1>5. AskedFor(e)' /\ UpToDate(e)'
  BY <1>2, AsideKeeps DEF Aside
<1>6. QED
  BY <1>1, <1>2, <1>4, <1>5, RestingStep

\* A picture that is turned down is no longer asked for.
LEMMA TurnedDownFacts ==
    ASSUME NEW r \in EntryShapes
    PROVE  LET n == Grid!TurnedDown(r) IN
           /\ n \in EntryShapes /\ Same(r, n) /\ n.params = r.params
           /\ ~ n.lazy /\ n.helper = r.helper
BY DEF Grid!TurnedDown, EntryShapes, Same

LEMMA UpdateKeeps ==
    ASSUME Grid!EntryAssumption, EntryShape, EntryInv, Apart, Remembers,
           NEW w \in Workers, Grid!Update(w)
    PROVE  EntryShape' /\ EntryInv'
<1>1. worker[w] \in Grid!WorkerStates
  BY DEF EntryShape
<1>2. PICK e \in Cells : e = worker[w].of
  BY <1>1 DEF Grid!WorkerStates
<1>3. PICK r \in EntryShapes : r = entry[e]
  BY EntryFacts
<1>4. /\ worker[w].pc = "call" /\ worker[w].pic # Grid!None /\ r.life = "open"
      /\ UNCHANGED <<renderings, images, timers, hover, ops, applying>>
  BY <1>2, <1>3 DEF Grid!Update
<1>5. r.helper = "live" /\ timers' \in Seq([of : Cells, gen : Nat])
  BY <1>3, <1>4, EntryFacts DEF EntryShape
<1>6. e \in caught \/ Grid!Matches(r, worker[w].size)
  BY <1>2, <1>3, <1>4 DEF Grid!Matches, Apart, Fitting, Busy
<1>7. CASE r.live \/ ~ Grid!Matches(r, worker[w].size)
  <2>1. Grid!Set(e, Grid!TurnedDown(r)) /\ Grid!Rest(w)
    BY <1>2, <1>3, <1>7 DEF Grid!Update
  <2>2. PICK n \in EntryShapes : n = Grid!TurnedDown(r)
    BY TurnedDownFacts
  <2>3. Same(r, n) /\ n.params = r.params /\ ~ n.lazy /\ n.helper = r.helper
    BY <2>2, TurnedDownFacts
  <2>4. entry' = [entry EXCEPT ![e] = n]
    BY <2>1, <2>2 DEF Grid!Set
  <2>5. entry'[e] = n
    BY <2>4 DEF EntryShape
  <2>6. AskedFor(e)' /\ UpToDate(e)'
    <3>1. CASE r.live
      BY <3>1, <2>3, <2>5, AsideKeeps DEF Same
    <3>2. CASE e \in caught
      BY <3>2, <2>3, <2>5 DEF AskedFor, UpToDate, Remembers
    <3>3. QED
      BY <1>6, <1>7, <3>1, <3>2
  <2>7. QED
    BY <1>2, <1>3, <1>4, <1>5, <2>1, <2>3, <2>4, <2>6, RestingStep
<1>8. CASE ~ r.live /\ Grid!Matches(r, worker[w].size)
  <2>1. Grid!Become(w, [worker[w] EXCEPT !.pc = "stamp"]) /\ UNCHANGED entry
    BY <1>2, <1>3, <1>8 DEF Grid!Update
  <2>2. PICK m \in Grid!WorkerStates : m = [worker[w] EXCEPT !.pc = "stamp"]
    BY <1>1 DEF Grid!WorkerStates
  <2>3. m.pc = "stamp" /\ m.of = e /\ m.pic = worker[w].pic
    BY <1>1, <1>2, <2>2 DEF Grid!WorkerStates
  <2>4. Grid!Become(w, m)
    BY <2>1, <2>2
  <2>5. worker'[w] = m
    BY <2>4, Became
  <2>6. AskedFor(e)'
    BY <2>3, <2>5 DEF AskedFor, OnItsWay
  <2>7. UpToDate(e)'
    <3>1. /\ UpToDate(e)
          /\ Aside(e) \/ \A v \in Workers : Busy(v, e) => v = w
      BY <1>2, <1>4, BusyAlone DEF EntryInv, Busy
    <3>2. CASE Aside(e) \/ entry[e].live \/ e \in caught
      BY <3>2, <1>4, <2>1 DEF UpToDate, Aside, Remembers
    <3>3. CASE WillRender(e) /\ ~ Aside(e)
      <4>1. \E j \in renderings : j.of = e /\ (j.upgrade => entry[e].quick)
        BY <3>1, <3>3, <1>4, JobWillRender
      <4>2. QED
        BY <4>1, <1>4, <2>1 DEF UpToDate, WillRender
    <3>4. CASE LastIsGood(e) /\ ~ Aside(e)
      <4>1. Good(e, worker[w].pic)
        BY <3>1, <3>4, <1>2, <1>4 DEF LastIsGood, Carries, Busy
      <4>2. Good(e, m.pic)'
        BY <4>1, <2>1, <2>3 DEF Good
      <4>3. QED
        BY <4>2, <2>3, <2>5 DEF UpToDate, LastIsGood, Carries, Good
    <3>5. QED
      BY <3>1, <3>2, <3>3, <3>4 DEF UpToDate
  <2>8. /\ images' \in Seq(Grid!Updates) /\ \A x \in Cells : UpdatesOf(x)' = UpdatesOf(x)
    BY <1>4 DEF EntryShape, UpdatesOf
  <2>9. /\ entry' = [entry EXCEPT ![e] = r] /\ r.params = entry[e].params
        /\ worker[w].of = e
        /\ m.pc \in {"stamp", "queue"} => m.pic # Grid!None
    BY <1>2, <1>3, <1>4, <2>1, <2>3 DEF EntryShape
  <2>10. QED
    BY <1>4, <1>5, <2>3, <2>4, <2>6, <2>7, <2>8, <2>9, StepOfWorker
<1>9. QED
  BY <1>7, <1>8

\* A picture that is stamped has the last generation.
LEMMA StampKeeps ==
    ASSUME Grid!EntryAssumption, EntryShape, EntryInv, Apart, Remembers,
           NEW w \in Workers, Grid!Stamp(w)
    PROVE  EntryShape' /\ EntryInv'
<1>1. worker[w] \in Grid!WorkerStates
  BY DEF EntryShape
<1>2. PICK e \in Cells : e = worker[w].of
  BY <1>1 DEF Grid!WorkerStates
<1>3. PICK r \in EntryShapes : r = entry[e]
  BY EntryFacts
<1>4. /\ worker[w].pc = "stamp"
      /\ UNCHANGED <<renderings, images, timers, hover, ops, applying>>
  BY DEF Grid!Stamp
<1>5. PICK g \in Nat : g = r.gen + 1
  BY DEF EntryShapes
<1>6. PICK n \in EntryShapes :
          n = [r EXCEPT !.redraws = @ + 1, !.pending = @ + 1, !.gen = @ + 1]
  <2> DEFINE d == r.redraws + 1
             k == r.pending + 1
  <2>1. d \in Int /\ k \in Int
    BY DEF EntryShapes
  <2>2. [r EXCEPT !.redraws = @ + 1, !.pending = @ + 1, !.gen = @ + 1]
            = [r EXCEPT !.redraws = d, !.pending = k, !.gen = g]
    BY <1>5
  <2> HIDE DEF d, k
  <2>3. [r EXCEPT !.redraws = d, !.pending = k, !.gen = g] \in EntryShapes
    BY <2>1 DEF EntryShapes
  <2>4. QED
    BY <2>2, <2>3
<1>7. /\ n.life = r.life /\ n.params = r.params /\ n.quick = r.quick /\ n.live = r.live
      /\ n.gen = g /\ n.helper = r.helper
  BY <1>5, <1>6 DEF EntryShapes
<1>8. /\ entry' = [entry EXCEPT ![e] = n]
      /\ Grid!Become(w, [worker[w] EXCEPT !.pc = "queue", !.gen = g])
  BY <1>2, <1>3, <1>6, <1>7 DEF Grid!Stamp, Grid!Set
<1>9. entry'[e] = n
  BY <1>8 DEF EntryShape
<1>10. PICK m \in Grid!WorkerStates : m = [worker[w] EXCEPT !.pc = "queue", !.gen = g]
  BY <1>1 DEF Grid!WorkerStates
<1>11. m.pc = "queue" /\ m.of = e /\ m.pic = worker[w].pic /\ m.gen = g
  BY <1>1, <1>2, <1>10 DEF Grid!WorkerStates
<1>12. Grid!Become(w, m)
  BY <1>8, <1>10
<1>13. worker'[w] = m
  BY <1>12, Became
<1>14. AskedFor(e)'
  BY <1>7, <1>9, <1>11, <1>13 DEF AskedFor, OnItsWay
<1>15. UpToDate(e)'
  <2>1. /\ UpToDate(e)
        /\ Aside(e) \/ \A v \in Workers : Busy(v, e) => v = w
    BY <1>2, <1>4, BusyAlone DEF EntryInv, Busy
  <2>2. CASE Aside(e) \/ entry[e].live \/ e \in caught
    BY <2>2, <1>3, <1>4, <1>7, <1>9 DEF UpToDate, Aside, Remembers
  <2>3. CASE WillRender(e) /\ ~ Aside(e)
    <3>1. \E j \in renderings : j.of = e /\ (j.upgrade => entry[e].quick)
      BY <2>1, <2>3, <1>4, JobWillRender
    <3>2. QED
      BY <3>1, <1>3, <1>4, <1>7, <1>9 DEF UpToDate, WillRender
  <2>4. CASE LastIsGood(e) /\ ~ Aside(e)
    <3>1. Good(e, worker[w].pic)
      BY <2>1, <2>4, <1>2, <1>4 DEF LastIsGood, Carries, Busy
    <3>2. Good(e, m.pic)'
      BY <3>1, <1>3, <1>7, <1>9, <1>11 DEF Good
    <3>3. QED
      BY <3>2, <1>7, <1>9, <1>11, <1>13 DEF UpToDate, LastIsGood, Carries, Good
  <2>5. QED
    BY <2>1, <2>2, <2>3, <2>4 DEF UpToDate
<1>16. /\ images' \in Seq(Grid!Updates) /\ \A x \in Cells : UpdatesOf(x)' = UpdatesOf(x)
       /\ timers' \in Seq([of : Cells, gen : Nat])
  BY <1>4 DEF EntryShape, UpdatesOf
<1>17. /\ worker[w].of = e /\ n.params = entry[e].params
       /\ m.pc \in {"stamp", "queue"} => m.pic # Grid!None
       /\ n.life = "open" => n.helper = "live"
  BY <1>2, <1>3, <1>4, <1>7, <1>11, EntryFacts DEF EntryInv, EntrySound
<1>18. QED
  BY <1>4, <1>8, <1>11, <1>12, <1>14, <1>15, <1>16, <1>17, StepOfWorker

\* An update that is queued is the last of its entry.
LEMMA QueueUpdateKeeps ==
    ASSUME Grid!EntryAssumption, EntryShape, EntryInv, Apart, Remembers,
           NEW w \in Workers, Grid!QueueUpdate(w)
    PROVE  EntryShape' /\ EntryInv'
<1>1. worker[w] \in Grid!WorkerStates
  BY DEF EntryShape
<1>2. PICK e \in Cells : e = worker[w].of
  BY <1>1 DEF Grid!WorkerStates
<1>3. PICK r \in EntryShapes : r = entry[e]
  BY EntryFacts
<1>4. /\ worker[w].pc = "queue" /\ Grid!Rest(w)
      /\ UNCHANGED <<renderings, timers, hover, ops, applying>>
  BY DEF Grid!QueueUpdate
<1>5. worker[w].pic \in Grid!Pictures
  <2>1. worker[w].pic # Grid!None
    BY <1>4 DEF EntryInv, EntrySound
  <2>2. QED
    BY <2>1, <1>1 DEF Grid!WorkerStates
<1>6. PICK u \in Grid!Updates :
          u = [of |-> e, size |-> worker[w].size, pic |-> worker[w].pic,
               gen |-> worker[w].gen, visible |-> r.visible]
  <2>1. worker[w].size \in Sizes /\ worker[w].gen \in Nat /\ r.visible \in BOOLEAN
    BY <1>1 DEF Grid!WorkerStates, EntryShapes
  <2>2. QED
    BY <2>1, <1>5 DEF Grid!Updates
<1>7. u.of = e /\ u.pic = worker[w].pic /\ u.gen = worker[w].gen
  BY <1>6
<1>8. PICK n \in EntryShapes : n = IF Grid!Waits(images, e) THEN Grid!Discard(r) ELSE r
  BY DiscardFacts DEF Alike
<1>9. /\ Same(r, n) /\ n.params = r.params /\ n.lazy = r.lazy
      /\ r.helper = "live" => n.helper = "live"
  BY <1>8, DiscardFacts DEF Alike, Same
<1>10. entry' = [entry EXCEPT ![e] = n] /\ Grid!Put(u)
  BY <1>2, <1>3, <1>6, <1>8 DEF Grid!QueueUpdate, Grid!Set
<1>11. entry'[e] = n
  BY <1>10 DEF EntryShape
<1>12. /\ images' \in Seq(Grid!Updates)
       /\ \A x \in Cells : x # e => UpdatesOf(x)' = UpdatesOf(x)
       /\ UpdatesOf(e)' = {u}
  BY <1>7, <1>10, PutUpdates
<1>13. PICK m \in Grid!WorkerStates : Grid!Become(w, m) /\ m.pc = "idle"
  BY <1>4, RestFacts
<1>14. worker'[w].pc = "idle"
  BY <1>13, Became
<1>15. /\ AskedFor(e) /\ UpToDate(e)
       /\ Aside(e) \/ \A v \in Workers : Busy(v, e) => v = w
  BY <1>2, <1>4, BusyAlone DEF EntryInv, Busy
<1>a. \A v \in Workers : v # w => worker'[v] = worker[v]
  BY <1>13, Became
<1>b. Aside(e) \/ \A v \in Workers : ~ Busy(v, e)'
  BY <1>14, <1>15, <1>a DEF Busy
<1>16. AskedFor(e)'
  <2>1. CASE Aside(e)
    BY <2>1, <1>3, <1>4, <1>9, <1>11 DEF AskedFor, Aside, Same, Remembers
  <2>2. CASE ~ entry[e].lazy
    BY <2>2, <1>3, <1>9, <1>11 DEF AskedFor
  <2>3. CASE OnItsWay(e) /\ ~ Aside(e)
    <3>1. CASE \E j \in renderings : j.of = e
      BY <3>1, <1>4 DEF AskedFor, OnItsWay
    <3>2. CASE worker[w].gen = entry[e].gen
      <4>1. u.gen = entry'[e].gen
        BY <3>2, <1>3, <1>7, <1>9, <1>11 DEF Same
      <4>2. QED
        BY <2>3, <4>1, <1>12, <1>b DEF AskedFor, OnItsWay, Busy
    <3>3. QED
      BY <2>3, <3>1, <3>2, <1>2, <1>4, <1>15 DEF OnItsWay, Busy
  <2>4. QED
    BY <2>1, <2>2, <2>3, <1>15 DEF AskedFor
<1>17. UpToDate(e)'
  <2>1. CASE Aside(e) \/ entry[e].live \/ e \in caught
    BY <2>1, <1>3, <1>4, <1>9, <1>11 DEF UpToDate, Aside, Same, Remembers
  <2>2. CASE WillRender(e) /\ ~ Aside(e)
    <3>1. \E j \in renderings : j.of = e /\ (j.upgrade => entry[e].quick)
      BY <2>2, <1>4, <1>15, JobWillRender
    <3>2. QED
      BY <3>1, <1>3, <1>4, <1>9, <1>11 DEF UpToDate, WillRender, Same
  <2>3. CASE LastIsGood(e) /\ ~ Aside(e)
    <3>1. Good(e, u.pic) /\ u.gen = entry[e].gen
      BY <2>3, <1>2, <1>4, <1>7, <1>15 DEF LastIsGood, Carries, Busy
    <3>2. Good(e, u.pic)' /\ u.gen = entry'[e].gen
      BY <3>1, <1>3, <1>9, <1>11 DEF Good, Same
    <3>3. \A v \in Workers : ~ Carries(v, e)'
      BY <2>3, <1>b DEF Carries, Busy
    <3>4. QED
      BY <3>2, <3>3, <1>12 DEF UpToDate, LastIsGood, Good
  <2>4. QED
    BY <2>1, <2>2, <2>3, <1>15 DEF UpToDate
<1>18. /\ worker[w].of = e /\ n.params = entry[e].params
       /\ m.pc \in {"stamp", "queue"} => m.pic # Grid!None
       /\ n.life = "open" => n.helper = "live"
       /\ timers' \in Seq([of : Cells, gen : Nat])
  BY <1>2, <1>3, <1>4, <1>9, <1>13, EntryFacts DEF Same, EntryShape
<1>19. QED
  BY <1>4, <1>10, <1>12, <1>13, <1>16, <1>17, <1>18, StepOfWorker

\* A rendering that brings nothing leaves what is shown.
LEMMA UpdateFailedKeeps ==
    ASSUME Grid!EntryAssumption, EntryShape, EntryInv, Apart, Remembers,
           NEW w \in Workers, Grid!UpdateFailed(w)
    PROVE  EntryShape' /\ EntryInv'
<1>1. worker[w] \in Grid!WorkerStates
  BY DEF EntryShape
<1>2. PICK e \in Cells : e = worker[w].of
  BY <1>1 DEF Grid!WorkerStates
<1>3. PICK r \in EntryShapes : r = Grid!TurnedDown(entry[e])
  BY EntryFacts, TurnedDownFacts
<1>4. /\ Same(entry[e], r) /\ r.params = entry[e].params /\ ~ r.lazy
      /\ r.helper = entry[e].helper
  BY <1>3, EntryFacts, TurnedDownFacts
<1>5. /\ worker[w].pc = "call" /\ worker[w].pic = Grid!None /\ r.life = "open" /\ Grid!Rest(w)
      /\ UNCHANGED <<renderings, images, hover, ops, applying>>
  BY <1>2, <1>3 DEF Grid!UpdateFailed
<1>6. MaxRetries \in Nat /\ timers \in Seq([of : Cells, gen : Nat])
  BY Zenon DEF Grid!EntryAssumption, EntryShape
<1>7. PICK n \in EntryShapes :
          /\ entry' = [entry EXCEPT ![e] = n] /\ Same(r, n) /\ n.params = r.params
          /\ n.lazy = r.lazy /\ n.helper = r.helper
          /\ timers' \in Seq([of : Cells, gen : Nat])
  <2>1. CASE Grid!Set(e, r) /\ UNCHANGED timers
    BY <2>1, <1>6 DEF Grid!Set, Same
  <2>2. CASE Grid!Set(e, [r EXCEPT !.retries = 0]) /\ UNCHANGED timers
    <3>1. PICK n \in EntryShapes : n = [r EXCEPT !.retries = 0]
      BY DEF EntryShapes
    <3>2. Same(r, n) /\ n.params = r.params /\ n.lazy = r.lazy /\ n.helper = r.helper
      BY <3>1 DEF EntryShapes, Same
    <3>3. QED
      BY <2>2, <3>1, <3>2, <1>6 DEF Grid!Set
  <2>3. CASE Grid!Set(e, [r EXCEPT !.retries = MaxRetries + 1]) /\ UNCHANGED timers
    <3>0. PICK k \in Nat : k = MaxRetries + 1
      BY <1>6
    <3>1. PICK n \in EntryShapes : n = [r EXCEPT !.retries = k]
      BY DEF EntryShapes
    <3>2. Same(r, n) /\ n.params = r.params /\ n.lazy = r.lazy /\ n.helper = r.helper
      BY <3>1 DEF EntryShapes, Same
    <3>3. QED
      BY <2>3, <3>0, <3>1, <3>2, <1>6 DEF Grid!Set
  <2>4. CASE /\ Grid!Set(e, [r EXCEPT !.retries = @ + 1, !.pending = @ + 1])
             /\ timers' = Append(timers, [of |-> e, gen |-> r.retryGen])
    <3>0. PICK k \in Nat, d \in Int : k = r.retries + 1 /\ d = r.pending + 1
      BY DEF EntryShapes
    <3>1. PICK n \in EntryShapes : n = [r EXCEPT !.retries = k, !.pending = d]
      BY DEF EntryShapes
    <3>2. Same(r, n) /\ n.params = r.params /\ n.lazy = r.lazy /\ n.helper = r.helper
      BY <3>1 DEF EntryShapes, Same
    <3>3. [of |-> e, gen |-> r.retryGen] \in [of : Cells, gen : Nat]
      BY DEF EntryShapes
    <3>4. timers' \in Seq([of : Cells, gen : Nat])
      BY <2>4, <3>3, <1>6, AppendProperties
    <3>5. entry' = [entry EXCEPT ![e] = n]
      BY <2>4, <3>0, <3>1 DEF Grid!Set
    <3>6. QED
      BY <3>2, <3>4, <3>5
  <2>5. QED
    BY <2>1, <2>2, <2>3, <2>4, <1>2, <1>3 DEF Grid!UpdateFailed, Grid!RetryLater
<1>8. entry'[e] = n
  BY <1>7 DEF EntryShape
<1>9. /\ Same(entry[e], n) /\ n.params = entry[e].params /\ ~ n.lazy
      /\ n.helper = entry[e].helper
  BY <1>4, <1>7 DEF Same
<1>10. PICK m \in Grid!WorkerStates : Grid!Become(w, m) /\ m.pc = "idle"
  BY <1>5, RestFacts
<1>11. worker'[w].pc = "idle"
  BY <1>10, Became
<1>12. AskedFor(e)'
  BY <1>8, <1>9 DEF AskedFor
<1>13. UpToDate(e)'
  <2>0. /\ UpToDate(e)
        /\ Aside(e) \/ \A v \in Workers : Busy(v, e) => v = w
    BY <1>2, <1>5, BusyAlone DEF EntryInv, Busy
  <2>1. CASE Aside(e) \/ entry[e].live \/ e \in caught
    BY <2>1, <1>5, <1>8, <1>9 DEF UpToDate, Aside, Same, Remembers
  <2>2. CASE WillRender(e) /\ ~ Aside(e)
    <3>1. \E j \in renderings : j.of = e /\ (j.upgrade => entry[e].quick)
      BY <2>0, <2>2, <1>5, JobWillRender
    <3>2. QED
      BY <3>1, <1>5, <1>8, <1>9 DEF UpToDate, WillRender, Same
  <2>3. CASE LastIsGood(e) /\ ~ Aside(e)
    <3>1. UpdatesOf(e)' = UpdatesOf(e) /\ \A p : Good(e, p)' <=> Good(e, p)
      BY <1>5, <1>8, <1>9 DEF UpdatesOf, Good, Same
    <3>2. /\ \A v \in Workers : ~ Carries(v, e)
          /\ \A u \in UpdatesOf(e) : u.gen = entry[e].gen => Good(e, u.pic)
          /\ \/ \E u \in UpdatesOf(e) : u.gen = entry[e].gen
             \/ Grid!Usable(entry[e]) => Good(e, entry[e].preview.pic)
      BY <2>0, <2>3, <1>5 DEF LastIsGood, Carries, Busy
    <3>3. \A v \in Workers : ~ Carries(v, e)'
      BY <2>0, <2>3, <1>10, <1>11, Became DEF Carries, Busy
    <3>4. \A u \in UpdatesOf(e)' : u.gen = entry'[e].gen => Good(e, u.pic)'
      BY <3>1, <3>2, <1>8, <1>9 DEF Good, Same
    <3>5. \/ \E u \in UpdatesOf(e)' : u.gen = entry'[e].gen
          \/ Grid!Usable(entry[e])' => Good(e, entry[e].preview.pic)'
      BY <3>1, <3>2, <1>8, <1>9 DEF Good, Grid!Usable, Same
    <3>6. QED
      BY <3>3, <3>4, <3>5 DEF UpToDate, LastIsGood
  <2>4. QED
    BY <2>0, <2>1, <2>2, <2>3 DEF UpToDate
<1>14. n.life = "open" => n.helper = "live"
  BY <1>9, EntryFacts DEF Same
<1>15. QED
  BY <1>2, <1>5, <1>7, <1>9, <1>12, <1>13, <1>14, RestingStep

\* At first nothing is asked for and nothing is shown.
LEMMA EntryInit ==
    ASSUME Grid!EntryAssumption, Grid!Init PROVE EntryShape /\ EntryInv
<1>1. PICK seen \in SUBSET Cells :
          entry = [e \in Cells |->
            [life |-> "open", params |-> 1, quick |-> e \in RawCells,
             size |-> Grid!First, preview |-> [size |-> Grid!First, pic |-> Grid!None],
             slots |-> Grid!NoSlots, lazy |-> FALSE, live |-> FALSE, gen |-> 0,
             retries |-> 0, retryGen |-> 0, visible |-> e \in seen,
             redraws |-> 0, pending |-> 0, helper |-> "live"]]
  BY DEF Grid!Init
<1>2. /\ renderings = {} /\ images = <<>> /\ timers = <<>> /\ hover = {} /\ applying = {}
      /\ ops = 0
      /\ worker = [w \in Workers |->
                    [pc |-> "idle", of |-> CHOOSE e \in Cells : TRUE,
                     upgrade |-> FALSE, size |-> Grid!First, pic |-> Grid!None, gen |-> 0]]
  BY DEF Grid!Init
<1>3. Grid!First \in Sizes /\ (CHOOSE e \in Cells : TRUE) \in Cells /\ MaxOps \in Nat
  BY DEF Grid!EntryAssumption, Grid!First
<1>4. Grid!NoSlots \in [Sizes -> Grid!Pictures \cup {Grid!None}]
  BY DEF Grid!NoSlots
<1>5. 1 \in Grid!Edits
  BY <1>3 DEF Grid!Edits
<1>6. [size |-> Grid!First, pic |-> Grid!None] \in [size : Sizes, pic : Grid!Pictures \cup {Grid!None}]
  BY <1>3
<1>7. \A e \in Cells :
          /\ entry[e] \in EntryShapes /\ entry[e].life = "open"
          /\ entry[e].helper = "live" /\ entry[e].params = 1 /\ ~ entry[e].lazy
          /\ entry[e].preview = [size |-> Grid!First, pic |-> Grid!None]
  <2> TAKE e \in Cells
  <2> DEFINE pr == [size |-> Grid!First, pic |-> Grid!None]
             q == e \in RawCells
             v == e \in seen
  <2>1. entry[e] = [life |-> "open", params |-> 1, quick |-> q,
             size |-> Grid!First, preview |-> pr,
             slots |-> Grid!NoSlots, lazy |-> FALSE, live |-> FALSE, gen |-> 0,
             retries |-> 0, retryGen |-> 0, visible |-> v,
             redraws |-> 0, pending |-> 0, helper |-> "live"]
    BY <1>1
  <2>2. /\ pr \in [size : Sizes, pic : Grid!Pictures \cup {Grid!None}]
        /\ q \in BOOLEAN
        /\ v \in BOOLEAN
    BY <1>6
  <2> HIDE DEF pr, q, v
  <2>3. entry[e] \in EntryShapes
    BY <2>1, <2>2, <1>3, <1>4, <1>5 DEF EntryShapes
  <2>4. /\ entry[e].life = "open" /\ entry[e].helper = "live" /\ entry[e].params = 1
        /\ ~ entry[e].lazy /\ entry[e].preview = pr
    BY <2>1
  <2>5. QED
    BY <2>3, <2>4 DEF pr
<1>8. EntryShape
  <2>1. entry \in [Cells -> EntryShapes]
    BY <1>1, <1>7
  <2>2. worker \in [Workers -> Grid!WorkerStates]
    BY <1>2, <1>3 DEF Grid!WorkerStates
  <2>3. QED
    BY <2>1, <2>2, <1>2, <1>3 DEF EntryShape
<1>9. \A w \in Workers : worker[w].pc = "idle"
  BY <1>2
<1>10. EntrySound
  BY <1>2, <1>7, <1>9 DEF EntrySound
<1>11. \A e \in Cells : AskedFor(e)
  BY <1>7 DEF AskedFor
<1>12. \A e \in Cells : UpToDate(e)
  <2> TAKE e \in Cells
  <2>1. \A w \in Workers : ~ Carries(w, e)
    BY <1>9 DEF Carries
  <2>2. UpdatesOf(e) = {}
    BY <1>2 DEF UpdatesOf
  <2>3. ~ Grid!Usable(entry[e])
    BY <1>7 DEF Grid!Usable
  <2>4. QED
    BY <2>1, <2>2, <2>3 DEF UpToDate, LastIsGood
<1>13. QED
  BY <1>8, <1>10, <1>11, <1>12 DEF EntryInv

\* What the run assumes of the constants of the cells.
LEMMA CellsAssumption == Grid!EntryAssumption
BY CellsAssumed

\* No step forgets what has been met or caught.
LEMMA StepRemembers == ASSUME [Grid!Next]_(Grid!vars) PROVE Remembers
<1>1. ASSUME NEW e \in Cells,
             \/ Grid!Edit(e) \/ Grid!EditorEdit(e) \/ Grid!LivePreview(e)
             \/ Grid!HoverShow(e) \/ Grid!HoverApply(e) \/ Grid!Scroll(e) \/ Grid!Delete(e)
             \/ Grid!HoverEnd(e) \/ Grid!ApplyEdit(e)
      PROVE  UNCHANGED <<met, caught>>
  BY <1>1 DEF Grid!Edit, Grid!EditorEdit, Grid!LivePreview, Grid!HoverShow, Grid!HoverApply,
     Grid!Scroll, Grid!Delete, Grid!HoverEnd, Grid!ApplyEdit, Grid!past
<1>2. ASSUME NEW s \in Sizes, Grid!Resize(s) PROVE Remembers
  BY <1>2 DEF Grid!Resize, Remembers
<1>3. ASSUME Grid!Pause \/ Grid!Resume \/ Grid!Draw \/ Grid!Drain \/ Grid!Retry
      PROVE  UNCHANGED <<met, caught>>
  BY <1>3 DEF Grid!Pause, Grid!Resume, Grid!Draw, Grid!Drain, Grid!Retry, Grid!past
<1>4. ASSUME NEW w \in Workers, Grid!TakeJob(w) PROVE Remembers
  BY <1>4 DEF Grid!TakeJob, Remembers
<1>5. ASSUME NEW w \in Workers,
             \/ Grid!Render(w) \/ Grid!Skip(w) \/ Grid!Update(w) \/ Grid!Stamp(w)
             \/ Grid!QueueUpdate(w) \/ Grid!UpdateFailed(w)
      PROVE  UNCHANGED <<met, caught>>
  BY <1>5 DEF Grid!Render, Grid!Skip, Grid!Update, Grid!Stamp, Grid!QueueUpdate,
     Grid!UpdateFailed, Grid!past
<1>6. UNCHANGED <<met, caught>> => Remembers
  BY DEF Remembers
<1>7. CASE UNCHANGED Grid!vars
  BY <1>6, <1>7 DEF Grid!vars, Grid!past
<1>8. QED
  BY <1>1, <1>2, <1>3, <1>4, <1>5, <1>6, <1>7 DEF Grid!Next, Grid!UserStep, Grid!WorkerStep

\* What is done to an entry, but for a resize, leaves its size.
SizeIs(r, n) == "size" \in DOMAIN n /\ n.size = r.size

LEMMA SizeFacts ==
    ASSUME NEW r, "size" \in DOMAIN r
    PROVE  /\ SizeIs(r, Grid!Edited(r)) /\ SizeIs(r, Grid!DropSlots(r))
           /\ SizeIs(r, Grid!Release(r)) /\ SizeIs(r, Grid!Discard(r))
           /\ SizeIs(r, Grid!TurnedDown(r))
           /\ \A s, p : SizeIs(r, Grid!Paint(r, s, p))
BY DEF SizeIs, Grid!Edited, Grid!DropSlots, Grid!Release, Grid!Discard, Grid!TurnedDown, Grid!Paint

\* A step after which every entry has its size, no worker is newly busy, and
\* what is newly queued has the size of its cell or of the worker who queued it.
LEMMA ApartLeaves ==
    ASSUME Apart, Remembers,
           \A e \in Cells : entry'[e].size = entry[e].size,
           \A w \in Workers : \A e \in Cells :
               Busy(w, e)' => Busy(w, e) /\ worker'[w].size = worker[w].size,
           \A e \in Cells : \A u \in UpdatesOf(e)' :
               \/ u \in UpdatesOf(e) \/ u.size = entry[e].size
               \/ \E w \in Workers : Busy(w, e) /\ u.size = worker[w].size
    PROVE  Apart'
<1>1. ASSUME NEW e \in Cells PROVE Unshared(e)'
  BY DEF Apart, Unshared, Remembers
<1>2. ASSUME NEW e \in Cells PROVE Fitting(e)'
  <2>1. CASE e \in caught
    BY <2>1 DEF Fitting, Remembers
  <2>2. CASE e \notin caught
    <3>1. /\ \A w \in Workers : Busy(w, e) => worker[w].size = entry[e].size
          /\ \A u \in UpdatesOf(e) : u.size = entry[e].size
      BY <2>2 DEF Apart, Fitting
    <3>2. \A w \in Workers : Busy(w, e)' => worker'[w].size = entry'[e].size
      BY <3>1
    <3>3. \A u \in UpdatesOf(e)' : u.size = entry'[e].size
      BY <3>1
    <3>4. QED
      BY <3>2, <3>3 DEF Fitting
  <2>3. QED
    BY <2>1, <2>2
<1>3. QED
  BY <1>1, <1>2 DEF Apart

\* Such a step that leaves the workers and the queue alone.
LEMMA ApartStays ==
    ASSUME EntryShape, Apart, Remembers, UNCHANGED <<worker, images>>,
           NEW e \in Cells, NEW n, entry' = [entry EXCEPT ![e] = n], SizeIs(entry[e], n)
    PROVE  Apart'
<1>1. \A x \in Cells : entry'[x].size = entry[x].size
  BY DEF EntryShape, SizeIs
<1>2. \A w \in Workers : \A x \in Cells :
          Busy(w, x)' => Busy(w, x) /\ worker'[w].size = worker[w].size
  BY DEF Busy
<1>3. \A x \in Cells : UpdatesOf(x)' = UpdatesOf(x)
  BY DEF UpdatesOf
<1>4. QED
  BY <1>1, <1>2, <1>3, ApartLeaves

\* Such a step of a worker that goes on with what it has in hand, or rests.
LEMMA ApartWorks ==
    ASSUME EntryShape, Apart, Remembers, NEW w \in Workers, NEW m, Grid!Become(w, m),
           m.of = worker[w].of, m.size = worker[w].size,
           m.pc # "idle" => worker[w].pc # "idle",
           NEW e \in Cells, NEW n, entry' = [entry EXCEPT ![e] = n], SizeIs(entry[e], n),
           \A x \in Cells : \A u \in UpdatesOf(x)' :
               u \in UpdatesOf(x) \/ (Busy(w, x) /\ u.size = worker[w].size)
    PROVE  Apart'
<1>1. \A x \in Cells : entry'[x].size = entry[x].size
  BY DEF EntryShape, SizeIs
<1>2. worker'[w] = m /\ \A v \in Workers : v # w => worker'[v] = worker[v]
  BY Became
<1>3. \A v \in Workers : \A x \in Cells :
          Busy(v, x)' => Busy(v, x) /\ worker'[v].size = worker[v].size
  BY <1>2 DEF Busy
<1>4. QED
  BY <1>1, <1>3, ApartLeaves

\* The steps of the GTK thread.
LEMMA ApartGtk ==
    ASSUME EntryShape, Apart, Remembers, NEW e \in Cells,
           \/ Grid!Edit(e) \/ Grid!EditorEdit(e) \/ Grid!LivePreview(e)
           \/ Grid!HoverShow(e) \/ Grid!HoverApply(e) \/ Grid!Scroll(e) \/ Grid!Delete(e)
           \/ Grid!HoverEnd(e) \/ Grid!ApplyEdit(e)
    PROVE  Apart'
<1>1. entry[e] \in EntryShapes /\ "size" \in DOMAIN entry[e]
  BY DEF EntryShape, EntryShapes
<1>2. PICK r \in EntryShapes : r = entry[e] /\ "size" \in DOMAIN r
  BY <1>1
<1>3. CASE Grid!Set(e, Grid!Edited(r)) /\ UNCHANGED <<worker, images>>
  BY <1>2, <1>3, SizeFacts, ApartStays DEF Grid!Set
<1>4. CASE Grid!Edit(e)
  BY <1>2, <1>3, <1>4 DEF Grid!Edit
<1>5. CASE Grid!EditorEdit(e)
  <2>1. CASE r.live
    <3>1. PICK n : n = [r EXCEPT !.params = @ + 1]
      OBVIOUS
    <3>2. SizeIs(r, n)
      BY <1>2, <3>1 DEF SizeIs
    <3>3. entry' = [entry EXCEPT ![e] = n] /\ UNCHANGED <<worker, images>>
      BY <1>2, <1>5, <2>1, <3>1 DEF Grid!EditorEdit, Grid!Set
    <3>4. QED
      BY <1>2, <3>2, <3>3, ApartStays
  <2>2. CASE ~ r.live
    BY <1>2, <1>3, <1>5, <2>2 DEF Grid!EditorEdit
  <2>3. QED
    BY <2>1, <2>2
<1>6. CASE Grid!LivePreview(e)
  <2>1. PICK a : a = [r EXCEPT !.live = TRUE, !.gen = @ + 1, !.redraws = @ + 1]
    OBVIOUS
  <2>2. SizeIs(r, a)
    BY <1>2, <2>1 DEF SizeIs
  <2>3. PICK b : b = Grid!DropSlots(a) /\ SizeIs(a, b)
    BY <2>2, SizeFacts DEF SizeIs
  <2>4. PICK n : n = Grid!Paint(b, b.size, b.params) /\ SizeIs(b, n)
    BY <2>3, SizeFacts DEF SizeIs
  <2>5. entry' = [entry EXCEPT ![e] = n] /\ UNCHANGED <<worker, images>>
    BY <1>2, <1>6, <2>1, <2>3, <2>4 DEF Grid!LivePreview, Grid!Set
  <2>6. SizeIs(entry[e], n)
    BY <1>2, <2>2, <2>3, <2>4 DEF SizeIs
  <2>7. QED
    BY <2>5, <2>6, ApartStays
<1>7. CASE Grid!HoverShow(e)
  <2>1. PICK a : a = [r EXCEPT !.redraws = @ + 1, !.pending = @ + 1, !.gen = @ + 1]
    OBVIOUS
  <2>2. SizeIs(r, a) /\ a.gen = r.gen + 1 /\ a.visible = r.visible
    BY <2>1 DEF SizeIs, EntryShapes
  <2>3. PICK n : n = IF Grid!Waits(images, e) THEN Grid!Discard(a) ELSE a
    OBVIOUS
  <2>4. SizeIs(r, n)
    BY <2>2, <2>3, SizeFacts DEF SizeIs
  <2>5. PICK u : u = [of |-> e, size |-> a.size, pic |-> Grid!Hovered, gen |-> a.gen,
                      visible |-> a.visible]
    OBVIOUS
  <2>6. entry' = [entry EXCEPT ![e] = n] /\ Grid!Put(u) /\ UNCHANGED worker
    BY <1>2, <1>7, <2>1, <2>3, <2>5 DEF Grid!HoverShow, Grid!Set
  <2>7. u \in Grid!Updates
    <3>1. Grid!Hovered \in Grid!Pictures
      BY CellsAssumption DEF Grid!EntryAssumption, Grid!Hovered, Grid!Pictures
    <3>2. a.size \in Sizes /\ a.gen \in Nat /\ a.visible \in BOOLEAN
      BY <2>2 DEF SizeIs, EntryShapes
    <3>3. QED
      BY <2>5, <3>1, <3>2 DEF Grid!Updates
  <2>8. u.of = e /\ u.size = entry[e].size
    BY <1>2, <2>2, <2>5 DEF SizeIs
  <2>9. \A x \in Cells : \A v \in UpdatesOf(x)' :
            v \in UpdatesOf(x) \/ v.size = entry[x].size
    BY <2>6, <2>7, <2>8, PutUpdates
  <2>10. \A x \in Cells : entry'[x].size = entry[x].size
    BY <1>2, <2>4, <2>6 DEF EntryShape, SizeIs
  <2>11. \A w \in Workers : \A x \in Cells :
            Busy(w, x)' => Busy(w, x) /\ worker'[w].size = worker[w].size
    BY <2>6 DEF Busy
  <2>12. QED
    BY <2>9, <2>10, <2>11, ApartLeaves
<1>8. CASE Grid!HoverApply(e) \/ Grid!Scroll(e) \/ Grid!Delete(e)
  <2>1. PICK n : entry' = [entry EXCEPT ![e] = n] /\ SizeIs(r, n)
    BY <1>2, <1>8 DEF Grid!HoverApply, Grid!Scroll, Grid!Delete, Grid!Set, SizeIs
  <2>2. UNCHANGED <<worker, images>>
    BY <1>8 DEF Grid!HoverApply, Grid!Scroll, Grid!Delete
  <2>3. QED
    BY <1>2, <2>1, <2>2, ApartStays
<1>9. CASE Grid!HoverEnd(e)
  <2>1. PICK a : a = [r EXCEPT !.gen = @ + 1, !.live = FALSE]
    OBVIOUS
  <2>2. SizeIs(r, a)
    BY <1>2, <2>1 DEF SizeIs
  <2>3. SizeIs(r, Grid!DropSlots(a))
    BY <2>2, SizeFacts DEF SizeIs
  <2>4. entry' = [entry EXCEPT ![e] = Grid!DropSlots(a)] /\ UNCHANGED <<worker, images>>
    BY <1>2, <1>9, <2>1 DEF Grid!HoverEnd, Grid!Set
  <2>5. QED
    BY <1>2, <2>3, <2>4, ApartStays
<1>10. CASE Grid!ApplyEdit(e)
  <2>1. CASE UNCHANGED entry
    <3>1. entry' = [entry EXCEPT ![e] = r] /\ SizeIs(r, r) /\ UNCHANGED <<worker, images>>
      BY <1>2, <1>10, <2>1 DEF Grid!ApplyEdit, EntryShape, SizeIs
    <3>2. QED
      BY <1>2, <3>1, ApartStays
  <2>2. CASE ~ UNCHANGED entry
    BY <1>2, <1>3, <1>10, <2>2 DEF Grid!ApplyEdit
  <2>3. QED
    BY <2>1, <2>2
<1>11. QED
  BY <1>4, <1>5, <1>6, <1>7, <1>8, <1>9, <1>10

\* A resize catches what it does not find at rest.
LEMMA ApartResize ==
    ASSUME EntryShape, Apart, Remembers, NEW s \in Sizes, Grid!Resize(s) PROVE Apart'
<1>1. /\ UNCHANGED <<worker, images>>
      /\ caught' = caught \cup {e \in Cells : entry'[e].size # entry[e].size
                                                 /\ Grid!Catches(e, entry'[e])}
  BY DEF Grid!Resize
<1>2. ASSUME NEW e \in Cells PROVE Unshared(e)'
  BY <1>1 DEF Apart, Unshared, Busy, Remembers
<1>3. ASSUME NEW e \in Cells PROVE Fitting(e)'
  <2>0. UpdatesOf(e)' = UpdatesOf(e) /\ \A w \in Workers : Busy(w, e)' = Busy(w, e)
    BY <1>1 DEF UpdatesOf, Busy
  <2>1. CASE entry'[e].size = entry[e].size
    BY <1>1, <2>0, <2>1 DEF Apart, Fitting, Remembers
  <2>2. CASE e \in caught'
    BY <2>2 DEF Fitting
  <2>3. CASE Grid!Settled(e)
    <3>1. \A w \in Workers : ~ Busy(w, e)
      BY <2>3 DEF Grid!Settled, Busy
    <3>2. UpdatesOf(e) = {}
      BY <2>3 DEF Grid!Settled, Grid!Waits, UpdatesOf
    <3>3. QED
      BY <2>0, <3>1, <3>2 DEF Fitting
  <2>4. QED
    BY <1>1, <2>1, <2>2, <2>3 DEF Grid!Catches
<1>4. QED
  BY <1>2, <1>3 DEF Apart

\* A drawing, the drain and the timers.
LEMMA ApartLoop ==
    ASSUME EntryShape, Apart, Remembers,
           Grid!Pause \/ Grid!Resume \/ Grid!Draw \/ Grid!Drain \/ Grid!Retry
    PROVE  Apart'
<1>0. \A e \in Cells : entry[e] \in EntryShapes /\ "size" \in DOMAIN entry[e]
  BY DEF EntryShape, EntryShapes
<1>1. UNCHANGED worker
  BY DEF Grid!Pause, Grid!Resume, Grid!Draw, Grid!Drain, Grid!Retry
<1>2. \A w \in Workers : \A e \in Cells :
          Busy(w, e)' => Busy(w, e) /\ worker'[w].size = worker[w].size
  BY <1>1 DEF Busy
<1>3. CASE UNCHANGED <<entry, images>>
  <2>1. \A e \in Cells : entry'[e].size = entry[e].size /\ UpdatesOf(e)' = UpdatesOf(e)
    BY <1>3 DEF UpdatesOf
  <2>2. QED
    BY <1>2, <2>1, ApartLeaves
<1>4. CASE Grid!Draw
  <2>1. \A e \in Cells : entry'[e] = [entry[e] EXCEPT !.lazy = @ \/ Grid!Asks(entry[e])]
    BY <1>4 DEF Grid!Draw
  <2>2. \A e \in Cells : entry'[e].size = entry[e].size
    BY <1>0, <2>1
  <2>3. \A e \in Cells : UpdatesOf(e)' = UpdatesOf(e)
    BY <1>4 DEF Grid!Draw, UpdatesOf
  <2>4. QED
    BY <1>2, <2>2, <2>3, ApartLeaves
<1>5. CASE Grid!Drain /\ Grid!Deliverable # {}
  <2>1. Grid!Deliverable \subseteq DOMAIN images /\ DOMAIN images \subseteq Nat
    BY DEF Grid!Deliverable, EntryShape
  <2>2. \E x \in Grid!Deliverable : \A y \in Grid!Deliverable : x <= y
    BY <1>5, <2>1, LeastOf
  <2>3. PICK i \in DOMAIN images :
            /\ images' = Grid!RemoveAt(images, i)
            /\ Grid!Set(images[i].of, Grid!Applied(entry[images[i].of], images[i]))
    <3> DEFINE k == CHOOSE x \in Grid!Deliverable : \A y \in Grid!Deliverable : x <= y
    <3>1. /\ images' = Grid!RemoveAt(images, k)
          /\ Grid!Set(images[k].of, Grid!Applied(entry[images[k].of], images[k]))
      BY <1>5 DEF Grid!Drain
    <3>2. k \in DOMAIN images
      BY <2>1, <2>2
    <3> HIDE DEF k
    <3>3. QED
      BY <3>1, <3>2
  <2>4. PICK u \in Grid!Updates : u = images[i]
    BY DEF EntryShape
  <2>5. PICK e \in Cells : e = u.of
    BY DEF Grid!Updates
  <2>6. PICK n : n = Grid!Applied(entry[e], u)
    OBVIOUS
  <2>7. SizeIs(entry[e], n)
    <3>1. PICK r : r = Grid!Paint(entry[e], u.size, u.pic) /\ SizeIs(entry[e], r)
      BY <1>0, SizeFacts
    <3>2. SizeIs(entry[e], Grid!Release(r))
      BY <3>1, SizeFacts DEF SizeIs
    <3>3. QED
      BY <1>0, <2>6, <3>1, <3>2, SizeFacts DEF Grid!Applied
  <2>8. entry' = [entry EXCEPT ![e] = n]
    BY <2>3, <2>4, <2>5, <2>6 DEF Grid!Set
  <2>9. \A x \in Cells : entry'[x].size = entry[x].size
    BY <2>7, <2>8 DEF EntryShape, SizeIs
  <2>10. \A x \in Cells : \A v \in UpdatesOf(x)' : v \in UpdatesOf(x)
    BY <2>3, RemoveAtUpdates
  <2>11. QED
    BY <1>2, <2>9, <2>10, ApartLeaves
<1>6. CASE Grid!Retry
  <2>1. PICK i \in DOMAIN timers, runs \in BOOLEAN :
            /\ entry' = [entry EXCEPT ![timers[i].of] =
                            [Grid!Release(entry[timers[i].of]) EXCEPT !.lazy = @ \/ runs]]
            /\ UNCHANGED images
    BY <1>6 DEF Grid!Retry, Grid!Set
  <2>2. PICK e \in Cells : e = timers[i].of
    <3> DEFINE T == [of : Cells, gen : Nat]
    <3>1. timers \in Seq(T)
      BY DEF EntryShape
    <3> HIDE DEF T
    <3>2. timers[i] \in T
      BY <3>1
    <3>3. QED
      BY <3>2 DEF T
  <2>3. PICK p : p = Grid!Release(entry[e]) /\ SizeIs(entry[e], p)
    BY <1>0, SizeFacts
  <2>4. PICK n : n = [p EXCEPT !.lazy = @ \/ runs]
    OBVIOUS
  <2>5. SizeIs(entry[e], n)
    BY <2>3, <2>4 DEF SizeIs
  <2>6. entry' = [entry EXCEPT ![e] = n]
    BY <2>1, <2>2, <2>3, <2>4
  <2>7. QED
    BY <1>1, <2>1, <2>5, <2>6, ApartStays
<1>7. QED
  BY <1>3, <1>4, <1>5, <1>6 DEF Grid!Pause, Grid!Resume, Grid!Drain

\* A worker that takes a job of an entry others are busy with has met them.
LEMMA ApartTakeJob ==
    ASSUME EntryShape, Apart, Remembers, NEW w \in Workers, Grid!TakeJob(w) PROVE Apart'
<1>1. PICK j \in renderings :
          /\ Grid!Become(w, [worker[w] EXCEPT !.pc = "render", !.of = j.of,
                          !.upgrade = j.upgrade, !.size = entry[j.of].size])
          /\ met' = met \cup {e \in {j.of} : Grid!IsBusyElsewhere(w, e)}
  BY DEF Grid!TakeJob
<1>2. worker[w].pc = "idle" /\ UNCHANGED <<entry, images>>
  BY DEF Grid!TakeJob
<1>3. PICK e \in Cells : e = j.of
  BY DEF EntryShape
<1>4. PICK m : m = [worker[w] EXCEPT !.pc = "render", !.of = e,
                          !.upgrade = j.upgrade, !.size = entry[e].size]
  OBVIOUS
<1>5. m.pc = "render" /\ m.of = e /\ m.size = entry[e].size
  BY <1>4 DEF EntryShape, Grid!WorkerStates
<1>6. Grid!Become(w, m)
  BY <1>1, <1>3, <1>4
<1>7. worker'[w] = m /\ \A v \in Workers : v # w => worker'[v] = worker[v]
  BY <1>6, Became
<1>8. ASSUME NEW x \in Cells PROVE Unshared(x)'
  <2>1. CASE x # e
    BY <1>5, <1>7, <2>1 DEF Apart, Unshared, Busy, Remembers
  <2>2. CASE x = e /\ Grid!IsBusyElsewhere(w, e)
    BY <1>1, <1>3, <2>2 DEF Unshared
  <2>3. CASE x = e /\ ~ Grid!IsBusyElsewhere(w, e)
    <3>1. \A v \in Workers \ {w} : ~ Busy(v, e)
      BY <2>3 DEF Grid!IsBusyElsewhere, Busy
    <3>2. \A v \in Workers \ {w} : ~ Busy(v, e)'
      BY <1>7, <3>1 DEF Busy
    <3>3. QED
      BY <2>3, <3>2 DEF Unshared
  <2>4. QED
    BY <2>1, <2>2, <2>3
<1>9. ASSUME NEW x \in Cells PROVE Fitting(x)'
  <2>1. UpdatesOf(x)' = UpdatesOf(x)
    BY <1>2 DEF UpdatesOf
  <2>2. CASE x \in caught
    BY <2>2 DEF Fitting, Remembers
  <2>3. CASE x \notin caught
    <3>1. /\ \A v \in Workers : Busy(v, x) => worker[v].size = entry[x].size
          /\ \A u \in UpdatesOf(x) : u.size = entry[x].size
      BY <2>3 DEF Apart, Fitting
    <3>2. \A v \in Workers : Busy(v, x)' => worker'[v].size = entry'[x].size
      BY <1>2, <1>5, <1>7, <3>1 DEF Busy
    <3>3. QED
      BY <1>2, <2>1, <3>1, <3>2 DEF Fitting
  <2>4. QED
    BY <2>2, <2>3
<1>10. QED
  BY <1>8, <1>9 DEF Apart

\* The other steps of a worker.
LEMMA ApartWorker ==
    ASSUME EntryShape, EntrySound, Apart, Remembers, NEW w \in Workers,
           \/ Grid!Render(w) \/ Grid!Skip(w) \/ Grid!Update(w) \/ Grid!Stamp(w)
           \/ Grid!QueueUpdate(w) \/ Grid!UpdateFailed(w)
    PROVE  Apart'
<1>1. worker[w] \in Grid!WorkerStates
  BY DEF EntryShape
<1>2. PICK e \in Cells : e = worker[w].of
  BY <1>1 DEF Grid!WorkerStates
<1>3. PICK r \in EntryShapes : r = entry[e] /\ "size" \in DOMAIN r
  BY DEF EntryShape, EntryShapes
<1>4. PICK m : /\ Grid!Become(w, m) /\ m.of = worker[w].of /\ m.size = worker[w].size
               /\ m.pc # "idle" => worker[w].pc # "idle"
  <2>1. CASE Grid!Rest(w)
    <3>1. PICK m : m = [worker[w] EXCEPT !.pc = "idle", !.pic = Grid!None, !.gen = 0]
      OBVIOUS
    <3>2. m.of = worker[w].of /\ m.size = worker[w].size /\ m.pc = "idle"
      BY <1>1, <3>1 DEF Grid!WorkerStates
    <3>3. QED
      BY <2>1, <3>1, <3>2 DEF Grid!Rest
  <2>2. CASE Grid!Render(w)
    BY <1>1, <2>2 DEF Grid!Render, Grid!WorkerStates
  <2>3. CASE Grid!Update(w) /\ ~ Grid!Rest(w)
    BY <1>1, <2>3 DEF Grid!Update, Grid!WorkerStates
  <2>4. CASE Grid!Stamp(w)
    BY <1>1, <2>4 DEF Grid!Stamp, Grid!WorkerStates
  <2>5. QED
    BY <2>1, <2>2, <2>3, <2>4 DEF Grid!Skip, Grid!QueueUpdate, Grid!UpdateFailed
<1>5. PICK n : entry' = [entry EXCEPT ![e] = n] /\ SizeIs(r, n)
  <2>0. SizeIs(r, r)
    BY <1>3 DEF SizeIs
  <2>1. CASE UNCHANGED entry
    <3>1. entry' = [entry EXCEPT ![e] = r]
      BY <1>3, <2>1 DEF EntryShape
    <3>2. QED
      BY <2>0, <3>1
  <2>2. CASE Grid!Render(w) /\ ~ UNCHANGED entry
    <3>1. entry' = [entry EXCEPT ![e] = [r EXCEPT !.quick = @ /\ ~ worker[w].upgrade]]
      BY <1>2, <1>3, <2>2 DEF Grid!Render, Grid!Set
    <3>2. SizeIs(r, [r EXCEPT !.quick = @ /\ ~ worker[w].upgrade])
      BY <1>3 DEF SizeIs
    <3>3. QED
      BY <3>1, <3>2
  <2>3. CASE Grid!Update(w) /\ ~ UNCHANGED entry
    <3>1. Grid!Set(e, Grid!TurnedDown(r))
      BY <1>2, <1>3, <2>3 DEF Grid!Update
    <3>2. QED
      BY <1>3, <3>1, SizeFacts DEF Grid!Set
  <2>4. CASE Grid!Stamp(w)
    <3>1. PICK n : n = [r EXCEPT !.redraws = @ + 1, !.pending = @ + 1, !.gen = @ + 1]
      OBVIOUS
    <3>2. entry' = [entry EXCEPT ![e] = n]
      BY <1>2, <1>3, <2>4, <3>1 DEF Grid!Stamp, Grid!Set
    <3>3. SizeIs(r, n)
      BY <1>3, <3>1 DEF SizeIs
    <3>4. QED
      BY <3>2, <3>3
  <2>5. CASE Grid!QueueUpdate(w)
    <3>1. Grid!Set(e, IF Grid!Waits(images, e) THEN Grid!Discard(r) ELSE r)
      BY <1>2, <1>3, <2>5 DEF Grid!QueueUpdate
    <3>2. QED
      BY <1>3, <2>0, <3>1, SizeFacts DEF Grid!Set
  <2>6. CASE Grid!UpdateFailed(w)
    <3>1. PICK t : t = Grid!TurnedDown(r) /\ SizeIs(r, t)
      BY <1>3, SizeFacts
    <3>2. \/ Grid!Set(e, t) \/ Grid!Set(e, [t EXCEPT !.retries = 0])
          \/ Grid!Set(e, [t EXCEPT !.retries = @ + 1, !.pending = @ + 1])
          \/ Grid!Set(e, [t EXCEPT !.retries = MaxRetries + 1])
      BY <1>2, <1>3, <2>6, <3>1 DEF Grid!UpdateFailed, Grid!RetryLater
    <3>3. /\ SizeIs(r, [t EXCEPT !.retries = 0])
          /\ SizeIs(r, [t EXCEPT !.retries = @ + 1, !.pending = @ + 1])
          /\ SizeIs(r, [t EXCEPT !.retries = MaxRetries + 1])
      BY <3>1 DEF SizeIs
    <3>4. QED
      BY <3>1, <3>2, <3>3 DEF Grid!Set
  <2>7. QED
    BY <2>1, <2>2, <2>3, <2>4, <2>5, <2>6 DEF Grid!Skip
<1>6. \A x \in Cells : \A u \in UpdatesOf(x)' :
          u \in UpdatesOf(x) \/ (Busy(w, x) /\ u.size = worker[w].size)
  <2>1. CASE UNCHANGED images
    BY <2>1 DEF UpdatesOf
  <2>2. CASE Grid!QueueUpdate(w)
    <3>1. PICK u : u = [of |-> e, size |-> worker[w].size, pic |-> worker[w].pic,
                        gen |-> worker[w].gen, visible |-> r.visible]
      OBVIOUS
    <3>2. Grid!Put(u) /\ worker[w].pc = "queue"
      BY <1>2, <1>3, <2>2, <3>1 DEF Grid!QueueUpdate
    <3>3. worker[w].pic \in Grid!Pictures
      BY <1>1, <3>2 DEF EntrySound, Grid!WorkerStates
    <3>4. worker[w].size \in Sizes /\ worker[w].gen \in Nat /\ r.visible \in BOOLEAN
      BY <1>1 DEF Grid!WorkerStates, EntryShapes
    <3>5. u \in Grid!Updates /\ u.of = e /\ u.size = worker[w].size
      BY <3>1, <3>3, <3>4 DEF Grid!Updates
    <3>6. Busy(w, e)
      BY <1>2, <3>2 DEF Busy
    <3>7. QED
      BY <3>2, <3>5, <3>6, PutUpdates
  <2>3. QED
    BY <2>1, <2>2 DEF Grid!Render, Grid!Skip, Grid!Update, Grid!Stamp, Grid!UpdateFailed
<1>7. QED
  BY <1>3, <1>4, <1>5, <1>6, ApartWorks

\* Every step keeps an entry to one worker and to its size.
LEMMA ApartStep ==
    ASSUME EntryShape, EntrySound, Apart, [Grid!Next]_(Grid!vars) PROVE Apart'
<1>0. Remembers
  BY StepRemembers
<1>1. CASE UNCHANGED Grid!vars
  <2>1. UNCHANGED <<entry, worker, images, met, caught>>
    BY <1>1 DEF Grid!vars, Grid!past
  <2>2. QED
    BY <2>1 DEF Apart, Unshared, Fitting, Busy, UpdatesOf
<1>2. ASSUME NEW w \in Workers, Grid!WorkerStep(w) PROVE Apart'
  BY <1>0, <1>2, ApartTakeJob, ApartWorker DEF Grid!WorkerStep
<1>3. CASE Grid!UserStep \/ \E e \in Cells : Grid!HoverEnd(e) \/ Grid!ApplyEdit(e)
  BY <1>0, <1>3, ApartGtk, ApartResize, ApartLoop DEF Grid!UserStep
<1>4. CASE Grid!Resume \/ Grid!Draw \/ Grid!Drain \/ Grid!Retry
  BY <1>0, <1>4, ApartLoop
<1>5. QED
  BY <1>1, <1>2, <1>3, <1>4 DEF Grid!Next

LEMMA ApartInit == ASSUME Grid!Init PROVE Apart
<1>1. images = <<>> /\ \A w \in Workers : worker[w].pc = "idle"
  BY DEF Grid!Init
<1>2. QED
  BY <1>1 DEF Apart, Unshared, Fitting, Busy, UpdatesOf

\* Every step keeps it.
LEMMA EntryStep ==
    ASSUME Grid!EntryAssumption, EntryShape, EntryInv, Apart, [Grid!Next]_(Grid!vars)
    PROVE  EntryShape' /\ EntryInv'
<1>0. Remembers
  BY StepRemembers
<1>1. CASE UNCHANGED Grid!vars
  <2>1. ops' \in 0 .. MaxOps /\ ops <= ops'
    BY <1>1 DEF EntryShape, Grid!vars
  <2>2. UNCHANGED <<entry, renderings, worker, images, timers, hover, applying>>
    BY <1>1 DEF Grid!vars
  <2>3. QED
    BY <1>0, <2>1, <2>2, NothingKeeps
<1>2. ASSUME NEW e \in Cells,
             \/ Grid!Edit(e) \/ Grid!EditorEdit(e) \/ Grid!LivePreview(e)
             \/ Grid!HoverShow(e) \/ Grid!HoverApply(e) \/ Grid!Scroll(e) \/ Grid!Delete(e)
             \/ Grid!HoverEnd(e) \/ Grid!ApplyEdit(e)
      PROVE  EntryShape' /\ EntryInv'
  BY <1>0, <1>2, EditKeeps, EditorEditKeeps, LivePreviewKeeps, HoverShowKeeps,
     HoverApplyKeeps, ScrollKeeps, DeleteKeeps, HoverEndKeeps, ApplyEditKeeps
<1>3. ASSUME NEW s \in Sizes, Grid!Resize(s) PROVE EntryShape' /\ EntryInv'
  BY <1>0, <1>3, ResizeKeeps
<1>4. ASSUME Grid!Pause \/ Grid!Resume \/ Grid!Draw \/ Grid!Drain \/ Grid!Retry
      PROVE  EntryShape' /\ EntryInv'
  BY <1>0, <1>4, PauseKeeps, DrawKeeps, DrainKeeps, RetryKeeps
<1>5. ASSUME NEW w \in Workers, Grid!WorkerStep(w) PROVE EntryShape' /\ EntryInv'
  BY <1>0, <1>5, TakeJobKeeps, RenderKeeps, SkipKeeps, UpdateKeeps, StampKeeps,
     QueueUpdateKeeps, UpdateFailedKeeps DEF Grid!WorkerStep
<1>6. QED
  BY <1>1, <1>2, <1>3, <1>4, <1>5 DEF Grid!Next, Grid!UserStep

\* What has been asked for is on its way.
LEMMA AskedFollows ==
    ASSUME EntryShape, EntryInv PROVE Grid!AskedIsAnswered
<1> SUFFICES ASSUME NEW e \in Cells \ (hover \cup applying \cup met),
                    entry[e].life = "open", entry[e].lazy
             PROVE  \/ \E j \in renderings : j.of = e
                    \/ \E w \in Workers : worker[w].of = e /\ worker[w].pc # "idle"
                    \/ Grid!Waits(images, e) \/ Grid!Waits(timers, e)
  BY DEF Grid!AskedIsAnswered
<1>1. OnItsWay(e)
  BY DEF EntryInv, AskedFor, Aside
<1>2. (\E u \in UpdatesOf(e) : u.gen = entry[e].gen) => Grid!Waits(images, e)
  BY DEF UpdatesOf, Grid!Waits
<1>3. QED
  BY <1>1, <1>2 DEF OnItsWay

\* At rest the last picture is the one shown.
LEMMA ShownFollows ==
    ASSUME EntryShape, EntryInv PROVE Grid!ShownIsCurrent
<1> SUFFICES ASSUME NEW e \in Cells, Grid!Settled(e), Grid!Usable(entry[e]), ~ entry[e].live,
                    e \notin hover \cup applying \cup met \cup caught
             PROVE  Good(e, entry[e].preview.pic)
  BY DEF Grid!ShownIsCurrent, Grid!Current, Good
<1>a. /\ UpToDate(e) /\ ~ Aside(e) /\ e \notin caught
      /\ \A w \in Workers : worker[w].of = e => worker[w].pc = "idle"
      /\ \A j \in renderings : j.of # e
  BY DEF EntryInv, Aside, Grid!Settled
<1>b. ~ WillRender(e)
  BY <1>a DEF WillRender
<1>1. LastIsGood(e)
  BY <1>a, <1>b, Zenon DEF UpToDate
<1>2. \A w \in Workers : ~ Carries(w, e)
  BY DEF Grid!Settled, Carries
<1>3. UpdatesOf(e) = {}
  BY DEF Grid!Settled, UpdatesOf, Grid!Waits
<1>4. QED
  BY <1>1, <1>2, <1>3 DEF LastIsGood

\* While the cells act, their entries have the shape and the invariant.
CellsInv == acts = "grid" => EntryShape /\ EntryInv /\ Apart

LEMMA CellsInvariant == AllSpec => []CellsInv
<1>1. AllInit => CellsInv
  BY CellsAssumption, EntryInit, ApartInit DEF AllInit, CellsInv
<1>2. ASSUME CellsInv, [AllNext]_<<acts, vars, cellVars, previewVars>> PROVE CellsInv'
  <2>1. acts' = acts
    BY <1>2 DEF AllNext
  <2>2. CASE acts # "grid"
    BY <2>1, <2>2 DEF CellsInv
  <2>3. CASE acts = "grid"
    <3>1. [Grid!Next]_(Grid!vars)
      BY <1>2, <2>3 DEF AllNext, cellVars, Grid!vars, Grid!past
    <3>2. EntryShape' /\ EntryInv' /\ Apart'
      BY <1>2, <2>3, <3>1, CellsAssumption, EntryStep, ApartStep DEF CellsInv, EntryInv
    <3>3. QED
      BY <3>2 DEF CellsInv
  <2>4. QED
    BY <2>2, <2>3
<1>3. QED
  BY <1>1, <1>2, PTL DEF AllSpec

\* What a cell believes to be asked for is on its way, unless two workers have
\* met there: it does not wait for a picture that nobody renders, carries or
\* has queued; whatever the number of workers, sizes, cells and resizes.
THEOREM CellsAreAnswered == AllSpec => []AskedIsAnswered
<1>1. CellsInv => AskedIsAnswered
  BY AskedFollows DEF CellsInv, AskedIsAnswered
<1>2. QED
  BY <1>1, CellsInvariant, PTL

\* A cell at rest shows the last edit, or the camera's preview of a photo that
\* has not been processed, unless two workers have met there or a resize has
\* caught it with a picture on its way or an outdated one put aside.
THEOREM CellsShowTheLastEdit == AllSpec => []ShownIsCurrent
<1>1. CellsInv => ShownIsCurrent
  BY ShownFollows DEF CellsInv, ShownIsCurrent
<1>2. QED
  BY <1>1, CellsInvariant, PTL

-----------------------------------------------------------------------------
(* HelperIsCounted, for any number of cells, sizes and workers, with         *)
(* renderings that fail: the instance Crowd.                                 *)

\* Where s has something of e.
PlacesOf(s, e) == {i \in DOMAIN s : s[i].of = e}

\* EntryImages and FiniteSetTheorems count alike.
LEMMA CrowdCardinality == ASSUME NEW S PROVE Crowd!Cardinality(S) = Cardinality(S)
BY DEF Crowd!Cardinality, Cardinality

LEMMA CountIs == ASSUME NEW s, NEW e PROVE Crowd!CountOf(s, e) = Cardinality(PlacesOf(s, e))
BY CrowdCardinality DEF Crowd!CountOf, PlacesOf

LEMMA CountFinite ==
    ASSUME NEW S, NEW s \in Seq(S), NEW e
    PROVE  IsFiniteSet(PlacesOf(s, e)) /\ Crowd!CountOf(s, e) \in Nat
<1>1. Len(s) \in Nat /\ DOMAIN s = 1 .. Len(s)
  OBVIOUS
<1>2. IsFiniteSet(1 .. Len(s))
  BY <1>1, FS_Interval
<1>3. PlacesOf(s, e) \in SUBSET (1 .. Len(s))
  BY <1>1 DEF PlacesOf
<1>4. IsFiniteSet(PlacesOf(s, e))
  BY <1>2, <1>3, FS_Subset
<1>5. QED
  BY <1>4, FS_CardinalityType, CountIs

LEMMA CountAppend ==
    ASSUME NEW S, NEW s \in Seq(S), NEW u, NEW e
    PROVE  /\ u.of = e => Crowd!CountOf(Append(s, u), e) = Crowd!CountOf(s, e) + 1
           /\ u.of # e => Crowd!CountOf(Append(s, u), e) = Crowd!CountOf(s, e)
<1>1. /\ s \in Seq(S \cup {u}) /\ Len(s) \in Nat
      /\ DOMAIN s = 1 .. Len(s)
  OBVIOUS
<1>2. /\ Append(s, u) \in Seq(S \cup {u}) /\ Len(Append(s, u)) = Len(s) + 1
      /\ \A i \in 1 .. Len(s) : Append(s, u)[i] = s[i]
      /\ Append(s, u)[Len(s) + 1] = u
  BY <1>1, AppendProperties
<1>3. DOMAIN Append(s, u) = (1 .. Len(s)) \cup {Len(s) + 1}
  BY <1>1, <1>2
<1>4. CASE u.of = e
  <2>1. PlacesOf(Append(s, u), e) = PlacesOf(s, e) \cup {Len(s) + 1}
    BY <1>1, <1>2, <1>3, <1>4 DEF PlacesOf
  <2>2. Len(s) + 1 \notin PlacesOf(s, e)
    BY <1>1 DEF PlacesOf
  <2>3. /\ IsFiniteSet(PlacesOf(s, e))
        /\ Cardinality(PlacesOf(s, e)) = Crowd!CountOf(s, e)
        /\ Cardinality(PlacesOf(Append(s, u), e)) = Crowd!CountOf(Append(s, u), e)
    BY CountFinite, CountIs
  <2>4. Crowd!CountOf(Append(s, u), e) = Crowd!CountOf(s, e) + 1
    BY <2>1, <2>2, <2>3, FS_AddElement
  <2>5. QED
    BY <1>2, <1>4, <2>4
<1>5. CASE u.of # e
  <2>1. PlacesOf(Append(s, u), e) = PlacesOf(s, e)
    BY <1>1, <1>2, <1>3, <1>5 DEF PlacesOf
  <2>2. QED
    BY <1>2, <1>5, <2>1, CountFinite, CountIs
<1>6. QED
  BY <1>4, <1>5

\* The sequence without one of its elements.
LEMMA WithoutOne ==
    ASSUME NEW S, NEW s \in Seq(S), NEW i \in DOMAIN s
    PROVE  /\ Crowd!RemoveAt(s, i) \in Seq(S)
           /\ Len(Crowd!RemoveAt(s, i)) = Len(s) - 1
           /\ \A k \in 1 .. Len(s) - 1 :
                 Crowd!RemoveAt(s, i)[k] = IF k < i THEN s[k] ELSE s[k + 1]
BY RemoveAtFacts DEF Grid!RemoveAt, Crowd!RemoveAt

LEMMA CountRemoveAt ==
    ASSUME NEW S, NEW s \in Seq(S), NEW i \in DOMAIN s, NEW e
    PROVE  /\ Crowd!RemoveAt(s, i) \in Seq(S)
           /\ Crowd!CountOf(s, e)
                = Crowd!CountOf(Crowd!RemoveAt(s, i), e) + (IF s[i].of = e THEN 1 ELSE 0)
<1> DEFINE t == Crowd!RemoveAt(s, i)
           A == PlacesOf(t, e)
           B == PlacesOf(s, e) \ {i}
           f == [k \in A |-> IF k < i THEN k ELSE k + 1]
<1>1. /\ t \in Seq(S) /\ Len(t) = Len(s) - 1
      /\ \A k \in 1 .. Len(s) - 1 : t[k] = IF k < i THEN s[k] ELSE s[k + 1]
  BY WithoutOne
<1> HIDE DEF t
<1>2. /\ DOMAIN s = 1 .. Len(s) /\ DOMAIN t = 1 .. Len(s) - 1
      /\ Len(s) \in Nat
  BY <1>1
<1>3. \A k \in A : k \in 1 .. Len(s) - 1 /\ t[k].of = e
  BY <1>2 DEF PlacesOf
<1>4. \A k \in A : f[k] \in B
  <2> TAKE k \in A
  <2>1. CASE k < i
    BY <2>1, <1>1, <1>2, <1>3 DEF PlacesOf
  <2>2. CASE ~ (k < i)
    <3>1. k + 1 \in DOMAIN s /\ t[k] = s[k + 1] /\ k + 1 # i
      BY <2>2, <1>1, <1>2, <1>3
    <3>2. QED
      BY <2>2, <3>1, <1>3 DEF PlacesOf
  <2>3. QED
    BY <2>1, <2>2
<1>5. \A j, k \in A : f[j] = f[k] => j = k
  BY <1>2, <1>3
<1>6. \A b \in B : \E k \in A : f[k] = b
  <2> TAKE b \in B
  <2>1. b \in 1 .. Len(s) /\ b # i /\ s[b].of = e /\ i \in 1 .. Len(s)
    BY <1>2 DEF PlacesOf
  <2>2. CASE b < i
    <3>1. b \in A
      BY <2>1, <2>2, <1>1, <1>2 DEF PlacesOf
    <3>2. QED
      BY <2>2, <3>1
  <2>3. CASE b > i
    <3>1. b - 1 \in 1 .. Len(s) - 1 /\ ~ (b - 1 < i)
      BY <2>1, <2>3, <1>2
    <3>2. t[b - 1] = s[b]
      BY <3>1, <1>1, <2>1
    <3>3. b - 1 \in A
      BY <3>1, <3>2, <2>1, <1>2 DEF PlacesOf
    <3>4. f[b - 1] = b
      BY <3>1, <3>3, <2>1
    <3>5. QED
      BY <3>3, <3>4
  <2>4. QED
    BY <2>1, <2>2, <2>3
<1>7. f \in Bijection(A, B)
  BY <1>4, <1>5, <1>6 DEF Bijection, Injection, Surjection, IsInjective
<1>8. IsFiniteSet(A) /\ IsFiniteSet(PlacesOf(s, e))
  BY <1>1, CountFinite
<1>9. Cardinality(B) = Cardinality(A)
  BY <1>7, <1>8, FS_Bijection DEF ExistsBijection
<1>10. Cardinality(B) = IF i \in PlacesOf(s, e) THEN Cardinality(PlacesOf(s, e)) - 1
                                                 ELSE Cardinality(PlacesOf(s, e))
  BY <1>8, FS_RemoveElement
<1>11. i \in PlacesOf(s, e) <=> s[i].of = e
  BY DEF PlacesOf
<1>12. Cardinality(A) \in Nat /\ Cardinality(PlacesOf(s, e)) \in Nat
  BY <1>8, FS_CardinalityType
<1>13. QED
  BY <1>1, <1>9, <1>10, <1>11, <1>12, CountIs DEF t

\* A sequence of things about cells.
Listed(s) ==
    /\ s \in Seq({s[i] : i \in DOMAIN s})
    /\ \A i \in DOMAIN s : s[i].of \in Cells

LEMMA SeqIsListed ==
    ASSUME NEW S, NEW s \in Seq(S), \A i \in DOMAIN s : s[i].of \in Cells
    PROVE  Listed(s)
BY DEF Listed

LEMMA AppendListed ==
    ASSUME NEW s, Listed(s), NEW u, u.of \in Cells PROVE Listed(Append(s, u))
<1> DEFINE S == {s[i] : i \in DOMAIN s} \cup {u}
<1>1. s \in Seq(S) /\ u \in S
  BY DEF Listed
<1> HIDE DEF S
<1>2. /\ Append(s, u) \in Seq(S) /\ Len(s) \in Nat
      /\ \A i \in DOMAIN Append(s, u) :
            \/ i \in DOMAIN s /\ Append(s, u)[i] = s[i]
            \/ Append(s, u)[i] = u
  BY <1>1
<1>3. QED
  BY <1>2, SeqIsListed DEF Listed

LEMMA WithoutListed ==
    ASSUME NEW s, Listed(s), NEW i \in DOMAIN s PROVE Listed(Crowd!RemoveAt(s, i))
<1> DEFINE S == {s[k] : k \in DOMAIN s}
<1>1. s \in Seq(S)
  BY DEF Listed
<1> HIDE DEF S
<1>2. /\ Crowd!RemoveAt(s, i) \in Seq(S)
      /\ Len(Crowd!RemoveAt(s, i)) = Len(s) - 1 /\ Len(s) \in Nat
      /\ \A k \in 1 .. Len(s) - 1 :
            Crowd!RemoveAt(s, i)[k] = IF k < i THEN s[k] ELSE s[k + 1]
  BY <1>1, WithoutOne
<1>3. \A k \in DOMAIN Crowd!RemoveAt(s, i) : Crowd!RemoveAt(s, i)[k].of \in Cells
  BY <1>1, <1>2 DEF Listed
<1>4. QED
  BY <1>2, <1>3, SeqIsListed

\* An update in the place of one of its entry does not change the counts.
LEMMA CountPut ==
    ASSUME Listed(images), NEW u, u.of \in Cells, Crowd!Put(u)
    PROVE  /\ Listed(images')
           /\ Crowd!Waits(images, u.of) =>
                 /\ \A e : Crowd!CountOf(images', e) = Crowd!CountOf(images, e)
                 /\ Crowd!CountOf(images, u.of) > 0
           /\ ~ Crowd!Waits(images, u.of) =>
                 /\ Crowd!CountOf(images', u.of) = Crowd!CountOf(images, u.of) + 1
                 /\ \A e : u.of # e => Crowd!CountOf(images', e) = Crowd!CountOf(images, e)
<1> DEFINE S == {images[i] : i \in DOMAIN images}
<1>1. PICK s \in Seq(S) : s = images
  BY DEF Listed
<1>2. CASE Crowd!Waits(images, u.of)
  <2> DEFINE t == [i \in DOMAIN s |-> IF s[i].of = u.of THEN u ELSE s[i]]
  <2>1. images' = t
    BY <1>1, <1>2 DEF Crowd!Put
  <2>2. t \in Seq(S \cup {u}) /\ \A i \in DOMAIN t : t[i].of \in Cells
    BY <1>1 DEF Listed
  <2>3. \A e : PlacesOf(t, e) = PlacesOf(s, e)
    BY DEF PlacesOf
  <2>4. PICK i \in DOMAIN s : s[i].of = u.of
    BY <1>1, <1>2 DEF Crowd!Waits
  <2>5. Crowd!CountOf(s, u.of) > 0
    BY <2>4, CountRemoveAt, CountFinite
  <2>6. Listed(t)
    BY <2>2, SeqIsListed
  <2>7. \A e : Crowd!CountOf(t, e) = Crowd!CountOf(s, e)
    BY <2>3, CountIs
  <2>8. QED
    BY <1>1, <1>2, <2>1, <2>5, <2>6, <2>7
<1>3. CASE ~ Crowd!Waits(images, u.of)
  <2>1. images' = Append(s, u)
    BY <1>1, <1>3 DEF Crowd!Put
  <2>2. Listed(Append(s, u))
    BY <1>1, AppendListed
  <2>3. \A e : /\ u.of = e => Crowd!CountOf(Append(s, u), e) = Crowd!CountOf(s, e) + 1
               /\ u.of # e => Crowd!CountOf(Append(s, u), e) = Crowd!CountOf(s, e)
    BY CountAppend
  <2>4. QED
    BY <1>1, <1>3, <2>1, <2>2, <2>3
<1>4. QED
  BY <1>2, <1>3

-----------------------------------------------------------------------------
\* What the count is about, in the record of an entry.
Bare(r) == {"life", "helper", "pending"} \subseteq DOMAIN r

Keeps(r, n) ==
    Bare(n) /\ n.life = r.life /\ n.helper = r.helper /\ n.pending = r.pending

\* The helper of an open entry lives; that of a deleted one is freed with its
\* last reference.
HelperSound(r) ==
    \/ r.life = "open" /\ r.helper = "live"
    \/ /\ r.life = "deleted" /\ r.helper \in {"destroyed", "freed"}
       /\ r.helper = "freed" <=> r.pending = 0

Refs(e) ==
    Crowd!CountOf(images, e) + Crowd!CountOf(timers, e) + Cardinality(Crowd!Queueing(e))

WorkersBare ==
    /\ DOMAIN worker = Workers
    /\ \A w \in Workers : {"of", "pc"} \subseteq DOMAIN worker[w] /\ worker[w].of \in Cells

CrowdShape ==
    /\ DOMAIN entry = Cells
    /\ \A e \in Cells : Bare(entry[e])
    /\ WorkersBare
    /\ \A j \in renderings : j.of \in Cells
    /\ Listed(images) /\ Listed(timers)

\* No callback is on its way to a deleted entry.
CallsTheOpen ==
    \A w \in Workers :
        worker[w].pc \in {"stamp", "queue"} => entry[worker[w].of].life = "open"

CrowdInv ==
    /\ CrowdShape
    /\ \A e \in Cells : entry[e].pending = Refs(e) /\ HelperSound(entry[e])
    /\ CallsTheOpen

\* A reference released: the last one after the entry frees the helper.
LEMMA ReleaseCounts ==
    ASSUME NEW r, Bare(r), HelperSound(r), r.pending \in Nat, r.pending > 0
    PROVE  /\ Bare(Crowd!Release(r)) /\ HelperSound(Crowd!Release(r))
           /\ Crowd!Release(r).life = r.life
           /\ Crowd!Release(r).pending = r.pending - 1
<1> DEFINE h == IF r.helper = "destroyed" /\ r.pending = 1 THEN "freed" ELSE r.helper
           n == Crowd!Release(r)
<1>1. Bare(n) /\ n.life = r.life /\ n.pending = r.pending - 1 /\ n.helper = h
  BY DEF Crowd!Release, Bare
<1> HIDE DEF n
<1>2. HelperSound(n)
  BY <1>1 DEF HelperSound
<1>3. QED
  BY <1>1, <1>2 DEF n

LEMMA DiscardCounts ==
    ASSUME NEW r, Bare(r), HelperSound(r), r.pending \in Nat, r.pending > 0
    PROVE  /\ Bare(Crowd!Discard(r)) /\ HelperSound(Crowd!Discard(r))
           /\ Crowd!Discard(r).life = r.life
           /\ Crowd!Discard(r).pending = r.pending - 1
<1> DEFINE n == Crowd!Release(r)
<1>1. /\ Bare(n) /\ HelperSound(n)
      /\ n.life = r.life /\ n.pending = r.pending - 1
  BY ReleaseCounts
<1>2. Crowd!Discard(r) = n \/ Crowd!Discard(r) = [n EXCEPT !.redraws = @ - 1]
  BY DEF Crowd!Discard
<1> HIDE DEF n
<1>3. Keeps(n, Crowd!Discard(r))
  BY <1>1, <1>2 DEF Keeps, Bare
<1>4. QED
  BY <1>1, <1>3 DEF Keeps, HelperSound

LEMMA PaintCounts ==
    ASSUME NEW r, Bare(r), NEW s, NEW p PROVE Keeps(r, Crowd!Paint(r, s, p))
BY DEF Crowd!Paint, Keeps, Bare

LEMMA AppliedCounts ==
    ASSUME NEW r, Bare(r), HelperSound(r), r.pending \in Nat, r.pending > 0, NEW u
    PROVE  /\ Bare(Crowd!Applied(r, u)) /\ HelperSound(Crowd!Applied(r, u))
           /\ Crowd!Applied(r, u).life = r.life
           /\ Crowd!Applied(r, u).pending = r.pending - 1
<1> DEFINE p == Crowd!Paint(r, u.size, u.pic)
<1>1. Keeps(r, p)
  BY PaintCounts
<1>2. \/ Crowd!Applied(r, u) = Crowd!Release(r)
      \/ Crowd!Applied(r, u) = Crowd!Discard(r)
      \/ Crowd!Applied(r, u) = Crowd!Release(p)
  BY DEF Crowd!Applied
<1> HIDE DEF p
<1>3. Bare(p) /\ HelperSound(p) /\ p.pending \in Nat /\ p.pending > 0
  BY <1>1 DEF Keeps, HelperSound
<1>4. /\ Bare(Crowd!Release(p)) /\ HelperSound(Crowd!Release(p))
      /\ Crowd!Release(p).life = p.life
      /\ Crowd!Release(p).pending = p.pending - 1
  BY <1>3, ReleaseCounts
<1>5. QED
  BY <1>1, <1>2, <1>4, ReleaseCounts, DiscardCounts DEF Keeps

\* What is counted is a number, and one who refers to an entry is counted.
LEMMA RefsFacts ==
    ASSUME CrowdInv, IsFiniteSet(Workers), NEW e \in Cells
    PROVE  /\ Crowd!CountOf(images, e) \in Nat /\ Crowd!CountOf(timers, e) \in Nat
           /\ Cardinality(Crowd!Queueing(e)) \in Nat /\ IsFiniteSet(Crowd!Queueing(e))
           /\ entry[e].pending \in Nat /\ entry[e].pending = Refs(e)
<1>1. PICK S : images \in Seq(S)
  BY DEF CrowdInv, CrowdShape, Listed
<1>2. PICK T : timers \in Seq(T)
  BY DEF CrowdInv, CrowdShape, Listed
<1>3. Crowd!CountOf(images, e) \in Nat /\ Crowd!CountOf(timers, e) \in Nat
  BY <1>1, <1>2, CountFinite
<1>4. IsFiniteSet(Crowd!Queueing(e))
  BY FS_Subset DEF Crowd!Queueing
<1>5. QED
  BY <1>3, <1>4, FS_CardinalityType DEF CrowdInv, Refs

\* A step that leaves what is counted, and the life of the entries, as it is.
LEMMA QuietCounts ==
    ASSUME CrowdInv, CrowdShape', UNCHANGED <<images, timers>>,
           \A e \in Cells : Keeps(entry[e], entry'[e]) /\ Crowd!Queueing(e)' = Crowd!Queueing(e),
           \A w \in Workers : worker'[w].pc \in {"stamp", "queue"} =>
                                  entry[worker'[w].of].life = "open"
    PROVE  CrowdInv'
<1>1. \A e \in Cells : Refs(e)' = Refs(e)
  BY DEF Refs
<1>2. \A e \in Cells : HelperSound(entry[e])'
  BY DEF CrowdInv, HelperSound, Keeps
<1>3. CallsTheOpen'
  BY DEF CallsTheOpen, Keeps, CrowdShape, WorkersBare
<1>4. QED
  BY <1>1, <1>2, <1>3 DEF CrowdInv, Keeps

\* So does a step of the GTK thread about one entry.
LEMMA QuietGtk ==
    ASSUME CrowdInv, UNCHANGED <<worker, images, timers>>,
           NEW e \in Cells, NEW n, entry' = [entry EXCEPT ![e] = n], Keeps(entry[e], n),
           \A j \in renderings' : j \in renderings \/ j.of = e
    PROVE  CrowdInv'
<1>1. CrowdShape'
  BY DEF CrowdInv, CrowdShape, WorkersBare, Keeps
<1>2. \A x \in Cells : Keeps(entry[x], entry'[x]) /\ Crowd!Queueing(x)' = Crowd!Queueing(x)
  BY DEF CrowdInv, CrowdShape, Keeps, Crowd!Queueing
<1>3. QED
  BY <1>1, <1>2, QuietCounts DEF CrowdInv, CallsTheOpen

\* What else the methods of an entry do to it.
LEMMA EditedCounts == ASSUME NEW r, Bare(r) PROVE Keeps(r, Crowd!Edited(r))
BY DEF Crowd!Edited, Crowd!DropSlots, Keeps, Bare

LEMMA ResizedCounts == ASSUME NEW r, Bare(r), NEW s PROVE Keeps(r, Crowd!Resized(r, s))
BY DEF Crowd!Resized, Keeps, Bare

LEMMA JobsAreOf ==
    ASSUME NEW e
    PROVE  /\ \A j \in Crowd!EditJobs(e) : j.of = e
           /\ \A j \in Crowd!RefreshJobs(e) : j.of = e
           /\ \A r : \A j \in Crowd!QuickJobs(e, r) : j.of = e
BY DEF Crowd!EditJobs, Crowd!QuickJobs, Crowd!RefreshJobs

LEMMA BareEntry == ASSUME CrowdInv, NEW e \in Cells PROVE Bare(entry[e])
BY DEF CrowdInv, CrowdShape

\* The steps of the GTK thread that count nothing.
LEMMA EditCounts == ASSUME CrowdInv, NEW e \in Cells, Crowd!Edit(e) PROVE CrowdInv'
BY BareEntry, EditedCounts, JobsAreOf, QuietGtk DEF Crowd!Edit, Crowd!Set

LEMMA EditorEditCounts ==
    ASSUME CrowdInv, NEW e \in Cells, Crowd!EditorEdit(e) PROVE CrowdInv'
<1>1. CASE entry[e].live
  <2>1. Keeps(entry[e], [entry[e] EXCEPT !.params = @ + 1])
    BY BareEntry DEF Keeps, Bare
  <2>2. QED
    BY <1>1, <2>1, QuietGtk DEF Crowd!EditorEdit, Crowd!Set
<1>2. CASE ~ entry[e].live
  BY <1>2, BareEntry, EditedCounts, JobsAreOf, QuietGtk DEF Crowd!EditorEdit, Crowd!Set
<1>3. QED
  BY <1>1, <1>2

LEMMA LivePreviewCounts ==
    ASSUME CrowdInv, NEW e \in Cells, Crowd!LivePreview(e) PROVE CrowdInv'
<1> DEFINE r == Crowd!DropSlots([entry[e] EXCEPT !.live = TRUE, !.gen = @ + 1,
                                                 !.redraws = @ + 1])
<1>1. Keeps(entry[e], r)
  BY BareEntry DEF Crowd!DropSlots, Keeps, Bare
<1>2. /\ entry' = [entry EXCEPT ![e] = Crowd!Paint(r, r.size, r.params)]
      /\ UNCHANGED <<worker, images, timers, renderings>>
  BY DEF Crowd!LivePreview, Crowd!Set
<1> HIDE DEF r
<1>3. Keeps(r, Crowd!Paint(r, r.size, r.params))
  BY <1>1, PaintCounts DEF Keeps
<1>4. QED
  BY <1>1, <1>2, <1>3, QuietGtk DEF Keeps

LEMMA HoverEndCounts ==
    ASSUME CrowdInv, NEW e \in Cells, Crowd!HoverEnd(e) PROVE CrowdInv'
<1>1. Keeps(entry[e], Crowd!DropSlots([entry[e] EXCEPT !.gen = @ + 1, !.live = FALSE]))
  BY BareEntry DEF Crowd!DropSlots, Keeps, Bare
<1>2. QED
  BY <1>1, JobsAreOf, QuietGtk, ZenonT(30) DEF Crowd!HoverEnd, Crowd!Set

LEMMA HoverApplyCounts ==
    ASSUME CrowdInv, NEW e \in Cells, Crowd!HoverApply(e) PROVE CrowdInv'
<1>1. Keeps(entry[e], [entry[e] EXCEPT !.gen = @ + 1])
  BY BareEntry DEF Keeps, Bare
<1>2. QED
  BY <1>1, QuietGtk DEF Crowd!HoverApply, Crowd!Set

\* A step that touches no entry, and neither workers nor queues.
LEMMA StillCounts ==
    ASSUME CrowdInv, UNCHANGED <<entry, worker, images, timers, renderings>> PROVE CrowdInv'
BY DEF CrowdInv, CrowdShape, WorkersBare, CallsTheOpen, HelperSound, Refs, Bare, Listed,
       Crowd!Queueing

LEMMA ApplyEditCounts ==
    ASSUME CrowdInv, NEW e \in Cells, Crowd!ApplyEdit(e) PROVE CrowdInv'
<1>1. CASE UNCHANGED <<entry, renderings>>
  BY <1>1, StillCounts DEF Crowd!ApplyEdit
<1>2. CASE ~ UNCHANGED <<entry, renderings>>
  BY <1>2, BareEntry, EditedCounts, JobsAreOf, QuietGtk DEF Crowd!ApplyEdit, Crowd!Set
<1>3. QED
  BY <1>1, <1>2

LEMMA ScrollCounts == ASSUME CrowdInv, NEW e \in Cells, Crowd!Scroll(e) PROVE CrowdInv'
<1>1. Keeps(entry[e], [entry[e] EXCEPT !.visible = ~ @])
  BY BareEntry DEF Keeps, Bare
<1>2. QED
  BY <1>1, QuietGtk DEF Crowd!Scroll, Crowd!Set

\* A step of the GTK thread about all of them.
LEMMA QuietForAll ==
    ASSUME CrowdInv, UNCHANGED <<worker, images, timers>>, DOMAIN entry' = Cells,
           \A e \in Cells : Keeps(entry[e], entry'[e]),
           \A j \in renderings' : j \in renderings \/ j.of \in Cells
    PROVE  CrowdInv'
<1>1. CrowdShape'
  BY DEF CrowdInv, CrowdShape, WorkersBare, Keeps
<1>2. \A x \in Cells : Crowd!Queueing(x)' = Crowd!Queueing(x)
  BY DEF Crowd!Queueing
<1>3. QED
  BY <1>1, <1>2, QuietCounts DEF CrowdInv, CallsTheOpen

LEMMA ResizeCounts == ASSUME CrowdInv, NEW s, Crowd!Resize(s) PROVE CrowdInv'
<1>1. \A e \in Cells : Keeps(entry[e], entry[e]) /\ Keeps(entry[e], Crowd!Resized(entry[e], s))
  BY BareEntry, ResizedCounts DEF Keeps
<1>2. entry' = [e \in Cells |-> IF entry[e].life = "open" /\ entry[e].size # s
                                  THEN Crowd!Resized(entry[e], s) ELSE entry[e]]
  BY DEF Crowd!Resize
<1>3. DOMAIN entry' = Cells /\ \A e \in Cells : Keeps(entry[e], entry'[e])
  BY <1>1, <1>2
<1>4. QED
  BY <1>3, QuietForAll DEF Crowd!Resize

LEMMA DrawCounts == ASSUME CrowdInv, Crowd!Draw PROVE CrowdInv'
<1>1. \A e \in Cells :
          Keeps(entry[e], [entry[e] EXCEPT !.lazy = @ \/ Crowd!Asks(entry[e])])
  BY BareEntry DEF Keeps, Bare
<1>2. entry' = [e \in Cells |-> [entry[e] EXCEPT !.lazy = @ \/ Crowd!Asks(entry[e])]]
  BY DEF Crowd!Draw
<1>3. DOMAIN entry' = Cells /\ \A e \in Cells : Keeps(entry[e], entry'[e])
  BY <1>1, <1>2
<1>4. \A j \in renderings' : j \in renderings \/ j.of \in Cells
  BY DEF Crowd!Draw
<1>5. QED
  BY <1>3, <1>4, QuietForAll DEF Crowd!Draw

\* An entry is deleted: its helper is freed with it when nobody refers to it.
LEMMA DeleteCounts == ASSUME CrowdInv, NEW e \in Cells, IsFiniteSet(Workers), Crowd!Delete(e)
                      PROVE  CrowdInv'
<1> DEFINE h == IF entry[e].pending > 0 THEN "destroyed" ELSE "freed"
           n == [entry[e] EXCEPT !.life = "deleted", !.helper = h]
<1>1. /\ entry' = [entry EXCEPT ![e] = n] /\ ~ Crowd!InCallback(e)
      /\ renderings' \subseteq renderings
      /\ UNCHANGED <<worker, images, timers>>
  BY DEF Crowd!Delete, Crowd!Set
<1>2. Bare(n) /\ n.life = "deleted" /\ n.pending = entry[e].pending /\ n.helper = h
  BY BareEntry DEF Bare
<1>3. entry[e].pending \in Nat
  BY RefsFacts
<1>4. HelperSound(n)
  BY <1>2, <1>3 DEF HelperSound
<1> HIDE DEF n
<1>5. CrowdShape'
  BY <1>1, <1>2 DEF CrowdInv, CrowdShape, WorkersBare
<1>6. \A x \in Cells : Refs(x)' = Refs(x)
  BY <1>1 DEF Refs, Crowd!Queueing
<1>7. \A x \in Cells : entry'[x].pending = Refs(x)' /\ HelperSound(entry'[x])
  BY <1>1, <1>2, <1>4, <1>6 DEF CrowdInv, CrowdShape
<1>8. CallsTheOpen'
  BY <1>1 DEF CrowdInv, CrowdShape, WorkersBare, CallsTheOpen, Crowd!InCallback
<1>9. QED
  BY <1>5, <1>7, <1>8 DEF CrowdInv, HelperSound

\* A step about one entry, which counts what refers to it again.
LEMMA CountedStep ==
    ASSUME CrowdInv, NEW e \in Cells, NEW n, entry' = [entry EXCEPT ![e] = n],
           Bare(n), HelperSound(n), n.life = entry[e].life, n.pending = Refs(e)',
           Listed(images)', Listed(timers)', WorkersBare', \A j \in renderings' : j.of \in Cells,
           \A x \in Cells \ {e} : Refs(x)' = Refs(x),
           \A w \in Workers : worker'[w].pc \in {"stamp", "queue"} =>
                                  entry[worker'[w].of].life = "open"
    PROVE  CrowdInv'
<1>1. CrowdShape'
  BY DEF CrowdInv, CrowdShape
<1>2. CallsTheOpen'
  BY DEF CrowdInv, CrowdShape, WorkersBare, CallsTheOpen
<1>3. \A x \in Cells : entry'[x] = IF x = e THEN n ELSE entry[x]
  BY DEF CrowdInv, CrowdShape
<1>4. \A x \in Cells : entry'[x].pending = Refs(x)' /\ HelperSound(entry'[x])
  BY <1>3 DEF CrowdInv
<1>5. QED
  BY <1>1, <1>2, <1>4 DEF CrowdInv, HelperSound

\* The one thing more or less of one entry.
LEMMA HoverShowCounts ==
    ASSUME CrowdInv, IsFiniteSet(Workers), NEW e \in Cells, Crowd!HoverShow(e) PROVE CrowdInv'
<1> DEFINE r == [entry[e] EXCEPT !.redraws = @ + 1, !.pending = @ + 1, !.gen = @ + 1]
           u == [of |-> e, size |-> r.size, pic |-> Crowd!Hovered, gen |-> r.gen,
                 visible |-> r.visible]
           n == IF Crowd!Waits(images, e) THEN Crowd!Discard(r) ELSE r
<1>1. /\ entry[e].life = "open"
      /\ entry' = [entry EXCEPT ![e] = n]
      /\ Crowd!Put(u)
      /\ UNCHANGED <<renderings, worker, timers>>
  BY DEF Crowd!HoverShow, Crowd!Set
<1>2. Bare(r) /\ r.life = "open" /\ r.helper = "live" /\ r.pending = entry[e].pending + 1
  BY <1>1, BareEntry DEF Bare, CrowdInv, HelperSound
<1>3. entry[e].pending \in Nat
  BY RefsFacts
<1>4. u.of = e
  OBVIOUS
<1> HIDE DEF r, u
<1>5. HelperSound(r) /\ r.pending \in Nat /\ r.pending > 0
  BY <1>2, <1>3 DEF HelperSound
<1>6. /\ Bare(n) /\ HelperSound(n) /\ n.life = "open"
      /\ n.pending = IF Crowd!Waits(images, e) THEN entry[e].pending ELSE entry[e].pending + 1
  BY <1>2, <1>3, <1>5, DiscardCounts
<1> HIDE DEF n
<1>7. Listed(images)
  BY DEF CrowdInv, CrowdShape
<1>8. /\ Listed(images')
      /\ \A x \in Cells \ {e} : Crowd!CountOf(images', x) = Crowd!CountOf(images, x)
      /\ Crowd!CountOf(images', e)
           = IF Crowd!Waits(images, e) THEN Crowd!CountOf(images, e)
             ELSE Crowd!CountOf(images, e) + 1
  BY <1>1, <1>4, <1>7, CountPut
<1>9. \A x \in Cells : Crowd!Queueing(x)' = Crowd!Queueing(x)
  BY <1>1 DEF Crowd!Queueing
<1>10. \A x \in Cells \ {e} : Refs(x)' = Refs(x)
  BY <1>1, <1>8, <1>9 DEF Refs
<1>11. n.pending = Refs(e)'
  BY <1>1, <1>6, <1>8, <1>9, RefsFacts DEF Refs
<1>12. Listed(timers)' /\ WorkersBare' /\ \A j \in renderings' : j.of \in Cells
  BY <1>1 DEF CrowdInv, CrowdShape, WorkersBare, Listed
<1>13. QED
  BY <1>1, <1>6, <1>8, <1>10, <1>11, <1>12, CountedStep DEF CrowdInv, CallsTheOpen

LEMMA DrainCounts ==
    ASSUME CrowdInv, IsFiniteSet(Workers), Crowd!Drain PROVE CrowdInv'
<1>1. CASE UNCHANGED <<entry, images>>
  BY <1>1, StillCounts DEF Crowd!Drain
<1>2. CASE ~ UNCHANGED <<entry, images>>
  <2>1. Crowd!Deliverable # {}
    BY <1>2 DEF Crowd!Drain
  <2>2. PICK S : images \in Seq(S)
    BY DEF CrowdInv, CrowdShape, Listed
  <2>3. Crowd!Deliverable \subseteq Nat
    BY <2>2 DEF Crowd!Deliverable
  <2>4. \E i \in Crowd!Deliverable : \A j \in Crowd!Deliverable : i <= j
    BY <2>1, <2>3, LeastOf
  <2>5. PICK i \in Crowd!Deliverable : i = CHOOSE x \in Crowd!Deliverable :
                                             \A y \in Crowd!Deliverable : x <= y
    BY <2>4
  <2>6. i \in DOMAIN images
    BY DEF Crowd!Deliverable
  <2>7. PICK u : u = images[i]
    OBVIOUS
  <2>8. PICK e \in Cells : e = u.of
    BY <2>6, <2>7 DEF CrowdInv, CrowdShape, Listed
  <2> DEFINE n == Crowd!Applied(entry[e], u)
  <2>9. /\ entry' = [entry EXCEPT ![e] = n]
        /\ images' = Crowd!RemoveAt(images, i)
        /\ UNCHANGED <<renderings, worker, timers>>
    BY <1>2, <2>1, <2>5, <2>7, <2>8 DEF Crowd!Drain, Crowd!Set
  <2>10. /\ Listed(Crowd!RemoveAt(images, i))
         /\ \A x : Crowd!CountOf(images, x)
                     = Crowd!CountOf(Crowd!RemoveAt(images, i), x)
                       + (IF images[i].of = x THEN 1 ELSE 0)
         /\ \A x : Crowd!CountOf(Crowd!RemoveAt(images, i), x) \in Nat
    BY <2>2, <2>6, WithoutListed, CountRemoveAt, CountFinite DEF CrowdInv, CrowdShape
  <2>11. /\ Crowd!CountOf(images, e) = Crowd!CountOf(images', e) + 1
         /\ \A x \in Cells \ {e} : Crowd!CountOf(images, x) = Crowd!CountOf(images', x)
         /\ Crowd!CountOf(images', e) \in Nat
    BY <2>7, <2>8, <2>9, <2>10
  <2>12. \A x \in Cells : Crowd!Queueing(x)' = Crowd!Queueing(x)
    BY <2>9 DEF Crowd!Queueing
  <2>13. \A x \in Cells \ {e} : Refs(x)' = Refs(x)
    BY <2>9, <2>11, <2>12 DEF Refs
  <2>14. entry[e].pending \in Nat /\ entry[e].pending > 0 /\ Refs(e)' = entry[e].pending - 1
    BY <2>9, <2>11, <2>12, RefsFacts DEF Refs
  <2>15. /\ Bare(n) /\ HelperSound(n) /\ n.life = entry[e].life
         /\ n.pending = entry[e].pending - 1
    BY <2>14, BareEntry, AppliedCounts DEF CrowdInv
  <2> HIDE DEF n
  <2>16. Listed(timers)' /\ WorkersBare' /\ \A j \in renderings' : j.of \in Cells
    BY <2>9 DEF CrowdInv, CrowdShape, WorkersBare, Listed
  <2>17. QED
    BY <2>9, <2>10, <2>13, <2>14, <2>15, <2>16, CountedStep DEF CrowdInv, CallsTheOpen
<1>3. QED
  BY <1>1, <1>2

LEMMA RetryCounts ==
    ASSUME CrowdInv, IsFiniteSet(Workers), Crowd!Retry PROVE CrowdInv'
<1>1. PICK i \in DOMAIN timers :
        LET t == timers[i]
            r == entry[t.of]
            runs == r.helper = "live" /\ t.gen = r.retryGen /\ ~ Crowd!Usable(r)
        IN /\ timers' = Crowd!RemoveAt(timers, i)
           /\ Crowd!Set(t.of, [Crowd!Release(r) EXCEPT !.lazy = @ \/ runs])
           /\ renderings' = IF runs THEN renderings \cup Crowd!QuickJobs(t.of, r) ELSE renderings
           /\ UNCHANGED <<worker, images>>
  BY DEF Crowd!Retry
<1>2. PICK e \in Cells : e = timers[i].of
  BY DEF CrowdInv, CrowdShape, Listed
<1> DEFINE runs == /\ entry[e].helper = "live" /\ timers[i].gen = entry[e].retryGen
                   /\ ~ Crowd!Usable(entry[e])
           m == Crowd!Release(entry[e])
           n == [m EXCEPT !.lazy = @ \/ runs]
<1>3. /\ entry' = [entry EXCEPT ![e] = n]
      /\ timers' = Crowd!RemoveAt(timers, i)
      /\ renderings' = IF runs THEN renderings \cup Crowd!QuickJobs(e, entry[e]) ELSE renderings
      /\ UNCHANGED <<worker, images>>
  BY <1>1, <1>2 DEF Crowd!Set
<1> HIDE DEF runs
<1>4. PICK S : timers \in Seq(S)
  BY DEF CrowdInv, CrowdShape, Listed
<1>5. /\ Listed(Crowd!RemoveAt(timers, i))
      /\ \A x : Crowd!CountOf(timers, x)
                  = Crowd!CountOf(Crowd!RemoveAt(timers, i), x)
                    + (IF timers[i].of = x THEN 1 ELSE 0)
      /\ \A x : Crowd!CountOf(Crowd!RemoveAt(timers, i), x) \in Nat
  BY <1>4, WithoutListed, CountRemoveAt, CountFinite DEF CrowdInv, CrowdShape
<1>6. /\ Crowd!CountOf(timers, e) = Crowd!CountOf(timers', e) + 1
      /\ \A x \in Cells \ {e} : Crowd!CountOf(timers, x) = Crowd!CountOf(timers', x)
      /\ Crowd!CountOf(timers', e) \in Nat
  BY <1>2, <1>3, <1>5
<1>7. \A x \in Cells : Crowd!Queueing(x)' = Crowd!Queueing(x)
  BY <1>3 DEF Crowd!Queueing
<1>8. \A x \in Cells \ {e} : Refs(x)' = Refs(x)
  BY <1>3, <1>6, <1>7 DEF Refs
<1>9. entry[e].pending \in Nat /\ entry[e].pending > 0 /\ Refs(e)' = entry[e].pending - 1
  BY <1>3, <1>6, <1>7, RefsFacts DEF Refs
<1>10. /\ Bare(m) /\ HelperSound(m) /\ m.life = entry[e].life
       /\ m.pending = entry[e].pending - 1
  BY <1>9, BareEntry, ReleaseCounts DEF CrowdInv
<1> HIDE DEF m
<1>11. Keeps(m, n)
  BY <1>10 DEF Keeps, Bare
<1>12. Bare(n) /\ HelperSound(n) /\ n.life = entry[e].life /\ n.pending = entry[e].pending - 1
  BY <1>10, <1>11 DEF Keeps, HelperSound
<1> HIDE DEF n
<1>13. \A j \in renderings' : j.of \in Cells
  BY <1>3, JobsAreOf DEF CrowdInv, CrowdShape
<1>14. Listed(images)' /\ WorkersBare'
  BY <1>3 DEF CrowdInv, CrowdShape, WorkersBare, Listed
<1>15. QED
  BY <1>3, <1>5, <1>8, <1>9, <1>12, <1>13, <1>14, CountedStep DEF CrowdInv, CallsTheOpen

\* What a worker turns to, and who is about to queue an update then.
LEMMA BecameCounts ==
    ASSUME CrowdInv, NEW w \in Workers, NEW n, {"of", "pc"} \subseteq DOMAIN n, n.of \in Cells,
           worker' = [worker EXCEPT ![w] = n]
    PROVE  /\ WorkersBare' /\ worker'[w] = n
           /\ \A x \in Workers \ {w} : worker'[x] = worker[x]
           /\ \A e \in Cells : Crowd!Queueing(e)' =
                 IF n.of = e /\ n.pc = "queue" THEN Crowd!Queueing(e) \cup {w}
                                               ELSE Crowd!Queueing(e) \ {w}
<1>1. /\ worker'[w] = n /\ DOMAIN worker' = Workers
      /\ \A x \in Workers \ {w} : worker'[x] = worker[x]
  BY DEF CrowdInv, CrowdShape, WorkersBare
<1>2. WorkersBare'
  BY <1>1 DEF CrowdInv, CrowdShape, WorkersBare
<1>3. ASSUME NEW e \in Cells
      PROVE  Crowd!Queueing(e)' = IF n.of = e /\ n.pc = "queue" THEN Crowd!Queueing(e) \cup {w}
                                                                ELSE Crowd!Queueing(e) \ {w}
  BY <1>1 DEF Crowd!Queueing
<1>4. QED
  BY <1>1, <1>2, <1>3

\* A worker that neither was about to queue an update nor is, and counts nothing.
LEMMA QuietWorker ==
    ASSUME CrowdInv, NEW w \in Workers, worker[w].pc # "queue", UNCHANGED <<images, timers>>,
           NEW n, {"of", "pc"} \subseteq DOMAIN n, n.of \in Cells, n.pc # "queue",
           n.pc = "stamp" => entry[n.of].life = "open",
           worker' = [worker EXCEPT ![w] = n],
           renderings' \subseteq renderings, DOMAIN entry' = Cells,
           \A e \in Cells : Keeps(entry[e], entry'[e])
    PROVE  CrowdInv'
<1>1. /\ WorkersBare' /\ worker'[w] = n
      /\ \A x \in Workers \ {w} : worker'[x] = worker[x]
      /\ \A e \in Cells : Crowd!Queueing(e)' = Crowd!Queueing(e) \ {w}
  BY BecameCounts
<1>2. \A e \in Cells : Crowd!Queueing(e)' = Crowd!Queueing(e)
  BY <1>1 DEF Crowd!Queueing
<1>3. CrowdShape'
  BY <1>1 DEF CrowdInv, CrowdShape, Keeps
<1>4. \A x \in Workers : worker'[x].pc \in {"stamp", "queue"} => entry[worker'[x].of].life = "open"
  BY <1>1 DEF CrowdInv, CallsTheOpen
<1>5. QED
  BY <1>2, <1>3, <1>4, QuietCounts

LEMMA WorkerFacts ==
    ASSUME CrowdInv, NEW w \in Workers
    PROVE  /\ {"of", "pc"} \subseteq DOMAIN worker[w] /\ worker[w].of \in Cells
           /\ DOMAIN entry = Cells /\ \A e \in Cells : Keeps(entry[e], entry[e])
BY DEF CrowdInv, CrowdShape, WorkersBare, Keeps

\* One entry changes, and keeps what is counted.
LEMMA SetKeeps ==
    ASSUME CrowdInv, NEW e \in Cells, NEW n, Keeps(entry[e], n), Crowd!Set(e, n)
    PROVE  DOMAIN entry' = Cells /\ \A x \in Cells : Keeps(entry[x], entry'[x])
BY DEF CrowdInv, CrowdShape, Keeps, Crowd!Set

LEMMA TakeJobCounts ==
    ASSUME CrowdInv, NEW w \in Workers, Crowd!TakeJob(w) PROVE CrowdInv'
<1>1. PICK j \in renderings :
        /\ renderings' = renderings \ {j}
        /\ worker' = [worker EXCEPT ![w] = [worker[w] EXCEPT !.pc = "render", !.of = j.of,
                                              !.upgrade = j.upgrade, !.size = entry[j.of].size]]
        /\ worker[w].pc = "idle" /\ UNCHANGED <<entry, images, timers>>
  BY DEF Crowd!TakeJob, Crowd!Become
<1> DEFINE n == [worker[w] EXCEPT !.pc = "render", !.of = j.of,
                                  !.upgrade = j.upgrade, !.size = entry[j.of].size]
<1>2. {"of", "pc"} \subseteq DOMAIN n /\ n.of = j.of /\ n.pc = "render"
  BY WorkerFacts
<1>3. j.of \in Cells
  BY DEF CrowdInv, CrowdShape
<1> HIDE DEF n
<1>4. QED
  BY <1>1, <1>2, <1>3, WorkerFacts, QuietWorker DEF n

LEMMA RestCounts ==
    ASSUME CrowdInv, NEW w \in Workers, Crowd!Rest(w)
    PROVE  \E n : /\ {"of", "pc"} \subseteq DOMAIN n /\ n.of = worker[w].of /\ n.pc = "idle"
                  /\ worker' = [worker EXCEPT ![w] = n]
<1> DEFINE n == [worker[w] EXCEPT !.pc = "idle", !.pic = Crowd!None, !.gen = 0]
<1>1. {"of", "pc"} \subseteq DOMAIN n /\ n.of = worker[w].of /\ n.pc = "idle"
  BY WorkerFacts
<1>2. worker' = [worker EXCEPT ![w] = n]
  BY DEF Crowd!Rest, Crowd!Become
<1> HIDE DEF n
<1>3. QED
  BY <1>1, <1>2

LEMMA RenderCounts ==
    ASSUME CrowdInv, NEW w \in Workers, Crowd!Render(w) PROVE CrowdInv'
<1>1. PICK e \in Cells : e = worker[w].of
  BY WorkerFacts
<1> DEFINE m == [entry[e] EXCEPT !.quick = @ /\ ~ worker[w].upgrade]
<1>2. Keeps(entry[e], m)
  BY BareEntry DEF Keeps, Bare
<1>3. /\ worker[w].pc = "render" /\ UNCHANGED <<renderings, images, timers>>
      /\ Crowd!Set(e, m) \/ UNCHANGED entry
      /\ \E pic : Crowd!Become(w, [worker[w] EXCEPT !.pc = "call", !.pic = pic])
  BY <1>1 DEF Crowd!Render
<1> HIDE DEF m
<1>4. DOMAIN entry' = Cells /\ \A x \in Cells : Keeps(entry[x], entry'[x])
  BY <1>2, <1>3, SetKeeps, WorkerFacts
<1>5. PICK pic : Crowd!Become(w, [worker[w] EXCEPT !.pc = "call", !.pic = pic])
  BY <1>3
<1> DEFINE n == [worker[w] EXCEPT !.pc = "call", !.pic = pic]
<1>6. /\ {"of", "pc"} \subseteq DOMAIN n /\ n.of = worker[w].of /\ n.pc = "call"
      /\ worker' = [worker EXCEPT ![w] = n]
  BY <1>5, WorkerFacts DEF Crowd!Become
<1> HIDE DEF n
<1>7. QED
  BY <1>3, <1>4, <1>6, WorkerFacts, QuietWorker

LEMMA SkipCounts == ASSUME CrowdInv, NEW w \in Workers, Crowd!Skip(w) PROVE CrowdInv'
<1>1. PICK n : /\ {"of", "pc"} \subseteq DOMAIN n /\ n.of = worker[w].of /\ n.pc = "idle"
               /\ worker' = [worker EXCEPT ![w] = n]
  BY RestCounts DEF Crowd!Skip
<1>2. worker[w].pc = "call" /\ UNCHANGED <<entry, renderings, images, timers>>
  BY DEF Crowd!Skip
<1>3. QED
  BY <1>1, <1>2, WorkerFacts, QuietWorker

LEMMA TurnedDownCounts == ASSUME NEW r, Bare(r) PROVE Keeps(r, Crowd!TurnedDown(r))
BY DEF Crowd!TurnedDown, Keeps, Bare

LEMMA UpdateCounts == ASSUME CrowdInv, NEW w \in Workers, Crowd!Update(w) PROVE CrowdInv'
<1>1. PICK e \in Cells : e = worker[w].of
  BY WorkerFacts
<1>2. /\ worker[w].pc = "call" /\ entry[e].life = "open"
      /\ UNCHANGED <<renderings, images, timers>>
      /\ \/ Crowd!Set(e, Crowd!TurnedDown(entry[e])) /\ Crowd!Rest(w)
         \/ Crowd!Become(w, [worker[w] EXCEPT !.pc = "stamp"]) /\ UNCHANGED entry
  BY <1>1 DEF Crowd!Update
<1>3. DOMAIN entry' = Cells /\ \A x \in Cells : Keeps(entry[x], entry'[x])
  BY <1>2, SetKeeps, WorkerFacts, TurnedDownCounts, BareEntry
<1>4. CASE Crowd!Rest(w)
  <2>1. PICK n : /\ {"of", "pc"} \subseteq DOMAIN n /\ n.of = worker[w].of /\ n.pc = "idle"
                 /\ worker' = [worker EXCEPT ![w] = n]
    BY <1>4, RestCounts
  <2>2. QED
    BY <1>2, <1>3, <2>1, WorkerFacts, QuietWorker
<1>5. CASE Crowd!Become(w, [worker[w] EXCEPT !.pc = "stamp"])
  <2> DEFINE n == [worker[w] EXCEPT !.pc = "stamp"]
  <2>1. /\ {"of", "pc"} \subseteq DOMAIN n /\ n.of = worker[w].of /\ n.pc = "stamp"
        /\ worker' = [worker EXCEPT ![w] = n]
    BY <1>5, WorkerFacts DEF Crowd!Become
  <2> HIDE DEF n
  <2>2. QED
    BY <1>1, <1>2, <1>3, <2>1, WorkerFacts, QuietWorker
<1>6. QED
  BY <1>2, <1>4, <1>5

LEMMA StampCounts ==
    ASSUME CrowdInv, IsFiniteSet(Workers), NEW w \in Workers, Crowd!Stamp(w) PROVE CrowdInv'
<1>1. PICK e \in Cells : e = worker[w].of
  BY WorkerFacts
<1> DEFINE r == [entry[e] EXCEPT !.redraws = @ + 1, !.pending = @ + 1, !.gen = @ + 1]
           n == [worker[w] EXCEPT !.pc = "queue", !.gen = r.gen]
<1>2. /\ worker[w].pc = "stamp" /\ UNCHANGED <<renderings, images, timers>>
      /\ entry' = [entry EXCEPT ![e] = r] /\ worker' = [worker EXCEPT ![w] = n]
  BY <1>1 DEF Crowd!Stamp, Crowd!Set, Crowd!Become
<1>3. entry[e].life = "open"
  BY <1>1, <1>2 DEF CrowdInv, CallsTheOpen
<1>4. Bare(r) /\ r.life = "open" /\ r.helper = "live" /\ r.pending = entry[e].pending + 1
  BY <1>3, BareEntry DEF Bare, CrowdInv, HelperSound
<1> HIDE DEF r
<1>5. {"of", "pc"} \subseteq DOMAIN n /\ n.of = e /\ n.pc = "queue"
  BY <1>1, WorkerFacts
<1> HIDE DEF n
<1>6. /\ WorkersBare' /\ worker'[w] = n
      /\ \A x \in Workers \ {w} : worker'[x] = worker[x]
      /\ Crowd!Queueing(e)' = Crowd!Queueing(e) \cup {w}
      /\ \A x \in Cells \ {e} : Crowd!Queueing(x)' = Crowd!Queueing(x) \ {w}
  <2>1. n.of \in Cells /\ worker' = [worker EXCEPT ![w] = n]
    BY <1>2, <1>5, Zenon
  <2>2. /\ WorkersBare' /\ worker'[w] = n
        /\ \A x \in Workers \ {w} : worker'[x] = worker[x]
        /\ \A x \in Cells : Crowd!Queueing(x)' =
              IF n.of = x /\ n.pc = "queue" THEN Crowd!Queueing(x) \cup {w}
                                            ELSE Crowd!Queueing(x) \ {w}
    BY <1>5, <2>1, BecameCounts, Zenon
  <2>3. QED
    BY <1>5, <2>2
<1>7. \A x \in Cells : w \notin Crowd!Queueing(x)
  BY <1>2 DEF Crowd!Queueing
<1>8. Cardinality(Crowd!Queueing(e)') = Cardinality(Crowd!Queueing(e)) + 1
  BY <1>6, <1>7, RefsFacts, FS_AddElement
<1>9. \A x \in Cells \ {e} : Crowd!Queueing(x)' = Crowd!Queueing(x)
  BY <1>6, <1>7
<1>10. \A x \in Cells \ {e} : Refs(x)' = Refs(x)
  BY <1>2, <1>9 DEF Refs
<1>11. r.pending = Refs(e)'
  BY <1>2, <1>4, <1>8, RefsFacts DEF Refs
<1>12. HelperSound(r)
  BY <1>4 DEF HelperSound
<1>13. /\ Listed(images)' /\ Listed(timers)' /\ \A j \in renderings' : j.of \in Cells
  BY <1>2 DEF CrowdInv, CrowdShape, Listed
<1>14. \A x \in Workers : worker'[x].pc \in {"stamp", "queue"} =>
                              entry[worker'[x].of].life = "open"
  BY <1>3, <1>5, <1>6 DEF CrowdInv, CallsTheOpen
<1>15. QED
  BY <1>2, <1>3, <1>4, <1>6, <1>10, <1>11, <1>12, <1>13, <1>14, CountedStep

LEMMA QueueUpdateCounts ==
    ASSUME CrowdInv, IsFiniteSet(Workers), NEW w \in Workers, Crowd!QueueUpdate(w)
    PROVE  CrowdInv'
<1>1. PICK e \in Cells : e = worker[w].of
  BY WorkerFacts
<1> DEFINE u == [of |-> e, size |-> worker[w].size, pic |-> worker[w].pic,
                 gen |-> worker[w].gen, visible |-> entry[e].visible]
           m == IF Crowd!Waits(images, e) THEN Crowd!Discard(entry[e]) ELSE entry[e]
<1>2. /\ worker[w].pc = "queue" /\ UNCHANGED <<renderings, timers>>
      /\ entry' = [entry EXCEPT ![e] = m] /\ Crowd!Put(u) /\ Crowd!Rest(w)
  BY <1>1 DEF Crowd!QueueUpdate, Crowd!Set
<1>3. u.of = e
  OBVIOUS
<1> HIDE DEF u
<1>4. PICK n : /\ {"of", "pc"} \subseteq DOMAIN n /\ n.of = e /\ n.pc = "idle"
               /\ worker' = [worker EXCEPT ![w] = n]
  BY <1>1, <1>2, RestCounts
<1>5. /\ WorkersBare' /\ worker'[w] = n
      /\ \A x \in Workers \ {w} : worker'[x] = worker[x]
      /\ \A x \in Cells : Crowd!Queueing(x)' = Crowd!Queueing(x) \ {w}
  BY <1>4, BecameCounts
<1>6. w \in Crowd!Queueing(e) /\ \A x \in Cells \ {e} : w \notin Crowd!Queueing(x)
  BY <1>1, <1>2 DEF Crowd!Queueing
<1>7. Cardinality(Crowd!Queueing(e)') = Cardinality(Crowd!Queueing(e)) - 1
  BY <1>5, <1>6, RefsFacts, FS_RemoveElement
<1>8. \A x \in Cells \ {e} : Crowd!Queueing(x)' = Crowd!Queueing(x)
  BY <1>5, <1>6
<1>9. Cardinality(Crowd!Queueing(e)') \in Nat
  BY <1>5, RefsFacts, FS_RemoveElement, FS_CardinalityType
<1>10. entry[e].pending \in Nat /\ entry[e].pending > 0
  BY <1>7, <1>9, RefsFacts DEF Refs
<1>11. /\ Bare(m) /\ HelperSound(m) /\ m.life = entry[e].life
       /\ m.pending = IF Crowd!Waits(images, e) THEN entry[e].pending - 1 ELSE entry[e].pending
  BY <1>10, BareEntry, DiscardCounts DEF CrowdInv
<1> HIDE DEF m
<1>12. Listed(images)
  BY DEF CrowdInv, CrowdShape
<1>13. /\ Listed(images')
       /\ \A x \in Cells \ {e} : Crowd!CountOf(images', x) = Crowd!CountOf(images, x)
       /\ Crowd!CountOf(images', e)
            = IF Crowd!Waits(images, e) THEN Crowd!CountOf(images, e)
              ELSE Crowd!CountOf(images, e) + 1
  BY <1>2, <1>3, <1>12, CountPut
<1>14. \A x \in Cells \ {e} : Refs(x)' = Refs(x)
  BY <1>2, <1>8, <1>13 DEF Refs
<1>15. m.pending = Refs(e)'
  BY <1>2, <1>7, <1>11, <1>13, RefsFacts DEF Refs
<1>16. /\ Listed(timers)' /\ \A j \in renderings' : j.of \in Cells
  BY <1>2 DEF CrowdInv, CrowdShape, Listed
<1>17. \A x \in Workers : worker'[x].pc \in {"stamp", "queue"} =>
                              entry[worker'[x].of].life = "open"
  BY <1>4, <1>5 DEF CrowdInv, CallsTheOpen
<1>18. QED
  BY <1>2, <1>5, <1>11, <1>13, <1>14, <1>15, <1>16, <1>17, CountedStep

LEMMA UpdateFailedCounts ==
    ASSUME CrowdInv, IsFiniteSet(Workers), NEW w \in Workers, Crowd!UpdateFailed(w)
    PROVE  CrowdInv'
<1>1. PICK e \in Cells : e = worker[w].of
  BY WorkerFacts
<1> DEFINE r == Crowd!TurnedDown(entry[e])
<1>2. /\ worker[w].pc = "call" /\ UNCHANGED <<renderings, images>> /\ Crowd!Rest(w)
      /\ \/ Crowd!Set(e, r) /\ UNCHANGED timers
         \/ Crowd!Set(e, [r EXCEPT !.retries = 0]) /\ UNCHANGED timers
         \/ Crowd!RetryLater(e, r)
      /\ r.life = "open"
  BY <1>1 DEF Crowd!UpdateFailed
<1>3. Keeps(entry[e], r)
  BY BareEntry, TurnedDownCounts
<1> HIDE DEF r
<1>4. PICK n : /\ {"of", "pc"} \subseteq DOMAIN n /\ n.of = e /\ n.pc = "idle"
               /\ worker' = [worker EXCEPT ![w] = n]
  BY <1>1, <1>2, RestCounts
<1>5. CASE UNCHANGED timers
  <2>1. \E m : Keeps(entry[e], m) /\ Crowd!Set(e, m)
    <3>1. \A k : Keeps(entry[e], [r EXCEPT !.retries = k])
      BY <1>3 DEF Keeps, Bare
    <3>2. CASE Crowd!RetryLater(e, r) /\ r.retries < MaxRetries
      <4>1. timers' = Append(timers, [of |-> e, gen |-> r.retryGen])
        BY <3>2 DEF Crowd!RetryLater
      <4>2. PICK S : timers \in Seq(S)
        BY DEF CrowdInv, CrowdShape, Listed
      <4>3. Len(timers') = Len(timers) + 1 /\ Len(timers) \in Nat
        BY <4>1, <4>2
      <4>4. QED
        BY <1>5, <4>3
    <3>3. CASE Crowd!RetryLater(e, r) /\ ~ (r.retries < MaxRetries)
      <4>1. Crowd!Set(e, [r EXCEPT !.retries = MaxRetries + 1])
        BY <3>3 DEF Crowd!RetryLater
      <4>2. QED
        BY <3>1, <4>1
    <3>4. QED
      BY <1>2, <1>3, <3>1, <3>2, <3>3
  <2>2. DOMAIN entry' = Cells /\ \A x \in Cells : Keeps(entry[x], entry'[x])
    BY <2>1, SetKeeps
  <2>3. QED
    BY <1>2, <1>4, <1>5, <2>2, QuietWorker
<1>6. CASE ~ UNCHANGED timers
  <2> DEFINE m == [r EXCEPT !.retries = @ + 1, !.pending = @ + 1]
             t == [of |-> e, gen |-> r.retryGen]
  <2>1. /\ entry' = [entry EXCEPT ![e] = m]
        /\ timers' = Append(timers, t)
    BY <1>2, <1>6 DEF Crowd!RetryLater, Crowd!Set
  <2>2. t.of = e
    OBVIOUS
  <2>3. Bare(m) /\ m.life = "open" /\ m.helper = "live" /\ m.pending = entry[e].pending + 1
    BY <1>2, <1>3 DEF Keeps, Bare, CrowdInv, HelperSound
  <2> HIDE DEF m, t
  <2>4. PICK S : timers \in Seq(S)
    BY DEF CrowdInv, CrowdShape, Listed
  <2>5. Listed(timers)
    BY DEF CrowdInv, CrowdShape
  <2>6. Listed(Append(timers, t))
    BY <2>2, <2>5, AppendListed
  <2>7. \A x : /\ t.of = x => Crowd!CountOf(Append(timers, t), x) = Crowd!CountOf(timers, x) + 1
               /\ t.of # x => Crowd!CountOf(Append(timers, t), x) = Crowd!CountOf(timers, x)
    BY <2>4, CountAppend
  <2>8. \A x \in Cells : w \notin Crowd!Queueing(x)
    BY <1>2 DEF Crowd!Queueing
  <2>9. /\ WorkersBare' /\ worker'[w] = n
        /\ \A x \in Workers \ {w} : worker'[x] = worker[x]
        /\ \A x \in Cells : Crowd!Queueing(x)' = Crowd!Queueing(x) \ {w}
    BY <1>4, BecameCounts
  <2>10. \A x \in Cells : Crowd!Queueing(x)' = Crowd!Queueing(x)
    BY <2>8, <2>9
  <2>11. \A x \in Cells \ {e} : Refs(x)' = Refs(x)
    BY <1>2, <2>1, <2>2, <2>7, <2>10 DEF Refs
  <2>12. m.pending = Refs(e)'
    BY <1>2, <2>1, <2>2, <2>3, <2>7, <2>10, RefsFacts DEF Refs
  <2>13. HelperSound(m) /\ m.life = entry[e].life
    BY <1>2, <1>3, <2>3 DEF HelperSound, Keeps
  <2>14. Listed(images)' /\ Listed(timers)' /\ \A j \in renderings' : j.of \in Cells
    BY <1>2, <2>1, <2>6 DEF CrowdInv, CrowdShape, Listed
  <2>15. \A x \in Workers : worker'[x].pc \in {"stamp", "queue"} =>
                                entry[worker'[x].of].life = "open"
    BY <1>4, <2>9 DEF CrowdInv, CallsTheOpen
  <2>16. QED
    BY <2>1, <2>3, <2>9, <2>11, <2>12, <2>13, <2>14, <2>15, CountedStep
<1>7. QED
  BY <1>5, <1>6

\* At first nobody refers to an entry.
LEMMA CrowdInit ==
    ASSUME Crowd!EntryAssumption, Crowd!Init PROVE CrowdInv
<1>1. PICK seen \in SUBSET Cells :
        entry = [e \in Cells |->
            [life |-> "open", params |-> 1, quick |-> e \in RawCells,
             size |-> Crowd!First, preview |-> [size |-> Crowd!First, pic |-> Crowd!None],
             slots |-> Crowd!NoSlots, lazy |-> FALSE, live |-> FALSE, gen |-> 0,
             retries |-> 0, retryGen |-> 0, visible |-> e \in seen,
             redraws |-> 0, pending |-> 0, helper |-> "live"]]
  BY DEF Crowd!Init
<1>2. /\ DOMAIN entry = Cells
      /\ \A e \in Cells : /\ Bare(entry[e]) /\ entry[e].pending = 0
                          /\ entry[e].life = "open" /\ entry[e].helper = "live"
  BY <1>1 DEF Bare
<1>3. WorkersBare /\ \A w \in Workers : worker[w].pc = "idle"
  BY DEF Crowd!Init, WorkersBare, Crowd!EntryAssumption
<1>4. renderings = {} /\ images = <<>> /\ timers = <<>>
  BY DEF Crowd!Init
<1>5. \A e \in Cells : Refs(e) = 0
  <2> TAKE e \in Cells
  <2>1. PlacesOf(<<>>, e) = {} /\ Crowd!Queueing(e) = {}
    BY <1>3 DEF PlacesOf, Crowd!Queueing
  <2>2. Crowd!CountOf(<<>>, e) = 0
    BY <2>1, CountIs, FS_EmptySet
  <2>3. Cardinality(Crowd!Queueing(e)) = 0
    BY <2>1, FS_EmptySet
  <2>4. QED
    BY <1>4, <2>2, <2>3 DEF Refs
<1>6. Listed(<<>>)
  BY DEF Listed
<1>7. QED
  BY <1>2, <1>3, <1>4, <1>5, <1>6 DEF CrowdInv, CrowdShape, CallsTheOpen, HelperSound

LEMMA CrowdStep ==
    ASSUME CrowdInv, Crowd!EntryAssumption, [Crowd!Next]_(Crowd!vars) PROVE CrowdInv'
<1>1. IsFiniteSet(Workers)
  BY DEF Crowd!EntryAssumption, Crowd!IsFiniteSet, IsFiniteSet
<1>2. CASE Crowd!UserStep
  <2>1. CASE \E e \in Cells : Crowd!Edit(e) \/ Crowd!EditorEdit(e) \/ Crowd!LivePreview(e)
    BY <2>1, EditCounts, EditorEditCounts, LivePreviewCounts
  <2>2. CASE \E e \in Cells : Crowd!HoverShow(e) \/ Crowd!HoverApply(e)
    BY <1>1, <2>2, HoverShowCounts, HoverApplyCounts
  <2>3. CASE \E e \in Cells : Crowd!Scroll(e) \/ Crowd!Delete(e)
    BY <1>1, <2>3, ScrollCounts, DeleteCounts
  <2>4. CASE \E s \in Sizes : Crowd!Resize(s)
    BY <2>4, ResizeCounts
  <2>5. CASE Crowd!Pause
    BY <2>5, StillCounts DEF Crowd!Pause
  <2>6. QED
    BY <1>2, <2>1, <2>2, <2>3, <2>4, <2>5 DEF Crowd!UserStep
<1>3. CASE Crowd!Resume
  BY <1>3, StillCounts DEF Crowd!Resume
<1>4. CASE Crowd!Draw \/ Crowd!Drain \/ Crowd!Retry
  BY <1>1, <1>4, DrawCounts, DrainCounts, RetryCounts
<1>5. CASE \E e \in Cells : Crowd!HoverEnd(e) \/ Crowd!ApplyEdit(e)
  BY <1>5, HoverEndCounts, ApplyEditCounts
<1>6. ASSUME NEW w \in Workers, Crowd!WorkerStep(w) PROVE CrowdInv'
  BY <1>1, <1>6, TakeJobCounts, RenderCounts, SkipCounts, UpdateCounts, StampCounts,
     QueueUpdateCounts, UpdateFailedCounts DEF Crowd!WorkerStep
<1>7. CASE UNCHANGED Crowd!vars
  BY <1>7, StillCounts DEF Crowd!vars
<1>8. QED
  BY <1>2, <1>3, <1>4, <1>5, <1>6, <1>7 DEF Crowd!Next

\* While the crowd acts, it has the invariant.
Counted == acts = "crowd" => CrowdInv

\* The helper that stands between an entry and what is on its way to it is
\* freed once: by the last update, timer or callback that refers to it, whoever
\* deletes the entry and when, however many workers render and fail.
THEOREM HelpersAreCounted == AllSpec => []HelperIsCounted
<1>1. AllInit => Counted
  BY CellsAssumed, CrowdInit DEF AllInit, Counted
<1>2. ASSUME Counted, [AllNext]_<<acts, vars, cellVars, previewVars>> PROVE Counted'
  <2>1. acts' = acts
    BY <1>2 DEF AllNext
  <2>2. CASE acts # "crowd"
    BY <2>1, <2>2 DEF Counted
  <2>3. CASE acts = "crowd"
    <3>1. [Crowd!Next]_(Crowd!vars)
      BY <1>2, <2>3 DEF AllNext, cellVars, Crowd!vars, Crowd!past
    <3>2. CrowdInv'
      BY <1>2, <2>3, <3>1, CellsAssumed, CrowdStep DEF Counted
    <3>3. QED
      BY <3>2 DEF Counted
  <2>4. QED
    BY <2>2, <2>3
<1>3. Counted => HelperIsCounted
  <2>1. ASSUME CrowdInv, NEW e \in Cells
        PROVE  /\ entry[e].pending = Crowd!CountOf(images, e) + Crowd!CountOf(timers, e)
                                     + Crowd!Cardinality(Crowd!Queueing(e))
               /\ entry[e].life = "deleted" =>
                      (entry[e].helper = "freed" <=> entry[e].pending = 0)
    <3>1. Crowd!Cardinality(Crowd!Queueing(e)) = Cardinality(Crowd!Queueing(e))
      BY CrowdCardinality
    <3>2. QED
      BY <2>1, <3>1 DEF CrowdInv, Refs, HelperSound
  <2>2. QED
    BY <2>1 DEF Counted, HelperIsCounted, Crowd!HelperIsCounted
<1>4. QED
  BY <1>1, <1>2, <1>3, PTL DEF AllSpec

===============================================================================
