----------------------------- MODULE LocksProofs -----------------------------
(***************************************************************************)
(* Proofs about the two instances of MCLocks: RWMutex, for any finite set  *)
(* of lock objects and threads; and DetailWindows, for any finite set of   *)
(* windows and any number of edits and moves, opened and closed at any     *)
(* time.  ~Crop() erases from the vector of crops under no lock a pass     *)
(* holds: what a pass reaches is claimed until that has happened while a   *)
(* pass walked the vector (cutShort).                                      *)
(***************************************************************************)
EXTENDS MCLocks, FiniteSetTheorems, SequenceTheorems, TLAPS

\* A free lock has both counters at 0, one held by readers has readerCount at
\* their number, one held by a writer has readerCount at 0.
LEMMA Counting ==
    ASSUME IInv
    PROVE  /\ IsFiniteSet(locked \cap AllReaders)
           /\ readerCount = 0 <=> locked \cap AllReaders = {}
           /\ writerCount = 0 <=> locked = {}
           /\ writerCount \in {0, 1}
           /\ readerCount \in Nat
           /\ locked \cap AllReaders # {} => locked \cap AllWriters = {}
           /\ locked = (locked \cap AllReaders) \cup (locked \cap AllWriters)
<1>1. locked \cap AllReaders \subseteq Locks
  BY DEF IInv, TypeOK
<1>2. IsFiniteSet(locked \cap AllReaders)
  BY <1>1, FS_Subset, RWAssumption
<1>3. readerCount = 0 <=> locked \cap AllReaders = {}
  BY <1>2, FS_EmptySet DEF IInv, CountersAgree
<1>4. /\ writerCount = 0 <=> locked = {}
      /\ writerCount \in {0, 1}
      /\ readerCount \in Nat
  BY DEF IInv, CountersAgree, TypeOK
<1>5. locked \cap AllReaders # {} => locked \cap AllWriters = {}
  BY RWAssumption DEF IInv, Exclusion
<1>6. locked = (locked \cap AllReaders) \cup (locked \cap AllWriters)
  BY DEF IInv, TypeOK, Locks
<1>7. QED
  BY <1>2, <1>3, <1>4, <1>5, <1>6

\* A lock object that becomes a reader finds no writer.
LEMMA ReaderJoins ==
    ASSUME IInv, NEW l \in AllReaders, l \notin locked, BecomeReader(l)
    PROVE  /\ locked \cap AllWriters = {}
           /\ locked' = locked \cup {l}
           /\ locked' \subseteq Locks
           /\ writerCount' \in Nat /\ readerCount' \in Nat
           /\ Exclusion' /\ CountersAgree'
<1>1. locked \cap AllWriters = {}
  BY Counting DEF BecomeReader
<1>2. locked' = locked \cup {l} /\ l \in Locks /\ l \notin AllWriters
  BY RWAssumption DEF BecomeReader, Locks
<1>3. locked' \subseteq Locks /\ locked' \cap AllWriters = {}
  BY <1>1, <1>2 DEF IInv, TypeOK
<1>4. Exclusion'
  BY <1>3 DEF Exclusion
<1>5. locked' \cap AllReaders = (locked \cap AllReaders) \cup {l}
  BY <1>2
<1>6. Cardinality(locked' \cap AllReaders)
         = Cardinality(locked \cap AllReaders) + 1
  BY <1>5, Counting, FS_AddElement
<1>7. readerCount' = Cardinality(locked' \cap AllReaders)
  BY <1>6 DEF BecomeReader, IInv, CountersAgree
<1>8. writerCount' = 1 /\ readerCount' \in Nat
  BY Counting DEF BecomeReader
<1>9. CountersAgree'
  BY <1>2, <1>7, <1>8 DEF CountersAgree
<1>10. QED
  BY <1>1, <1>2, <1>3, <1>4, <1>8, <1>9

\* A lock object that becomes a writer finds nobody.
LEMMA WriterEnters ==
    ASSUME IInv, NEW l \in AllWriters, BecomeWriter(l)
    PROVE  /\ locked = {}
           /\ locked' = {l}
           /\ locked' \subseteq Locks
           /\ writerCount' \in Nat /\ readerCount' \in Nat
           /\ Exclusion' /\ CountersAgree'
<1>1. locked = {}
  BY Counting DEF BecomeWriter
<1>2. locked' = {l} /\ l \in Locks /\ l \notin AllReaders
  BY <1>1, RWAssumption DEF BecomeWriter, Locks
<1>3. locked' \cap AllReaders = locked \cap AllReaders
  BY <1>1, <1>2
<1>4. CountersAgree'
  BY <1>2, <1>3 DEF CountersAgree, BecomeWriter, IInv
<1>5. writerCount' \in Nat /\ readerCount' \in Nat
  BY Counting DEF BecomeWriter
<1>6. QED
  BY <1>1, <1>2, <1>4, <1>5 DEF Exclusion

-----------------------------------------------------------------------------

\* A call that enters keeps the invariant: the thread that makes it waits for
\* nothing.
LEMMA EnteringKeepsInv ==
    ASSUME IInv, NEW l \in Locks, l \notin locked,
           \/ l \in AllReaders /\ BecomeReader(l)
           \/ l \in AllWriters /\ BecomeWriter(l),
           \/ /\ Mates(l) \cap waiting = {}
              /\ UNCHANGED <<waiting, asleep>>
           \/ /\ l \in waiting \ asleep
              /\ waiting' = waiting \ {l}
              /\ UNCHANGED asleep
    PROVE  IInv'
<1>1. /\ locked' = locked \cup {l}
      /\ locked' \subseteq Locks
      /\ writerCount' \in Nat /\ readerCount' \in Nat
      /\ Exclusion' /\ CountersAgree'
  BY ReaderJoins, WriterEnters DEF BecomeReader, BecomeWriter
<1>2. /\ waiting' \subseteq waiting
      /\ asleep' = asleep /\ asleep \subseteq waiting'
      /\ Mates(l) \cap waiting' = {}
  BY DEF IInv, TypeOK, OneWaitPerThread
<1>3. TypeOK'
  BY <1>1, <1>2 DEF TypeOK, IInv
<1>4. NoLostWakeup'
  BY <1>1 DEF NoLostWakeup
<1>5. ASSUME NEW m \in waiting' PROVE Mates(m) \cap locked' = {}
  <2>1. Mates(m) \cap locked = {}
    BY <1>2 DEF IInv, NobodyWaitsForItself
  <2>2. m \in Locks
    BY <1>2 DEF IInv, TypeOK, Locks, AllReaders, AllWriters
  <2>3. l \notin Mates(m)
    BY <1>2, <2>2 DEF Mates
  <2>4. QED
    BY <2>1, <2>3, <1>1
<1>6. NobodyWaitsForItself'
  BY <1>5 DEF NobodyWaitsForItself, Mates
<1>7. OneWaitPerThread'
  BY <1>2 DEF OneWaitPerThread, IInv, Mates
<1>8. QED
  BY <1>1, <1>3, <1>4, <1>6, <1>7 DEF IInv

\* A call that has to wait keeps the invariant: somebody holds the lock, and it
\* is nobody of the same thread.
LEMMA WaitingKeepsInv ==
    ASSUME IInv, NEW l \in ReaderLocks \cup WriterLocks,
           locked # {}, Mates(l) \cap locked = {}, Mates(l) \cap waiting = {},
           waiting' = waiting \cup {l}, asleep' = asleep \cup {l},
           UNCHANGED <<writerCount, readerCount, locked>>
    PROVE  IInv'
<1>0. l \in Locks
  BY DEF Locks, AllReaders, AllWriters
<1>1. TypeOK' /\ Exclusion' /\ CountersAgree' /\ NoLostWakeup'
  BY DEF IInv, TypeOK, Exclusion, CountersAgree, NoLostWakeup
<1>2. NobodyWaitsForItself'
  BY DEF IInv, NobodyWaitsForItself, Mates
<1>3. OneWaitPerThread'
  <2>1. ASSUME NEW m \in waiting' PROVE Mates(m) \cap waiting' = {m}
    <3>1. CASE m = l
      BY <3>1, <1>0 DEF Mates
    <3>2. CASE m # l
      <4>1. m \in waiting /\ m \in Locks
        BY <3>2 DEF IInv, TypeOK, Locks, AllReaders, AllWriters
      <4>2. l \notin Mates(m)
        BY <4>1 DEF Mates
      <4>3. Mates(m) \cap waiting = {m}
        BY <4>1 DEF IInv, OneWaitPerThread
      <4>4. QED
        BY <4>2, <4>3
    <3>3. QED BY <3>1, <3>2
  <2>2. QED
    BY <2>1 DEF OneWaitPerThread, Mates
<1>4. QED
  BY <1>1, <1>2, <1>3 DEF IInv

\* Going to sleep again, and waking up, keep the invariant.
LEMMA SleepingKeepsInv ==
    ASSUME IInv, NEW l \in Locks, Retry(l) \/ SpuriousWakeup(l)
    PROVE  IInv'
<1>1. /\ UNCHANGED <<writerCount, readerCount, locked, waiting>>
      /\ asleep' \subseteq waiting
  BY DEF Retry, SpuriousWakeup, IInv, TypeOK
<1>2. NoLostWakeup'
  BY Counting DEF Retry, SpuriousWakeup, NoLostWakeup, IInv
<1>3. QED
  BY <1>1, <1>2 DEF IInv, TypeOK, Exclusion, CountersAgree,
     NobodyWaitsForItself, OneWaitPerThread, Mates

\* Whoever leaves last wakes the others.
LEMMA ReleaseKeepsInv == ASSUME IInv, NEW l \in Locks, Release(l) PROVE IInv'
<1>1. /\ locked' = locked \ {l} /\ waiting' = waiting
      /\ asleep' \subseteq waiting
      /\ l \in locked
  BY DEF Release, ReadRelease, WriteRelease, NotifyAll, IInv, TypeOK
<1>2. Exclusion' /\ NobodyWaitsForItself' /\ OneWaitPerThread'
  BY <1>1 DEF IInv, Exclusion, NobodyWaitsForItself, OneWaitPerThread, Mates
<1>3. /\ writerCount' \in Nat /\ readerCount' \in Nat
      /\ CountersAgree' /\ NoLostWakeup'
  <2>1. CASE ReadRelease(l)
    <3>1. l \in AllReaders /\ readerCount' = readerCount - 1
      BY <2>1 DEF ReadRelease
    <3>2. locked' \cap AllReaders = (locked \cap AllReaders) \ {l}
      BY <1>1
    <3>3. Cardinality(locked' \cap AllReaders)
             = Cardinality(locked \cap AllReaders) - 1
      BY <1>1, <3>1, <3>2, Counting, FS_RemoveElement
    <3>4. /\ readerCount \in Nat \ {0} /\ writerCount = 1
          /\ readerCount' = Cardinality(locked' \cap AllReaders)
      BY <1>1, <3>1, <3>3, Counting DEF IInv, CountersAgree
    <3>5. locked' = locked' \cap AllReaders
      BY <1>1, <3>1, Counting
    <3>6. readerCount' = 0 <=> locked' = {}
      <4>1. IsFiniteSet(locked' \cap AllReaders)
        BY <3>2, Counting, FS_Subset
      <4>2. QED
        BY <3>4, <3>5, <4>1, FS_EmptySet
    <3>7. CASE readerCount = 1
      BY <3>1, <3>4, <3>6, <3>7, <2>1
         DEF ReadRelease, LastReader, NotifyAll, CountersAgree, NoLostWakeup
    <3>8. CASE readerCount # 1
      BY <3>1, <3>4, <3>6, <3>8, <2>1
         DEF ReadRelease, LastReader, CountersAgree, NoLostWakeup
    <3>9. QED BY <3>7, <3>8
  <2>2. CASE WriteRelease(l)
    <3>1. /\ locked = {l} /\ locked' = {} /\ writerCount = 1
          /\ readerCount = 0 /\ l \notin AllReaders
      BY <2>2, <1>1, Counting, RWAssumption
         DEF WriteRelease, IInv, Exclusion
    <3>2. writerCount' = 0 /\ readerCount' = 0 /\ asleep' = {}
      BY <3>1, <2>2 DEF WriteRelease, NotifyAll
    <3>3. Cardinality(locked' \cap AllReaders) = 0
      BY <3>1, FS_EmptySet
    <3>4. QED
      BY <3>1, <3>2, <3>3 DEF CountersAgree, NoLostWakeup
  <2>3. QED BY <2>1, <2>2 DEF Release
<1>4. TypeOK'
  BY <1>1, <1>3 DEF IInv, TypeOK
<1>5. QED
  BY <1>2, <1>3, <1>4 DEF IInv

\* A reader that has to wait finds a writer, of another thread.
LEMMA ReadWaitKeepsInv ==
    ASSUME IInv, NEW l \in ReaderLocks, ReadWait(l) PROVE IInv'
<1>1. locked # {} /\ locked \cap AllReaders = {}
  BY Counting DEF ReadWait, MustWaitToRead
<1>2. Mates(l) \cap locked = {}
  BY <1>1, Counting DEF ReadWait, MayWaitToRead
<1>3. QED
  BY <1>1, <1>2, WaitingKeepsInv DEF ReadWait, MayWaitToRead, CanCall

LEMMA WriteWaitKeepsInv ==
    ASSUME IInv, NEW l \in WriterLocks, WriteWait(l) PROVE IInv'
<1>1. locked # {} /\ Mates(l) \cap locked = {}
  BY Counting DEF WriteWait, MayWaitToWrite
<1>2. QED
  BY <1>1, WaitingKeepsInv DEF WriteWait, MayWaitToWrite, CanCall

-----------------------------------------------------------------------------

\* The invariant of the lock: MyRWMutex keeps its counters right, never lets a
\* reader and a writer in together and never loses a wake-up, for any number of
\* threads and lock objects.
THEOREM Invariance == Spec => []IInv
<1>1. Init => IInv
  BY FS_EmptySet DEF Init, IInv, TypeOK, Exclusion, CountersAgree,
     NoLostWakeup, NobodyWaitsForItself, OneWaitPerThread
<1>2. ASSUME IInv, [Next]_vars PROVE IInv'
  <2> USE <1>2
  <2> USE DEF AllReaders, AllWriters, Locks
  <2>1. ASSUME NEW l \in ReaderLocks, ReadAcquire(l) PROVE IInv'
    BY <2>1, EnteringKeepsInv DEF ReadAcquire, MayWaitToRead, CanCall
  <2>2. ASSUME NEW l \in TryReaderLocks, TryRead(l) PROVE IInv'
    BY <2>2, EnteringKeepsInv DEF TryRead, CanCall
  <2>3. ASSUME NEW l \in WriterLocks, WriteAcquire(l) PROVE IInv'
    BY <2>3, EnteringKeepsInv DEF WriteAcquire, MayWaitToWrite, CanCall
  <2>4. ASSUME NEW l \in TryWriterLocks, TryWrite(l) PROVE IInv'
    BY <2>4, EnteringKeepsInv DEF TryWrite, CanCall
  <2>5. ASSUME NEW l \in Locks, ReadWoken(l) \/ WriteWoken(l) PROVE IInv'
    <3>1. l \notin locked
      BY <2>5 DEF ReadWoken, WriteWoken, IInv, NobodyWaitsForItself, Mates
    <3>2. QED
      BY <2>5, <3>1, EnteringKeepsInv DEF ReadWoken, WriteWoken
  <2>6. ASSUME UNCHANGED vars PROVE IInv'
    BY <2>6 DEF vars, IInv, TypeOK, Exclusion, CountersAgree, NoLostWakeup,
       NobodyWaitsForItself, OneWaitPerThread, Mates
  <2>7. QED
    BY <2>1, <2>2, <2>3, <2>4, <2>5, <2>6, ReadWaitKeepsInv,
       WriteWaitKeepsInv, SleepingKeepsInv, ReleaseKeepsInv
       DEF Next, Calls, WakeUp
<1>3. QED
  BY <1>1, <1>2, PTL DEF Spec

\* A writer is alone.
THEOREM WritersAreAlone == Spec => []Exclusion
<1>1. IInv => Exclusion
  BY DEF IInv
<1>2. QED
  BY <1>1, Invariance, PTL

\* No thread sleeps while the lock is free.
THEOREM NobodyOversleeps == Spec => []NoLostWakeup
<1>1. IInv => NoLostWakeup
  BY DEF IInv
<1>2. QED
  BY <1>1, Invariance, PTL

\* No thread waits for a lock that it holds itself: nested read locks never
\* block.
THEOREM NestedReadersPass == Spec => []NobodyWaitsForItself
<1>1. IInv => NobodyWaitsForItself
  BY DEF IInv
<1>2. QED
  BY <1>1, Invariance, PTL

-----------------------------------------------------------------------------

\* MyRWMutex is a reader/writer lock: each section under the internal mutex is
\* a step of the promise or leaves both sets of holders alone.
THEOREM RWMutexImplementsLock == Spec => ImplementsLock
<1>1. Init => Promise!Init
  BY DEF Init, Promise!Init
<1>2. ASSUME IInv, [Next]_vars PROVE [Promise!Next]_Promise!vars
  <2> USE <1>2
  <2>1. ASSUME NEW l \in AllReaders, l \notin locked, BecomeReader(l)
        PROVE  Promise!StartReading(l)
    BY <2>1, ReaderJoins, RWAssumption DEF Promise!StartReading
  <2>2. ASSUME NEW l \in AllWriters, BecomeWriter(l)
        PROVE  Promise!StartWriting(l)
    BY <2>2, WriterEnters, RWAssumption DEF Promise!StartWriting
  <2>3. ASSUME NEW l \in Locks, ReadRelease(l) PROVE Promise!StopReading(l)
    BY <2>3, RWAssumption DEF ReadRelease, Promise!StopReading
  <2>4. ASSUME NEW l \in Locks, WriteRelease(l) PROVE Promise!StopWriting(l)
    BY <2>4, RWAssumption DEF WriteRelease, Promise!StopWriting
  <2>5. ASSUME UNCHANGED locked PROVE UNCHANGED Promise!vars
    BY <2>5 DEF Promise!vars
  <2>6. ASSUME Calls PROVE [Promise!Next]_Promise!vars
    <3>1. ASSUME NEW l \in ReaderLocks \cup TryReaderLocks,
                 ReadAcquire(l) \/ TryRead(l)
          PROVE  Promise!StartReading(l)
      BY <3>1, <2>1 DEF ReadAcquire, TryRead, MayWaitToRead, CanCall,
         AllReaders
    <3>2. ASSUME NEW l \in WriterLocks \cup TryWriterLocks,
                 WriteAcquire(l) \/ TryWrite(l)
          PROVE  Promise!StartWriting(l)
      BY <3>2, <2>2 DEF WriteAcquire, TryWrite, AllWriters
    <3>3. ASSUME NEW l, ReadWait(l) \/ WriteWait(l) PROVE UNCHANGED locked
      BY <3>3 DEF ReadWait, WriteWait
    <3>4. QED
      BY <2>6, <2>5, <3>1, <3>2, <3>3
         DEF Calls, Promise!Next, Locks, AllReaders, AllWriters
  <2>7. ASSUME NEW l \in Locks, WakeUp(l) \/ SpuriousWakeup(l)
        PROVE  [Promise!Next]_Promise!vars
    <3>1. CASE ReadWoken(l)
      <4>1. l \in AllReaders /\ l \notin locked
        BY <3>1 DEF ReadWoken, AllReaders, IInv, NobodyWaitsForItself, Mates
      <4>2. QED
        BY <3>1, <4>1, <2>1 DEF ReadWoken, Promise!Next
    <3>2. CASE WriteWoken(l)
      BY <3>2, <2>2 DEF WriteWoken, AllWriters, Promise!Next
    <3>3. CASE Retry(l) \/ SpuriousWakeup(l)
      BY <3>3, <2>5 DEF Retry, SpuriousWakeup
    <3>4. QED
      BY <2>7, <3>1, <3>2, <3>3 DEF WakeUp
  <2>8. ASSUME UNCHANGED vars PROVE UNCHANGED Promise!vars
    BY <2>8, <2>5 DEF vars
  <2>9. QED
    BY <2>3, <2>4, <2>6, <2>7, <2>8 DEF Next, Release, Promise!Next
<1>3. QED
  BY <1>1, <1>2, Invariance, PTL DEF Spec, ImplementsLock, Promise!Spec

-----------------------------------------------------------------------------
(* Detail windows: the invariant.                                          *)

Deleting == gui.pc \in {"mute", "delete", "free"}
Leaving == gui.pc \in {"signal", "disconnect", "windows", "gone"}

\* What the GUI thread is at, and which crops may be closed or gone.
GuiShape ==
    /\ destroying => Deleting \/ Leaving
    /\ Leaving => destroying
    /\ gui.pc \in {"enable", "mute", "delete", "free"} => gui.on \in Windows
    /\ gui.pc = "schedule" => gui.on \in Detail!AllCrops
    /\ gui.pc = "enable" => life[gui.on] = "open"
    /\ \A k \in Detail!AllCrops : life[k] = "closing" <=> Deleting /\ gui.on = k
    /\ life[Canvas] = "open" \/ (life[Canvas] = "freed" /\ gui.pc = "gone")

\* What the worker is at.
WorkerShape ==
    /\ worker.pc = "idle" => worker.job = Detail!None
    /\ worker.pc \in {"enter", "lock"} \cup Detail!InPass => worker.job = Detail!Photo
    /\ worker.pc \in Detail!InFull \cup {"updating"} =>
          worker.job = worker.crop \/ (worker.job = Detail!Photo /\ worker.pc = "updating")

\* An open crop is heard unless it is just being opened.
OpenIsHeard ==
    \A k \in Detail!AllCrops : life[k] = "open" =>
        listening[k] \/ destroying \/ (gui.pc = "enable" /\ gui.on = k)

Passing ==
    \/ worker.pc \in {"lock"} \cup Detail!InPass
    \/ worker.pc = "updating" /\ worker.job = Detail!Photo

\* The pass is at a crop; it is at the crops to be updated.
AtCrop ==
    \/ worker.pc \in {"getSkip", "hear", "wantSkip", "again", "update"}
    \/ worker.pc = "updating" /\ worker.job = Detail!Photo
AtUpdates ==
    \/ worker.pc \in {"each", "hear", "wantSkip", "again", "update"}
    \/ worker.pc = "updating" /\ worker.job = Detail!Photo

\* The worker reads no slot that the vector has never had.
AtPlace ==
    /\ AtCrop => worker.at \in 1 .. Detail!Capacity /\ worker.crop \in Detail!AllCrops
    /\ AtUpdates \/ worker.pc = "skip" => worker.at \in 1 .. Detail!Capacity + 1

\* Crop k shows what the pass has claimed, if it is open and the pass reaches it.
Done(k) == life[k] = "open" /\ (worker.wanted \/ k \in Full) => shown[k] = params

Heard(k) == life[k] # "unborn" /\ (life[k] = "open" => listening[k])

\* The crops a pass has found go on listening, or are closed, and no crop loses
\* its place in the vector; those the pass has left behind are done.
PassIs ==
    /\ Passing => \A k \in worker.present : Heard(k)
    /\ AtCrop \/ AtUpdates \/ worker.pc = "skip" => worker.at \in 1 .. size + 1
    /\ AtCrop => worker.at <= size /\ worker.crop = slots[worker.at]
    /\ AtUpdates => \A i \in 1 .. size :
          i < worker.at /\ slots[i] \in worker.present => Done(slots[i])
    /\ worker.pc = "wantSkip" =>
          /\ ~ worker.wanted
          /\ worker.crop \in worker.present /\ life[worker.crop] = "open" => worker.heard
    /\ worker.pc = "unlock" => \A k \in worker.present : Done(k)

PassShape == ~ cutShort /\ ~ destroying => PassIs

Queued(t) == \E i \in DOMAIN tasks : tasks[i] = t

\* A submitted edit has been claimed or will be.
EditIsDue ==
    /\ destroying \/ params = nextParams \/ changeSinceLast # {}
    /\ changeSinceLast # {} => destroying \/ gui.pc = "start" \/ updaterRunning
    /\ updaterRunning => destroying \/ Queued(Detail!Photo) \/ worker.job = Detail!Photo

\* A requested update of a crop has somebody who makes it.
UpdateIsDue ==
    \A k \in Detail!AllCrops :
        /\ pending[k] => running[k]
        /\ running[k] => \/ destroying \/ Queued(k) \/ worker.job = k
                         \/ gui.pc = "schedule" /\ gui.on = k

\* An open crop at full resolution is up to date with the newest pass, or an
\* update of it is asked for, under way, or part of that pass.
CropIsDue ==
    \A k \in Full :
        life[k] = "open" /\ ~ destroying /\ ~ cutShort =>
            \/ shown[k] = params
            \/ pending[k]
            \/ gui.pc = "enable" /\ gui.on = k
            \/ worker.job = k /\ worker.pc \in {"fullUpdate", "updating"}
            \/ Passing /\ worker.pc # "unlock" /\ k \in worker.present

DetailInv ==
    /\ Detail!TypeOK /\ GuiShape /\ WorkerShape /\ AtPlace /\ OpenIsHeard
    /\ Detail!VectorIsExact /\ PassShape /\ EditIsDue /\ UpdateIsDue /\ CropIsDue

-----------------------------------------------------------------------------
(* Types and the vector of crops.                                          *)

WorkerRecords ==
    [pc : Detail!WorkerPCs, job : Detail!AllCrops \cup {Detail!Photo, Detail!None},
     crop : Detail!AllCrops \cup {Detail!None}, at : 0 .. Detail!Capacity + 1,
     high : BOOLEAN, wanted : BOOLEAN, heard : BOOLEAN, present : SUBSET Detail!AllCrops]

LEMMA Crops ==
    /\ Canvas \in Detail!AllCrops
    /\ Windows \subseteq Detail!AllCrops /\ Full \subseteq Detail!AllCrops
    /\ Canvas \notin Windows
    /\ Detail!Photo \notin Detail!AllCrops /\ Detail!None \notin Detail!AllCrops
    /\ IsFiniteSet(Detail!AllCrops)
    /\ Detail!Capacity \in Nat /\ Detail!Capacity >= 1
    /\ Cardinality(Detail!AllCrops) = Detail!Capacity
    /\ MaxEdits \in Nat /\ MaxPans \in Nat
<1>1. IsFiniteSet(Windows) /\ Canvas \notin Windows
  BY DetailAssumed DEF Detail!DetailAssumption, Detail!IsFiniteSet, IsFiniteSet
<1>2. Cardinality(Windows) \in Nat
  BY <1>1, FS_CardinalityType
<1>3. Detail!AllCrops = Windows \cup {Canvas}
  BY DEF Detail!AllCrops
<1>4. /\ IsFiniteSet(Detail!AllCrops)
      /\ Cardinality(Detail!AllCrops) = Cardinality(Windows) + 1
  BY <1>1, <1>3, FS_AddElement
<1>5. Detail!Cardinality(Windows) = Cardinality(Windows)
  BY DEF Detail!Cardinality, Cardinality
<1>6. QED
  BY <1>1, <1>2, <1>3, <1>4, <1>5, DetailAssumed DEF Detail!DetailAssumption, Detail!Capacity

\* There is room in the vector for a window that is not in it.
LEMMA RoomForAnother ==
    ASSUME Detail!TypeOK, Detail!VectorIsExact, NEW w \in Detail!AllCrops,
           \A i \in 1 .. size : slots[i] # w
    PROVE  size + 1 \in 1 .. Detail!Capacity
<1> DEFINE Others == Detail!AllCrops \ {w}
           place == [i \in 1 .. size |-> slots[i]]
<1>1. size \in Nat /\ size <= Detail!Capacity /\ size >= 1
  BY Crops DEF Detail!TypeOK
<1>2. IsFiniteSet(Others) /\ Cardinality(Others) = Detail!Capacity - 1
  BY Crops, FS_RemoveElement
<1>3. place \in Injection(1 .. size, Others)
  <2>1. ASSUME NEW i \in 1 .. size PROVE slots[i] \in Others
    <3>1. i \in 1 .. Detail!Capacity
      BY <1>1, Crops
    <3>2. QED
      BY <3>1 DEF Detail!TypeOK
  <2>2. \A i, j \in 1 .. size : place[i] = place[j] => i = j
    BY DEF Detail!VectorIsExact
  <2>3. place \in [1 .. size -> Others]
    BY <2>1
  <2>4. DOMAIN place = 1 .. size
    OBVIOUS
  <2> HIDE DEF place, Others
  <2>5. QED
    BY <2>2, <2>3, <2>4 DEF Injection, IsInjective
<1>4. Cardinality(1 .. size) <= Cardinality(Others)
  BY <1>2, <1>3, FS_Injection
<1>5. Cardinality(1 .. size) = size
  BY <1>1, FS_Interval
<1>6. QED
  BY <1>1, <1>2, <1>4, <1>5, Crops

\* The crops in the vector.
Listed(k) == \E i \in 1 .. size : slots[i] = k

LEMMA ListedAreAlive ==
    ASSUME Detail!VectorIsExact, GuiShape, NEW k \in Detail!AllCrops
    PROVE  Listed(k) <=> \/ life[k] = "open"
                         \/ life[k] = "closing" /\ ~ (gui.pc = "free" /\ gui.on = k)
                         \/ k = Canvas
<1>1. Listed(k) <=> k \in {slots[i] : i \in 1 .. size}
  BY DEF Listed
<1>2. k = Canvas => life[k] \in {"open", "freed"}
  BY DEF GuiShape
<1>3. k = Canvas => ~ (gui.pc = "free" /\ gui.on = k)
  BY Crops DEF GuiShape
<1>4. Listed(k) <=>
         \/ life[k] \in {"open", "closing"} /\ ~ (gui.pc = "free" /\ gui.on = k)
         \/ k = Canvas /\ life[k] = "freed"
  BY <1>1 DEF Detail!VectorIsExact
<1>5. gui.pc = "free" /\ gui.on = k => life[k] = "closing"
  BY DEF GuiShape, Deleting
<1>6. QED
  BY <1>2, <1>3, <1>4, <1>5

\* ~Crop() takes one crop out of the vector and leaves the others in it.
LEMMA ErasingRemoves ==
    ASSUME Detail!TypeOK, Detail!VectorIsExact, NEW k \in Detail!AllCrops \ {Canvas},
           Listed(k), Listed(Canvas), Detail!Erase(k)
    PROVE  /\ slots' \in [1 .. Detail!Capacity -> Detail!AllCrops]
           /\ size' \in 1 .. Detail!Capacity
           /\ \A i, j \in 1 .. size' : slots'[i] = slots'[j] => i = j
           /\ \A c \in Detail!AllCrops :
                 (\E i \in 1 .. size' : slots'[i] = c) <=> Listed(c) /\ c # k
<1> DEFINE p == Detail!Place(k)
<1>1. p \in 1 .. size /\ slots[p] = k
  BY DEF Listed, Detail!Place
<1> HIDE DEF p
<1>2. /\ size \in Nat /\ size <= Detail!Capacity /\ Detail!Capacity \in Nat
      /\ slots \in [1 .. Detail!Capacity -> Detail!AllCrops]
      /\ \A i, j \in 1 .. size : slots[i] = slots[j] => i = j
  BY Crops DEF Detail!TypeOK, Detail!VectorIsExact
<1>3. /\ slots' = [i \in 1 .. Detail!Capacity |->
                      IF p <= i /\ i < size THEN slots[i + 1] ELSE slots[i]]
      /\ size' = size - 1
  BY DEF Detail!Erase, p
<1>4. size >= 2
  BY <1>1, <1>2 DEF Listed
<1>5. slots' \in [1 .. Detail!Capacity -> Detail!AllCrops] /\ size' \in 1 .. Detail!Capacity
  BY <1>1, <1>2, <1>3, <1>4
<1>6. \A i \in 1 .. size' : slots'[i] = slots[IF i < p THEN i ELSE i + 1]
  BY <1>1, <1>2, <1>3
<1>7. \A i, j \in 1 .. size' : slots'[i] = slots'[j] => i = j
  BY <1>1, <1>2, <1>3, <1>6
<1>8. ASSUME NEW c \in Detail!AllCrops
      PROVE  (\E i \in 1 .. size' : slots'[i] = c) <=> Listed(c) /\ c # k
  <2>1. ASSUME NEW i \in 1 .. size', slots'[i] = c PROVE Listed(c) /\ c # k
    BY <1>1, <1>2, <1>3, <1>6, <2>1 DEF Listed
  <2>2. ASSUME NEW j \in 1 .. size, slots[j] = c, c # k
        PROVE  \E i \in 1 .. size' : slots'[i] = c
    <3>1. CASE j < p
      BY <1>1, <1>2, <1>3, <1>6, <2>2, <3>1
    <3>2. CASE j > p
      <4>1. j - 1 \in 1 .. size' /\ slots'[j - 1] = c
        BY <1>1, <1>2, <1>3, <1>6, <2>2, <3>2
      <4>2. QED
        BY <4>1
    <3>3. QED
      BY <1>1, <1>2, <2>2, <3>1, <3>2
  <2>3. QED
    BY <2>1, <2>2 DEF Listed
<1>9. QED
  BY <1>5, <1>7, <1>8

-----------------------------------------------------------------------------
(* Who changes what.                                                       *)

LEMMA WorkerLeavesWindows ==
    ASSUME Detail!WorkerStep
    PROVE  UNCHANGED <<slots, size, gui, pans, cutShort, life, listening, nextParams,
                       destroying>>
<1> USE DEF Detail!coordVars, Detail!cropVars, Detail!WorkerOnly, Detail!past
<1>1. CASE Detail!Take \/ Detail!Process \/ Detail!LockPass \/ Detail!EndPass
  BY <1>1 DEF Detail!Take, Detail!Process, Detail!LockPass, Detail!EndPass
<1>2. CASE Detail!SkipLoop \/ Detail!GetSkip \/ Detail!Render \/ Detail!EachCrop
              \/ Detail!HasListener \/ Detail!WantedBySkip \/ Detail!FetchAgain
  BY <1>2 DEF Detail!SkipLoop, Detail!GetSkip, Detail!Render, Detail!EachCrop,
     Detail!HasListener, Detail!WantedBySkip, Detail!FetchAgain
<1>3. CASE Detail!BeginUpdate \/ Detail!EndUpdate \/ Detail!FullUpdate \/ Detail!TakePending
  BY <1>3 DEF Detail!BeginUpdate, Detail!EndUpdate, Detail!FullUpdate, Detail!TakePending
<1>4. QED
  BY <1>1, <1>2, <1>3 DEF Detail!WorkerStep

OtherStep == Detail!GuiStep \/ Detail!UserStep \/ Detail!DestroyCoordinator

LEMMA OthersLeaveWorker ==
    ASSUME OtherStep
    PROVE  UNCHANGED <<worker, params, shown, mProcessing, updaterThreadStart>>
<1> USE DEF Detail!coordVars, Detail!cropVars
<1>1. CASE Detail!StartProcessing \/ Detail!Enable \/ Detail!Schedule \/ Detail!Settle
              \/ Detail!Mute
  BY <1>1 DEF Detail!StartProcessing, Detail!Enable, Detail!Schedule, Detail!Settle,
     Detail!Mute
<1>2. CASE Detail!DeleteCrop \/ Detail!FreeCrop \/ Detail!SignalStop \/ Detail!Disconnect
  BY <1>2 DEF Detail!DeleteCrop, Detail!FreeCrop, Detail!SignalStop, Detail!Disconnect
<1>3. CASE Detail!DeleteWindow \/ Detail!WindowsGone \/ Detail!ClosePhoto
              \/ Detail!DestroyCoordinator
  BY <1>3 DEF Detail!DeleteWindow, Detail!WindowsGone, Detail!ClosePhoto,
     Detail!DestroyCoordinator
<1>4. ASSUME NEW kind \in Detail!EditKinds, Detail!Edit(kind)
      PROVE  UNCHANGED <<worker, params, shown, mProcessing, updaterThreadStart>>
  BY <1>4 DEF Detail!Edit
<1>5. ASSUME NEW k \in Detail!AllCrops,
             Detail!Pan(k) \/ (k \in Windows /\ (Detail!Open(k) \/ Detail!PressClose(k)))
      PROVE  UNCHANGED <<worker, params, shown, mProcessing, updaterThreadStart>>
  BY <1>5 DEF Detail!Pan, Detail!Open, Detail!PressClose
<1>6. QED
  BY <1>1, <1>2, <1>3, <1>4, <1>5, Crops DEF OtherStep, Detail!GuiStep, Detail!UserStep

-----------------------------------------------------------------------------
(* The vector.                                                             *)

AliveCrops ==
    {k \in Detail!AllCrops :
        life[k] \in {"open", "closing"} /\ ~ (gui.pc = "free" /\ gui.on = k)}
    \cup {k \in {Canvas} : life[k] = "freed"}

ListedCrops == {slots[i] : i \in 1 .. size}

\* The vector stays the set of living crops, and in its bounds.
LEMMA VectorKept ==
    ASSUME Detail!TypeOK, GuiShape, Detail!VectorIsExact, Detail!Next
    PROVE  /\ slots' \in [1 .. Detail!Capacity -> Detail!AllCrops]
           /\ size' \in 1 .. Detail!Capacity
           /\ Detail!VectorIsExact'
<1> DEFINE Claim == /\ slots' \in [1 .. Detail!Capacity -> Detail!AllCrops]
                    /\ size' \in 1 .. Detail!Capacity
                    /\ Detail!VectorIsExact'
<1>0. /\ slots \in [1 .. Detail!Capacity -> Detail!AllCrops]
      /\ size \in 1 .. Detail!Capacity
      /\ \A i, j \in 1 .. size : slots[i] = slots[j] => i = j
      /\ ListedCrops = AliveCrops
      /\ Detail!Capacity \in Nat
      /\ \A k \in Detail!AllCrops : Listed(k) <=> k \in ListedCrops
  <2>1. slots \in [1 .. Detail!Capacity -> Detail!AllCrops] /\ size \in 1 .. Detail!Capacity
    BY DEF Detail!TypeOK
  <2>2. ListedCrops = AliveCrops
    BY DEF Detail!VectorIsExact, ListedCrops, AliveCrops
  <2>3. \A k \in Detail!AllCrops : Listed(k) <=> k \in ListedCrops
    BY DEF ListedCrops, Listed
  <2>4. QED
    BY <2>1, <2>2, <2>3, Crops DEF Detail!VectorIsExact
<1>00. ASSUME /\ slots' \in [1 .. Detail!Capacity -> Detail!AllCrops]
              /\ size' \in 1 .. Detail!Capacity
              /\ \A i, j \in 1 .. size' : slots'[i] = slots'[j] => i = j
              /\ ListedCrops' = AliveCrops'
       PROVE  Claim
  BY <1>00 DEF Detail!VectorIsExact, ListedCrops, AliveCrops
<1>1. ASSUME UNCHANGED <<slots, size>>, AliveCrops' = AliveCrops
      PROVE  Claim
  <2>1. ListedCrops' = ListedCrops
    BY <1>1 DEF ListedCrops
  <2>2. QED
    BY <1>0, <1>00, <1>1, <2>1
<1> SUFFICES Claim
  OBVIOUS
<1> HIDE DEF Claim
<1>2. ASSUME UNCHANGED <<slots, size, life>>, gui.pc # "free" /\ gui'.pc # "free"
      PROVE  Claim
  BY <1>1, <1>2 DEF AliveCrops
<1>3. CASE Detail!WorkerStep
  BY <1>1, <1>3, WorkerLeavesWindows DEF AliveCrops
<1>4. CASE Detail!GuiStep
  <2>1. CASE Detail!StartProcessing \/ Detail!Schedule \/ Detail!Settle \/ Detail!SignalStop
                \/ Detail!Disconnect
    BY <1>2, <2>1
    DEF Detail!StartProcessing, Detail!Schedule, Detail!Settle, Detail!SignalStop,
        Detail!Disconnect, Detail!Idle, Detail!cropVars, Detail!TypeOK
  <2>2. CASE Detail!Enable
    BY <1>2, <2>2 DEF Detail!Enable, Detail!Request, Detail!TypeOK
  <2>3. CASE Detail!Mute \/ Detail!WindowsGone
    BY <1>2, <2>3 DEF Detail!Mute, Detail!WindowsGone, Detail!cropVars, Detail!TypeOK
  <2>4. CASE Detail!DeleteWindow
    <3>1. PICK w \in Windows : life[w] = "open" /\ life' = [life EXCEPT ![w] = "closing"]
      BY <2>4 DEF Detail!DeleteWindow
    <3>2. AliveCrops' = AliveCrops
      BY <2>4, <3>1, Crops DEF Detail!DeleteWindow, AliveCrops, Detail!TypeOK
    <3>3. QED
      BY <1>1, <2>4, <3>2 DEF Detail!DeleteWindow
  <2>5. CASE Detail!DeleteCrop
    <3>1. /\ gui.on \in Detail!AllCrops \ {Canvas}
          /\ gui' = [gui EXCEPT !.pc = "free"]
          /\ life' = life
      BY <2>5, Crops DEF Detail!DeleteCrop, GuiShape, Detail!TypeOK
    <3>2. life[gui.on] = "closing" /\ gui.pc = "delete"
      BY <2>5, <3>1 DEF Detail!DeleteCrop, GuiShape, Deleting
    <3>3. gui.on \in AliveCrops /\ Canvas \in AliveCrops
      BY <3>1, <3>2, Crops DEF AliveCrops, GuiShape
    <3>4. Listed(gui.on) /\ Listed(Canvas)
      BY <1>0, <3>1, <3>3, Crops
    <3>5. Detail!Erase(gui.on)
      BY <2>5 DEF Detail!DeleteCrop
    <3>6. AliveCrops' = AliveCrops \ {gui.on}
      BY <3>1, <3>2 DEF AliveCrops, Detail!TypeOK
    <3>7. /\ slots' \in [1 .. Detail!Capacity -> Detail!AllCrops]
          /\ size' \in 1 .. Detail!Capacity
          /\ \A i, j \in 1 .. size' : slots'[i] = slots'[j] => i = j
          /\ \A c \in Detail!AllCrops :
                (\E i \in 1 .. size' : slots'[i] = c) <=> Listed(c) /\ c # gui.on
      BY <3>1, <3>4, <3>5, ErasingRemoves
    <3>8. ListedCrops' = ListedCrops \ {gui.on}
      <4>1. \A c \in Detail!AllCrops : c \in ListedCrops' <=> c \in ListedCrops \ {gui.on}
        BY <1>0, <3>7 DEF ListedCrops
      <4>2. ListedCrops' \subseteq Detail!AllCrops
        BY <1>0, <3>7 DEF ListedCrops
      <4>3. ListedCrops \subseteq Detail!AllCrops
        BY <1>0, Crops DEF AliveCrops
      <4>4. QED
        BY <4>1, <4>2, <4>3
    <3>9. QED
      BY <1>0, <1>00, <3>6, <3>7, <3>8
  <2>6. CASE Detail!FreeCrop
    <3>1. /\ gui.on \in Detail!AllCrops \ {Canvas} /\ gui.pc = "free" /\ gui'.pc # "free"
          /\ life[gui.on] = "closing"
          /\ life' = [life EXCEPT ![gui.on] = "freed"]
      BY <2>6, Crops DEF Detail!FreeCrop, GuiShape, Deleting, Detail!Idle
    <3>2. AliveCrops' = AliveCrops
      BY <3>1 DEF AliveCrops, Detail!TypeOK
    <3>3. QED
      BY <1>1, <2>6, <3>2 DEF Detail!FreeCrop
  <2>7. QED
    BY <1>4, <2>1, <2>2, <2>3, <2>4, <2>5, <2>6 DEF Detail!GuiStep
<1>5. ASSUME NEW w \in Windows, Detail!Open(w) PROVE Claim
  <2>1. /\ life[w] = "unborn" /\ w \in Detail!AllCrops /\ w # Canvas
        /\ gui.pc = "idle" /\ gui' = [pc |-> "enable", on |-> w]
        /\ life' = [life EXCEPT ![w] = "open"]
        /\ slots' = [slots EXCEPT ![size + 1] = w]
        /\ size' = size + 1
    BY <1>5, Crops DEF Detail!Open, Detail!PushBack
  <2>2. ~ Listed(w)
    BY <1>0, <2>1 DEF AliveCrops
  <2>3. size + 1 \in 1 .. Detail!Capacity
    BY <2>1, <2>2, RoomForAnother DEF Listed
  <2>4. /\ slots' \in [1 .. Detail!Capacity -> Detail!AllCrops]
        /\ size' \in 1 .. Detail!Capacity
    BY <1>0, <2>1, <2>3
  <2>5. \A i \in 1 .. size' : slots'[i] = IF i = size + 1 THEN w ELSE slots[i]
    BY <1>0, <2>1, <2>3
  <2>6. \A i, j \in 1 .. size' : slots'[i] = slots'[j] => i = j
    BY <1>0, <2>1, <2>2, <2>5 DEF Listed
  <2>7. AliveCrops' = AliveCrops \cup {w}
    BY <2>1 DEF AliveCrops, Detail!TypeOK
  <2>8. ListedCrops' = ListedCrops \cup {w}
    <3>1. ASSUME NEW i \in 1 .. size' PROVE slots'[i] \in ListedCrops \cup {w}
      BY <1>0, <2>1, <2>5 DEF ListedCrops
    <3>2. ASSUME NEW i \in 1 .. size PROVE slots[i] \in ListedCrops'
      <4>1. i \in 1 .. size' /\ slots'[i] = slots[i]
        BY <1>0, <2>1, <2>5
      <4>2. QED
        BY <4>1 DEF ListedCrops
    <3>3. w \in ListedCrops'
      <4>1. size + 1 \in 1 .. size' /\ slots'[size + 1] = w
        BY <1>0, <2>1, <2>5
      <4>2. QED
        BY <4>1 DEF ListedCrops
    <3>4. QED
      BY <3>1, <3>2, <3>3 DEF ListedCrops
  <2>9. QED
    BY <1>0, <1>00, <2>4, <2>6, <2>7, <2>8
<1>6. CASE Detail!UserStep
  <2>1. ASSUME NEW kind \in Detail!EditKinds, Detail!Edit(kind) PROVE Claim
    BY <1>2, <2>1 DEF Detail!Edit, Detail!cropVars, Detail!TypeOK
  <2>2. ASSUME NEW k \in Detail!AllCrops, Detail!Pan(k) PROVE Claim
    BY <1>2, <2>2 DEF Detail!Pan, Detail!Request, Detail!Idle
  <2>3. ASSUME NEW w \in Windows, Detail!PressClose(w) PROVE Claim
    <3>1. AliveCrops' = AliveCrops
      BY <2>3, Crops DEF Detail!PressClose, AliveCrops, Detail!TypeOK
    <3>2. QED
      BY <1>1, <2>3, <3>1 DEF Detail!PressClose
  <2>4. CASE Detail!ClosePhoto
    BY <1>2, <2>4 DEF Detail!ClosePhoto, Detail!cropVars, Detail!TypeOK
  <2>5. QED
    BY <1>5, <1>6, <2>1, <2>2, <2>3, <2>4 DEF Detail!UserStep
<1>7. CASE Detail!DestroyCoordinator
  <2>1. AliveCrops' = AliveCrops
    BY <1>7 DEF Detail!DestroyCoordinator, AliveCrops, Detail!TypeOK
  <2>2. QED
    BY <1>1, <1>7, <2>1 DEF Detail!DestroyCoordinator
<1>8. QED
  BY <1>3, <1>4, <1>6, <1>7 DEF Detail!Next, Claim

-----------------------------------------------------------------------------
(* Every step keeps the types.                                             *)

\* A task that is put in front of the deque.
LEMMA EnqueuedIsFirst ==
    ASSUME tasks \in Seq(Detail!AllCrops \cup {Detail!Photo}),
           NEW t \in Detail!AllCrops \cup {Detail!Photo}, Detail!Enqueue(t)
    PROVE  /\ tasks' \in Seq(Detail!AllCrops \cup {Detail!Photo})
           /\ Queued(t)'
           /\ \A u : Queued(u) => Queued(u)'
<1>1. /\ <<t>> \in Seq(Detail!AllCrops \cup {Detail!Photo})
      /\ Len(<<t>>) = 1 /\ <<t>>[1] = t
  OBVIOUS
<1>2. /\ tasks' \in Seq(Detail!AllCrops \cup {Detail!Photo})
      /\ Len(tasks') = 1 + Len(tasks)
      /\ \A i \in 1 .. Len(tasks') : tasks'[i] = IF i <= 1 THEN <<t>>[i] ELSE tasks[i - 1]
  BY <1>1, ConcatProperties DEF Detail!Enqueue
<1>3. /\ Len(tasks) \in Nat
      /\ DOMAIN tasks = 1 .. Len(tasks)
      /\ DOMAIN tasks' = 1 .. Len(tasks')
  BY <1>2
<1>4. Queued(t)'
  BY <1>1, <1>2, <1>3 DEF Queued
<1>5. ASSUME NEW i \in DOMAIN tasks
      PROVE  i + 1 \in DOMAIN tasks' /\ tasks'[i + 1] = tasks[i]
  BY <1>2, <1>3
<1>6. QED
  BY <1>2, <1>4, <1>5 DEF Queued

\* The task that is taken is the first of the deque, and the others stay.
LEMMA TakenWasFirst ==
    ASSUME tasks \in Seq(Detail!AllCrops \cup {Detail!Photo}), tasks # <<>>,
           tasks' = Tail(tasks)
    PROVE  /\ Head(tasks) \in Detail!AllCrops \cup {Detail!Photo}
           /\ tasks' \in Seq(Detail!AllCrops \cup {Detail!Photo})
           /\ \A u : Queued(u) => Queued(u)' \/ u = Head(tasks)
<1>1. /\ Head(tasks) \in Detail!AllCrops \cup {Detail!Photo} /\ Head(tasks) = tasks[1]
      /\ tasks' \in Seq(Detail!AllCrops \cup {Detail!Photo})
      /\ Len(tasks) \in Nat /\ Len(tasks') = Len(tasks) - 1
      /\ \A i \in 1 .. Len(tasks') : tasks'[i] = tasks[i + 1]
  BY HeadTailProperties
<1>2. ASSUME NEW i \in DOMAIN tasks, i # 1
      PROVE  i - 1 \in DOMAIN tasks' /\ tasks'[i - 1] = tasks[i]
  BY <1>1, <1>2
<1>3. QED
  BY <1>1, <1>2 DEF Queued

LEMMA WorkerRecordKept ==
    ASSUME DetailInv, Detail!WorkerStep
    PROVE  worker' \in WorkerRecords
<1> USE DEF WorkerRecords
<1> USE DEF DetailInv, Detail!WorkerPCs, Detail!InPass, Detail!InFull, Detail!Reading
<1>1. /\ worker \in WorkerRecords /\ Detail!Capacity \in Nat
      /\ slots \in [1 .. Detail!Capacity -> Detail!AllCrops] /\ size \in 1 .. Detail!Capacity
      /\ 0 \in 0 .. Detail!Capacity + 1 /\ 1 \in 0 .. Detail!Capacity + 1
  BY Crops DEF Detail!TypeOK
<1>2. AtUpdates \/ worker.pc = "skip" => worker.at \in 1 .. Detail!Capacity + 1
  BY DEF AtPlace
<1>3. Detail!Resting \in WorkerRecords
  BY <1>1 DEF Detail!Resting
<1>4. CASE Detail!Take
  <2>1. Head(tasks) \in Detail!AllCrops \cup {Detail!Photo}
    BY <1>4, TakenWasFirst DEF Detail!Take, Detail!TypeOK
  <2>2. PICK t \in Detail!AllCrops \cup {Detail!Photo} : t = Head(tasks)
    BY <2>1
  <2>3. worker' = IF t = Detail!Photo
                  THEN [Detail!Resting EXCEPT !.pc = "enter", !.job = Detail!Photo]
                  ELSE [Detail!Resting EXCEPT !.pc = "fullLock", !.job = t, !.crop = t]
    BY <1>4, <2>2 DEF Detail!Take
  <2>4. [Detail!Resting EXCEPT !.pc = "enter", !.job = Detail!Photo] \in WorkerRecords
    BY <1>3
  <2>5. t # Detail!Photo =>
            [Detail!Resting EXCEPT !.pc = "fullLock", !.job = t, !.crop = t] \in WorkerRecords
    BY <1>3, <2>2
  <2>6. QED
    BY <2>3, <2>4, <2>5
<1>5. CASE Detail!Process
  <2>1. CASE destroying \/ changeSinceLast = {}
    BY <1>3, <1>5, <2>1 DEF Detail!Process
  <2>2. CASE ~ (destroying \/ changeSinceLast = {})
    <3> DEFINE high == "settled" \in changeSinceLast
               wanted == changeSinceLast # {"narrow"}
               present == {k \in Detail!AllCrops : life[k] = "open" /\ listening[k]}
    <3>1. worker' = [worker EXCEPT !.pc = "lock", !.high = high, !.wanted = wanted,
                        !.present = present]
      BY <1>5, <2>2 DEF Detail!Process
    <3>2. high \in BOOLEAN /\ wanted \in BOOLEAN /\ present \in SUBSET Detail!AllCrops
      OBVIOUS
    <3> HIDE DEF high, wanted, present
    <3>3. QED
      BY <1>1, <3>1, <3>2
  <2>3. QED
    BY <2>1, <2>2
<1>6. CASE Detail!LockPass
  BY <1>1, <1>6 DEF Detail!LockPass
<1>7. CASE Detail!SkipLoop \/ Detail!EachCrop
  <2>1. worker.at \in 1 .. Detail!Capacity + 1
    BY <1>2, <1>7 DEF Detail!SkipLoop, Detail!EachCrop, AtUpdates
  <2>2. CASE worker.at > size
    BY <1>1, <1>7, <2>2 DEF Detail!SkipLoop, Detail!EachCrop
  <2>3. CASE ~ worker.at > size
    <3>1. worker.at \in 1 .. Detail!Capacity
      BY <1>1, <2>1, <2>3
    <3>2. slots[worker.at] \in Detail!AllCrops
      BY <1>1, <3>1
    <3>3. Detail!Fetch("getSkip") \in WorkerRecords /\ Detail!Fetch("hear") \in WorkerRecords
      BY <1>1, <3>2 DEF Detail!Fetch
    <3>4. QED
      BY <1>7, <2>3, <3>3 DEF Detail!SkipLoop, Detail!EachCrop
  <2>4. QED
    BY <2>2, <2>3
<1>8. CASE AtCrop
  <2>1. worker.at \in 1 .. Detail!Capacity /\ worker.at + 1 \in 0 .. Detail!Capacity + 1
    BY <1>1, <1>8 DEF AtPlace
  <2>2. slots[worker.at] \in Detail!AllCrops
    BY <1>1, <2>1
  <2>3. /\ Detail!NextCrop \in WorkerRecords
        /\ Detail!Fetch("wantSkip") \in WorkerRecords
        /\ Detail!Fetch("update") \in WorkerRecords
    BY <1>1, <2>1, <2>2 DEF Detail!NextCrop, Detail!Fetch
  <2>4. CASE Detail!GetSkip
    <3>1. (worker.wanted \/ ~ Sidecar) \in BOOLEAN
      OBVIOUS
    <3>2. [worker EXCEPT !.pc = "render", !.high = TRUE, !.wanted = @ \/ ~ Sidecar] \in WorkerRecords
      BY <1>1, <3>1
    <3>3. [worker EXCEPT !.pc = "skip", !.at = @ + 1] \in WorkerRecords
      BY <1>1, <2>1
    <3>4. QED
      BY <2>4, <3>2, <3>3 DEF Detail!GetSkip
  <2>5. CASE Detail!HasListener
    <3>1. listening[worker.crop] \in BOOLEAN
      <4>1. worker.crop \in Detail!AllCrops
        BY <1>8 DEF AtPlace
      <4>2. QED
        BY <4>1 DEF Detail!TypeOK
    <3>2. [Detail!Fetch("wantSkip") EXCEPT !.heard = listening[worker.crop]] \in WorkerRecords
      BY <2>3, <3>1
    <3>3. [worker EXCEPT !.pc = "again", !.heard = listening[worker.crop]] \in WorkerRecords
      BY <1>1, <3>1
    <3>4. QED
      BY <2>3, <2>5, <3>2, <3>3 DEF Detail!HasListener
  <2>6. CASE Detail!WantedBySkip \/ Detail!FetchAgain
    BY <1>1, <2>3, <2>6 DEF Detail!WantedBySkip, Detail!FetchAgain
  <2>7. CASE Detail!BeginUpdate
    BY <1>1, <2>7 DEF Detail!BeginUpdate
  <2>8. CASE Detail!EndUpdate
    BY <1>1, <2>3, <2>8 DEF Detail!EndUpdate
  <2>9. QED
    BY <1>8, <2>4, <2>5, <2>6, <2>7, <2>8
    DEF Detail!WorkerStep, AtCrop, Detail!Take, Detail!Process, Detail!LockPass,
        Detail!SkipLoop, Detail!Render, Detail!EachCrop, Detail!EndPass,
        Detail!FullUpdate, Detail!TakePending
<1>9. CASE Detail!Render \/ Detail!BeginUpdate \/ Detail!EndPass \/ Detail!FullUpdate
              \/ Detail!TakePending
  <2>1. CASE Detail!Render
    BY <1>1, <2>1 DEF Detail!Render
  <2>2. CASE Detail!BeginUpdate
    BY <1>1, <2>2 DEF Detail!BeginUpdate
  <2>3. CASE Detail!EndPass
    BY <1>1, <2>3 DEF Detail!EndPass, Detail!Resting
  <2>4. CASE Detail!FullUpdate \/ Detail!TakePending
    BY <1>1, <1>3, <2>4 DEF Detail!FullUpdate, Detail!TakePending
  <2>5. QED
    BY <1>9, <2>1, <2>2, <2>3, <2>4
<1>10. CASE Detail!EndUpdate
  BY <1>1, <1>8, <1>10 DEF Detail!EndUpdate, AtCrop
<1>11. QED
  BY <1>4, <1>5, <1>6, <1>7, <1>8, <1>9, <1>10
  DEF Detail!WorkerStep, AtCrop, Detail!GetSkip, Detail!HasListener, Detail!WantedBySkip,
      Detail!FetchAgain

LEMMA TypeKept == ASSUME DetailInv, Detail!Next PROVE Detail!TypeOK'
<1> USE DEF DetailInv, Detail!past
<1>1. /\ slots' \in [1 .. Detail!Capacity -> Detail!AllCrops]
      /\ size' \in 1 .. Detail!Capacity
  BY VectorKept
<1>2. CASE Detail!WorkerStep
  <2>1. UNCHANGED <<gui, pans, cutShort, life, listening, nextParams, destroying>>
    BY <1>2, WorkerLeavesWindows
  <2>2. /\ updaterThreadStart' \in {"worker", Detail!None}
        /\ mProcessing' \in {"worker", Detail!None}
        /\ params' \in 1 .. MaxEdits + 1
        /\ changeSinceLast' \subseteq Detail!EditKinds \cup {"settled"}
        /\ updaterRunning' \in BOOLEAN
        /\ cropMutex' \in [Detail!AllCrops -> {"gui", "worker", Detail!None}]
        /\ pending' \in [Detail!AllCrops -> BOOLEAN]
        /\ running' \in [Detail!AllCrops -> BOOLEAN]
        /\ shown' \in [Detail!AllCrops -> 0 .. MaxEdits + 1]
        /\ tasks' \in Seq(Detail!AllCrops \cup {Detail!Photo})
    <3> USE DEF Detail!TypeOK, Detail!coordVars, Detail!cropVars, Detail!WorkerOnly
    <3>1. CASE Detail!Take
      BY <3>1, TakenWasFirst DEF Detail!Take
    <3>2. CASE Detail!Process \/ Detail!LockPass \/ Detail!EndPass
      BY <3>2 DEF Detail!Process, Detail!LockPass, Detail!EndPass
    <3>3. CASE Detail!SkipLoop \/ Detail!GetSkip \/ Detail!Render \/ Detail!EachCrop
                  \/ Detail!HasListener \/ Detail!WantedBySkip
               \/ Detail!FetchAgain
      BY <3>3 DEF Detail!SkipLoop, Detail!GetSkip, Detail!Render, Detail!EachCrop,
         Detail!HasListener, Detail!WantedBySkip, Detail!FetchAgain
    <3>4. CASE Detail!BeginUpdate
      BY <3>4 DEF Detail!BeginUpdate, Detail!LockCrop
    <3>5. CASE Detail!EndUpdate
      <4>1. params \in 0 .. MaxEdits + 1
        BY Crops
      <4>2. shown' \in [Detail!AllCrops -> 0 .. MaxEdits + 1]
        BY <3>5, <4>1 DEF Detail!EndUpdate
      <4>3. cropMutex' \in [Detail!AllCrops -> {"gui", "worker", Detail!None}]
        BY <3>5 DEF Detail!EndUpdate
      <4>4. QED
        BY <3>5, <4>2, <4>3 DEF Detail!EndUpdate
    <3>6. CASE Detail!FullUpdate \/ Detail!TakePending
      BY <3>6 DEF Detail!FullUpdate, Detail!TakePending
    <3>7. QED
      BY <1>2, <3>1, <3>2, <3>3, <3>4, <3>5, <3>6 DEF Detail!WorkerStep
  <2>3. QED
    BY <1>1, <1>2, <2>1, <2>2, WorkerRecordKept DEF Detail!TypeOK, WorkerRecords
<1>3. CASE OtherStep
  <2>1. UNCHANGED <<worker, params, shown, mProcessing, updaterThreadStart>>
    BY <1>3, OthersLeaveWorker
  <2>2. /\ nextParams' \in 1 .. MaxEdits + 1
        /\ changeSinceLast' \subseteq Detail!EditKinds \cup {"settled"}
        /\ updaterRunning' \in BOOLEAN
        /\ destroying' \in BOOLEAN
        /\ cropMutex' \in [Detail!AllCrops -> {"gui", "worker", Detail!None}]
        /\ listening' \in [Detail!AllCrops -> BOOLEAN]
        /\ pending' \in [Detail!AllCrops -> BOOLEAN]
        /\ running' \in [Detail!AllCrops -> BOOLEAN]
        /\ life' \in [Detail!AllCrops -> {"unborn", "open", "closing", "freed"}]
        /\ tasks' \in Seq(Detail!AllCrops \cup {Detail!Photo})
        /\ gui' \in [pc : Detail!GuiPCs, on : Detail!AllCrops \cup {Detail!None}]
        /\ pans' \in 0 .. MaxPans
        /\ cutShort' \in BOOLEAN
    <3> USE DEF Detail!TypeOK, Detail!coordVars, Detail!cropVars, Detail!GuiPCs, Detail!Idle
    <3>1. CASE Detail!StartProcessing
      BY <3>1, EnqueuedIsFirst DEF Detail!StartProcessing
    <3>2. CASE Detail!Enable
      BY <3>2, Crops DEF Detail!Enable, Detail!Request, GuiShape
    <3>3. CASE Detail!Schedule
      BY <3>3, EnqueuedIsFirst DEF Detail!Schedule, GuiShape
    <3>4. CASE Detail!Settle
      BY <3>4 DEF Detail!Settle
    <3>5. CASE Detail!Mute \/ Detail!DeleteCrop \/ Detail!FreeCrop
      <4>1. CASE Detail!Mute
        BY <4>1 DEF Detail!Mute
      <4>2. CASE Detail!DeleteCrop
        BY <4>2 DEF Detail!DeleteCrop
      <4>3. CASE Detail!FreeCrop
        BY <4>3 DEF Detail!FreeCrop
      <4>4. QED
        BY <3>5, <4>1, <4>2, <4>3
    <3>6. CASE Detail!SignalStop \/ Detail!Disconnect \/ Detail!WindowsGone
                  \/ Detail!ClosePhoto
      <4>1. CASE Detail!SignalStop
        <5>1. <<>> \in Seq(Detail!AllCrops \cup {Detail!Photo})
          OBVIOUS
        <5>2. QED
          BY <4>1, <5>1 DEF Detail!SignalStop
      <4>2. CASE Detail!Disconnect
        BY <4>2 DEF Detail!Disconnect
      <4>3. CASE Detail!WindowsGone
        BY <4>3 DEF Detail!WindowsGone
      <4>4. CASE Detail!ClosePhoto
        BY <4>4 DEF Detail!ClosePhoto
      <4>5. QED
        BY <3>6, <4>1, <4>2, <4>3, <4>4
    <3>7. CASE Detail!DeleteWindow \/ Detail!DestroyCoordinator
      <4>1. CASE Detail!DeleteWindow
        BY <4>1, Crops DEF Detail!DeleteWindow
      <4>2. CASE Detail!DestroyCoordinator
        BY <4>2, Crops DEF Detail!DestroyCoordinator
      <4>3. QED
        BY <3>7, <4>1, <4>2
    <3>11. CASE \E kind \in Detail!EditKinds : Detail!Edit(kind)
      <4>1. PICK kind \in Detail!EditKinds : Detail!Edit(kind)
        BY <3>11
      <4>2. nextParams' \in 1 .. MaxEdits + 1
        BY <4>1, Crops, SMTT(20), ZenonT(20) DEF Detail!Edit
      <4>3. gui' \in [pc : Detail!GuiPCs, on : Detail!AllCrops \cup {Detail!None}]
        BY <4>1 DEF Detail!Edit
      <4>4. QED
        BY <4>1, <4>2, <4>3 DEF Detail!Edit
    <3>12. CASE \E k \in Detail!AllCrops : Detail!Pan(k)
      <4>1. PICK k \in Detail!AllCrops : Detail!Pan(k)
        BY <3>12
      <4>2. pans' \in 0 .. MaxPans
        BY <4>1, Crops DEF Detail!Pan
      <4>3. gui' \in [pc : Detail!GuiPCs, on : Detail!AllCrops \cup {Detail!None}]
        BY <4>1 DEF Detail!Pan, Detail!Request
      <4>4. /\ pending' \in [Detail!AllCrops -> BOOLEAN]
            /\ running' \in [Detail!AllCrops -> BOOLEAN]
        BY <4>1 DEF Detail!Pan, Detail!Request
      <4>5. QED
        BY <4>1, <4>2, <4>3, <4>4 DEF Detail!Pan
    <3>13. CASE \E w \in Windows : Detail!Open(w) \/ Detail!PressClose(w)
      <4>1. PICK w \in Windows : Detail!Open(w) \/ Detail!PressClose(w)
        BY <3>13
      <4>2. life' \in [Detail!AllCrops -> {"unborn", "open", "closing", "freed"}]
        BY <4>1, Crops DEF Detail!Open, Detail!PressClose
      <4>3. gui' \in [pc : Detail!GuiPCs, on : Detail!AllCrops \cup {Detail!None}]
        BY <4>1, Crops DEF Detail!Open, Detail!PressClose
      <4>4. QED
        BY <4>1, <4>2, <4>3 DEF Detail!Open, Detail!PressClose
    <3>14. QED
      BY <1>3, <3>1, <3>2, <3>3, <3>4, <3>5, <3>6, <3>7, <3>11, <3>12, <3>13
      DEF OtherStep, Detail!GuiStep, Detail!UserStep
  <2>3. QED
    BY <1>1, <2>1, <2>2 DEF Detail!TypeOK
<1>4. QED
  BY <1>2, <1>3 DEF Detail!Next, OtherStep

-----------------------------------------------------------------------------
(* The shapes.                                                             *)

LEMMA GuiShapeKept == ASSUME Detail!TypeOK, GuiShape, Detail!Next PROVE GuiShape'
<1> USE DEF GuiShape, Deleting, Leaving
<1>1. life \in [Detail!AllCrops -> {"unborn", "open", "closing", "freed"}]
  BY DEF Detail!TypeOK
<1>2. gui \in [pc : Detail!GuiPCs, on : Detail!AllCrops \cup {Detail!None}]
  BY DEF Detail!TypeOK
<1>3. CASE Detail!WorkerStep
  BY <1>3, WorkerLeavesWindows
<1>4. CASE Detail!GuiStep
  <2>1. CASE Detail!StartProcessing
    BY <1>2, <2>1 DEF Detail!StartProcessing, Detail!Idle, Detail!cropVars
  <2>2. CASE Detail!Enable
    BY <1>2, <2>2, Crops DEF Detail!Enable, Detail!Request, Detail!coordVars
  <2>3. CASE Detail!Schedule
    BY <1>2, <2>3 DEF Detail!Schedule, Detail!Idle, Detail!coordVars, Detail!cropVars
  <2>4. CASE Detail!Settle
    BY <1>2, <2>4 DEF Detail!Settle, Detail!cropVars
  <2>5. CASE Detail!Mute
    BY <1>2, <2>5 DEF Detail!Mute, Detail!coordVars
  <2>6. CASE Detail!DeleteCrop
    BY <1>2, <2>6 DEF Detail!DeleteCrop, Detail!coordVars
  <2>7. CASE Detail!FreeCrop
    BY <1>1, <1>2, <2>7, Crops DEF Detail!FreeCrop, Detail!Idle, Detail!coordVars
  <2>8. CASE Detail!SignalStop
    BY <1>2, <2>8 DEF Detail!SignalStop, Detail!coordVars, Detail!cropVars
  <2>9. CASE Detail!Disconnect
    BY <1>2, <2>9 DEF Detail!Disconnect, Detail!coordVars
  <2>10. CASE Detail!DeleteWindow
    <3>1. PICK w \in Windows :
              /\ life[w] = "open"
              /\ life' = [life EXCEPT ![w] = "closing"]
              /\ gui' = [pc |-> "mute", on |-> w]
      BY <2>10 DEF Detail!DeleteWindow
    <3>2. QED
      BY <1>1, <2>10, <3>1, Crops DEF Detail!DeleteWindow, Detail!coordVars
  <2>11. CASE Detail!WindowsGone
    BY <1>2, <2>11 DEF Detail!WindowsGone, Detail!coordVars, Detail!cropVars
  <2>12. QED
    BY <1>4, <2>1, <2>2, <2>3, <2>4, <2>5, <2>6, <2>7, <2>8, <2>9, <2>10, <2>11
       DEF Detail!GuiStep
<1>5. CASE Detail!UserStep
  <2>1. ASSUME NEW kind \in Detail!EditKinds, Detail!Edit(kind) PROVE GuiShape'
    BY <1>2, <2>1 DEF Detail!Edit, Detail!cropVars
  <2>2. ASSUME NEW k \in Detail!AllCrops, Detail!Pan(k) PROVE GuiShape'
    BY <1>2, <2>2 DEF Detail!Pan, Detail!Request, Detail!Idle, Detail!coordVars
  <2>3. ASSUME NEW w \in Windows, Detail!Open(w) PROVE GuiShape'
    BY <1>1, <2>3, Crops DEF Detail!Open, Detail!coordVars
  <2>4. ASSUME NEW w \in Windows, Detail!PressClose(w) PROVE GuiShape'
    BY <1>1, <2>4, Crops DEF Detail!PressClose, Detail!coordVars
  <2>5. CASE Detail!ClosePhoto
    BY <1>2, <2>5 DEF Detail!ClosePhoto, Detail!cropVars
  <2>6. QED
    BY <1>5, <2>1, <2>2, <2>3, <2>4, <2>5 DEF Detail!UserStep
<1>6. CASE Detail!DestroyCoordinator
  BY <1>1, <1>2, <1>6, Crops DEF Detail!DestroyCoordinator, Detail!coordVars
<1>7. QED
  BY <1>3, <1>4, <1>5, <1>6 DEF Detail!Next

LEMMA WorkerShapeKept == ASSUME Detail!TypeOK, WorkerShape, Detail!Next PROVE WorkerShape'
<1> USE DEF WorkerRecords
<1> USE DEF WorkerShape
<1>1. /\ worker \in WorkerRecords
      /\ tasks \in Seq(Detail!AllCrops \cup {Detail!Photo})
  BY DEF Detail!TypeOK
<1>2. CASE OtherStep
  BY <1>2, OthersLeaveWorker
<1> USE DEF Detail!InPass, Detail!InFull, Detail!Reading, Detail!Resting
<1>3. CASE Detail!Take
  BY <1>3 DEF Detail!Take
<1>4. CASE Detail!Process
  <2>1. worker.job = Detail!Photo
    BY <1>4 DEF Detail!Process
  <2>2. \/ worker' = Detail!Resting
        \/ worker'.pc = "lock" /\ worker'.job = worker.job
    BY <1>1, <1>4 DEF Detail!Process
  <2>3. QED
    BY <2>1, <2>2
<1>5. CASE Detail!LockPass
  BY <1>1, <1>5 DEF Detail!LockPass
<1>6. CASE Detail!SkipLoop \/ Detail!GetSkip \/ Detail!Render
  BY <1>1, <1>6, ZenonT(30) DEF Detail!SkipLoop, Detail!GetSkip, Detail!Render, Detail!Fetch
<1>7. CASE Detail!EachCrop
  BY <1>1, <1>7 DEF Detail!EachCrop, Detail!Fetch
<1>8. CASE Detail!HasListener
  BY <1>1, <1>8 DEF Detail!HasListener, Detail!Fetch, Detail!NextCrop
<1>9. CASE Detail!WantedBySkip \/ Detail!FetchAgain
  BY <1>1, <1>9 DEF Detail!WantedBySkip, Detail!FetchAgain, Detail!Fetch, Detail!NextCrop
<1>10. CASE Detail!BeginUpdate
  BY <1>1, <1>10 DEF Detail!BeginUpdate
<1>11. CASE Detail!EndUpdate
  BY <1>1, <1>11 DEF Detail!EndUpdate, Detail!NextCrop
<1>12. CASE Detail!EndPass
  BY <1>1, <1>12 DEF Detail!EndPass
<1>13. CASE Detail!FullUpdate \/ Detail!TakePending
  BY <1>1, <1>13 DEF Detail!FullUpdate, Detail!TakePending
<1>14. QED
  BY <1>2, <1>3, <1>4, <1>5, <1>6, <1>7, <1>8, <1>9, <1>10, <1>11, <1>12, <1>13
  DEF Detail!Next, Detail!WorkerStep, OtherStep

LEMMA AtPlaceKept ==
    ASSUME DetailInv, Detail!Next, worker' \in WorkerRecords PROVE AtPlace'
<1> USE DEF WorkerRecords
<1>1. /\ worker \in WorkerRecords
      /\ slots \in [1 .. Detail!Capacity -> Detail!AllCrops] /\ size \in 1 .. Detail!Capacity
      /\ Detail!Capacity \in Nat /\ size \in Nat
      /\ AtPlace
  BY Crops DEF DetailInv, Detail!TypeOK
<1>2. CASE OtherStep
  BY <1>1, <1>2, OthersLeaveWorker DEF AtPlace, AtCrop, AtUpdates
<1>3. CASE Detail!WorkerStep
  <2>1. \A i \in 1 .. Detail!Capacity : slots[i] \in Detail!AllCrops
    BY <1>1
  <2>2. ASSUME worker'.pc \in {"idle", "enter", "lock", "render", "unlock"} \cup Detail!InFull
        PROVE  AtPlace'
    BY <2>2 DEF AtPlace, AtCrop, AtUpdates, Detail!InFull
  <2>3. ASSUME worker.at \in 1 .. Detail!Capacity, worker'.at = worker.at + 1,
               worker'.pc \in {"skip", "each"}
        PROVE  AtPlace'
    BY <1>1, <2>3 DEF AtPlace, AtCrop, AtUpdates
  <2>4. ASSUME worker.at \in 1 .. Detail!Capacity, worker'.at = worker.at,
               worker'.crop \in Detail!AllCrops
        PROVE  AtPlace'
    BY <1>1, <2>4 DEF AtPlace, AtCrop, AtUpdates
  <2>5. CASE Detail!Take \/ Detail!Process \/ Detail!EndPass
    <3>1. worker'.pc \in {"idle", "enter", "fullLock", "lock"}
      <4>1. CASE Detail!Take
        BY <4>1 DEF Detail!Take, Detail!Resting
      <4>2. CASE Detail!Process
        <5>1. worker' = Detail!Resting \/ worker'.pc = "lock"
          BY <1>1, <4>2 DEF Detail!Process
        <5>2. QED
          BY <5>1 DEF Detail!Resting
      <4>3. CASE Detail!EndPass
        BY <4>3 DEF Detail!EndPass, Detail!Resting
      <4>4. QED
        BY <2>5, <4>1, <4>2, <4>3
    <3>2. QED
      BY <2>2, <3>1 DEF Detail!InFull
  <2>6. CASE Detail!FullUpdate \/ Detail!TakePending
    <3>1. worker'.pc \in {"idle", "fullLoop", "fullUpdate"}
      BY <1>1, <2>6 DEF Detail!FullUpdate, Detail!TakePending, Detail!Resting
    <3>2. QED
      BY <2>2, <3>1 DEF Detail!InFull
  <2>7. CASE Detail!LockPass \/ Detail!Render
    <3>1. \/ worker'.pc \in {"skip", "each"} /\ worker'.at = 1
          \/ worker'.pc \in {"render", "unlock"}
      BY <1>1, <2>7 DEF Detail!LockPass, Detail!Render
    <3>2. QED
      BY <1>1, <2>2, <3>1 DEF AtPlace, AtCrop, AtUpdates
  <2>8. CASE Detail!SkipLoop \/ Detail!EachCrop
    <3>1. worker.at \in 1 .. Detail!Capacity + 1
      BY <1>1, <2>8 DEF Detail!SkipLoop, Detail!EachCrop, AtPlace, AtUpdates
    <3>2. CASE worker.at > size
      <4>1. worker'.pc \in {"render", "unlock"}
        BY <1>1, <2>8, <3>2 DEF Detail!SkipLoop, Detail!EachCrop
      <4>2. QED
        BY <2>2, <4>1
    <3>3. CASE ~ worker.at > size
      <4>1. worker'.at = worker.at /\ worker'.crop = slots[worker.at]
        BY <1>1, <2>8, <3>3 DEF Detail!SkipLoop, Detail!EachCrop, Detail!Fetch
      <4>2. worker.at \in 1 .. Detail!Capacity
        BY <1>1, <3>1, <3>3
      <4>3. QED
        BY <2>1, <2>4, <4>1, <4>2
    <3>4. QED
      BY <3>2, <3>3
  <2>9. CASE AtCrop /\ (Detail!GetSkip \/ Detail!HasListener \/ Detail!WantedBySkip
                           \/ Detail!FetchAgain)
    <3>1. worker.at \in 1 .. Detail!Capacity /\ worker.crop \in Detail!AllCrops
      BY <1>1, <2>9 DEF AtPlace
    <3>2. \/ worker'.pc = "render"
          \/ worker'.at = worker.at + 1 /\ worker'.pc \in {"skip", "each"}
          \/ worker'.at = worker.at /\ worker'.crop \in {worker.crop, slots[worker.at]}
      <4>1. CASE Detail!GetSkip
        BY <1>1, <4>1 DEF Detail!GetSkip
      <4>2. CASE Detail!HasListener
        BY <1>1, <4>2 DEF Detail!HasListener, Detail!Fetch, Detail!NextCrop
      <4>3. CASE Detail!WantedBySkip \/ Detail!FetchAgain
        BY <1>1, <4>3 DEF Detail!WantedBySkip, Detail!FetchAgain, Detail!Fetch,
           Detail!NextCrop
      <4>4. QED
        BY <2>9, <4>1, <4>2, <4>3
    <3>3. QED
      BY <2>1, <2>2, <2>3, <2>4, <3>1, <3>2
  <2>10. CASE Detail!BeginUpdate
    <3>1. /\ worker'.pc = "updating" /\ worker'.job = worker.job
          /\ worker'.at = worker.at /\ worker'.crop = worker.crop
      BY <1>1, <2>10 DEF Detail!BeginUpdate
    <3>2. worker.pc = "update" \/ worker'.job # Detail!Photo
      <4>1. worker.pc = "fullUpdate" => worker.job = worker.crop
        BY DEF DetailInv, WorkerShape, Detail!InFull
      <4>2. \A k \in Detail!AllCrops \cup {Detail!None} : k # Detail!Photo
        BY Crops DEF Detail!Photo, Detail!None
      <4>3. QED
        BY <1>1, <2>10, <3>1, <4>1, <4>2 DEF Detail!BeginUpdate
    <3>3. QED
      BY <1>1, <3>1, <3>2 DEF AtPlace, AtCrop, AtUpdates
  <2>11. CASE Detail!EndUpdate
    <3>1. CASE worker.job = Detail!Photo
      <4>1. worker'.pc = "each" /\ worker'.at = worker.at + 1
        BY <1>1, <2>11, <3>1 DEF Detail!EndUpdate, Detail!NextCrop
      <4>2. worker.at \in 1 .. Detail!Capacity
        BY <1>1, <2>11, <3>1 DEF Detail!EndUpdate, AtPlace, AtCrop
      <4>3. QED
        BY <2>3, <4>1, <4>2
    <3>2. CASE worker.job # Detail!Photo
      <4>1. worker'.pc = "fullLoop"
        BY <1>1, <2>11, <3>2 DEF Detail!EndUpdate
      <4>2. QED
        BY <2>2, <4>1 DEF Detail!InFull
    <3>3. QED
      BY <3>1, <3>2
  <2>12. QED
    BY <1>3, <2>5, <2>6, <2>7, <2>8, <2>9, <2>10, <2>11
    DEF Detail!WorkerStep, AtCrop, Detail!GetSkip, Detail!HasListener,
        Detail!WantedBySkip, Detail!FetchAgain
<1>4. QED
  BY <1>2, <1>3 DEF Detail!Next, OtherStep

\* What the GUI thread does, short of closing the photo or cutting a walk short:
\* no crop that was created is heard less than before, unless it is closed, and
\* under a pass the vector only grows.
LEMMA OthersAtCrops ==
    ASSUME DetailInv, OtherStep, ~ cutShort', ~ destroying'
    PROVE  /\ ~ cutShort /\ ~ destroying
           /\ \A k \in Detail!AllCrops :
                 life[k] # "unborn" =>
                    /\ life'[k] # "unborn"
                    /\ life'[k] = "open" => life[k] = "open"
                    /\ life'[k] = "open" /\ listening[k] => listening'[k]
           /\ Detail!Walking =>
                 size' >= size /\ \A i \in 1 .. size : slots'[i] = slots[i]
<1> DEFINE Crop(k) == life[k] # "unborn" =>
                         /\ life'[k] # "unborn"
                         /\ life'[k] = "open" => life[k] = "open"
                         /\ life'[k] = "open" /\ listening[k] => listening'[k]
           Grows == Detail!Walking =>
                       size' >= size /\ \A i \in 1 .. size : slots'[i] = slots[i]
           Claim == ~ cutShort /\ ~ destroying /\ Grows /\ \A k \in Detail!AllCrops : Crop(k)
<1>1. /\ slots \in [1 .. Detail!Capacity -> Detail!AllCrops] /\ size \in 1 .. Detail!Capacity
      /\ listening \in [Detail!AllCrops -> BOOLEAN]
      /\ life \in [Detail!AllCrops -> {"unborn", "open", "closing", "freed"}]
      /\ Detail!Capacity \in Nat
  BY Crops DEF DetailInv, Detail!TypeOK
<1>2. ASSUME UNCHANGED <<slots, size>> PROVE Grows
  BY <1>1, <1>2
<1>3. ASSUME UNCHANGED <<life, listening>> PROVE \A k \in Detail!AllCrops : Crop(k)
  BY <1>3
<1>4. ASSUME UNCHANGED <<slots, size, cutShort, destroying>>,
             \A k \in Detail!AllCrops : Crop(k)
      PROVE  Claim
  BY <1>2, <1>4
<1>5. ASSUME UNCHANGED <<slots, size, cutShort, destroying, life, listening>> PROVE Claim
  BY <1>3, <1>4, <1>5
<1> SUFFICES Claim
  OBVIOUS
<1> USE DEF Detail!past
<1>6. CASE Detail!GuiStep
  <2>1. CASE Detail!StartProcessing \/ Detail!Schedule \/ Detail!Settle
    <3> HIDE DEF Claim, Crop
    <3>1. QED
      BY <1>5, <2>1 DEF Detail!StartProcessing, Detail!Schedule, Detail!Settle,
         Detail!coordVars, Detail!cropVars
  <2>2. CASE Detail!Enable
    <3>1. \A k \in Detail!AllCrops : Crop(k)
      BY <1>1, <2>2 DEF Detail!Enable
    <3>2. QED
      BY <1>4, <2>2, <3>1 DEF Detail!Enable, Detail!coordVars
  <2>3. CASE Detail!Mute
    <3>1. life[gui.on] = "closing" /\ gui.on \in Detail!AllCrops
      BY <2>3, Crops DEF Detail!Mute, DetailInv, GuiShape, Deleting
    <3>2. \A k \in Detail!AllCrops : Crop(k)
      BY <1>1, <2>3, <3>1 DEF Detail!Mute
    <3>3. QED
      BY <1>4, <2>3, <3>2 DEF Detail!Mute, Detail!coordVars
  <2>4. CASE Detail!DeleteCrop
    <3>1. ~ cutShort /\ ~ Detail!Walking
      BY <2>4 DEF Detail!DeleteCrop
    <3>2. UNCHANGED <<life, listening, destroying>>
      BY <2>4 DEF Detail!DeleteCrop, Detail!coordVars
    <3>3. QED
      BY <1>3, <3>1, <3>2
  <2>5. CASE Detail!FreeCrop
    <3>1. life[gui.on] = "closing" /\ gui.on \in Detail!AllCrops
      BY <2>5, Crops DEF Detail!FreeCrop, DetailInv, GuiShape, Deleting
    <3>2. \A k \in Detail!AllCrops : Crop(k)
      BY <1>1, <2>5, <3>1 DEF Detail!FreeCrop
    <3>3. QED
      BY <1>4, <2>5, <3>2 DEF Detail!FreeCrop, Detail!coordVars
  <2>6. CASE Detail!SignalStop \/ Detail!Disconnect \/ Detail!WindowsGone
                \/ Detail!DeleteWindow
    <3>1. destroying
      BY <2>6 DEF Detail!SignalStop, Detail!Disconnect, Detail!WindowsGone,
         Detail!DeleteWindow, DetailInv, GuiShape, Leaving
    <3>2. destroying' = destroying
      BY <2>6 DEF Detail!SignalStop, Detail!Disconnect, Detail!WindowsGone,
         Detail!DeleteWindow, Detail!coordVars
    <3>3. QED
      BY <3>1, <3>2
  <2>7. QED
    BY <1>6, <2>1, <2>2, <2>3, <2>4, <2>5, <2>6 DEF Detail!GuiStep
<1>7. ASSUME NEW kind \in Detail!EditKinds, Detail!Edit(kind) PROVE Claim
  <2> HIDE DEF Claim, Crop
  <2>1. QED
    BY <1>5, <1>7 DEF Detail!Edit, Detail!cropVars
<1>8. ASSUME NEW k \in Detail!AllCrops, Detail!Pan(k) PROVE Claim
  <2> HIDE DEF Claim, Crop
  <2>1. QED
    BY <1>5, <1>8 DEF Detail!Pan, Detail!coordVars
<1>9. ASSUME NEW w \in Windows, Detail!Open(w) PROVE Claim
  <2>1. \A k \in Detail!AllCrops : Crop(k)
    BY <1>1, <1>9 DEF Detail!Open
  <2>2. Grows
    BY <1>1, <1>9, Crops DEF Detail!Open, Detail!PushBack
  <2>3. ~ cutShort /\ ~ destroying
    BY <1>9 DEF Detail!Open, Detail!coordVars
  <2>4. QED
    BY <2>1, <2>2, <2>3
<1>10. ASSUME NEW w \in Windows, Detail!PressClose(w) PROVE Claim
  <2>1. \A k \in Detail!AllCrops : Crop(k)
    BY <1>1, <1>10 DEF Detail!PressClose
  <2>2. QED
    BY <1>4, <1>10, <2>1 DEF Detail!PressClose, Detail!coordVars
<1>11. CASE Detail!ClosePhoto
  BY <1>11 DEF Detail!ClosePhoto
<1>12. CASE Detail!DestroyCoordinator
  <2>1. destroying /\ destroying' = destroying
    BY <1>12 DEF Detail!DestroyCoordinator, Detail!coordVars, DetailInv, GuiShape, Leaving
  <2>2. QED
    BY <2>1
<1>13. QED
  BY <1>6, <1>7, <1>8, <1>9, <1>10, <1>11, <1>12 DEF OtherStep, Detail!UserStep

LEMMA OpenIsHeardKept ==
    ASSUME Detail!TypeOK, GuiShape, OpenIsHeard, Detail!Next PROVE OpenIsHeard'
<1> USE DEF OpenIsHeard
<1>1. /\ listening \in [Detail!AllCrops -> BOOLEAN]
      /\ life \in [Detail!AllCrops -> {"unborn", "open", "closing", "freed"}]
      /\ gui \in [pc : Detail!GuiPCs, on : Detail!AllCrops \cup {Detail!None}]
  BY DEF Detail!TypeOK
<1>2. CASE Detail!WorkerStep
  BY <1>2, WorkerLeavesWindows
<1>3. CASE Detail!GuiStep
  <2>1. CASE Detail!StartProcessing \/ Detail!Schedule \/ Detail!Settle
    BY <2>1 DEF Detail!StartProcessing, Detail!Schedule, Detail!Settle, Detail!coordVars,
       Detail!cropVars
  <2>2. CASE Detail!Enable
    BY <1>1, <2>2 DEF Detail!Enable, Detail!coordVars
  <2>3. CASE Detail!Mute
    BY <1>1, <2>3 DEF Detail!Mute, Detail!coordVars, GuiShape, Deleting
  <2>4. CASE Detail!DeleteCrop \/ Detail!FreeCrop
    BY <1>1, <2>4 DEF Detail!DeleteCrop, Detail!FreeCrop, Detail!coordVars
  <2>5. CASE Detail!SignalStop \/ Detail!WindowsGone
    BY <2>5 DEF Detail!SignalStop, Detail!WindowsGone, Detail!coordVars, Detail!cropVars
  <2>6. CASE Detail!Disconnect \/ Detail!DeleteWindow
    BY <1>1, <2>6 DEF Detail!Disconnect, Detail!DeleteWindow, Detail!coordVars, GuiShape,
       Leaving
  <2>7. QED
    BY <1>3, <2>1, <2>2, <2>3, <2>4, <2>5, <2>6 DEF Detail!GuiStep
<1>4. ASSUME NEW kind \in Detail!EditKinds, Detail!Edit(kind) PROVE OpenIsHeard'
  BY <1>4 DEF Detail!Edit, Detail!cropVars
<1>5. ASSUME NEW k \in Detail!AllCrops, Detail!Pan(k) PROVE OpenIsHeard'
  BY <1>5 DEF Detail!Pan, Detail!coordVars
<1>6. ASSUME NEW w \in Windows, Detail!Open(w) \/ Detail!PressClose(w) PROVE OpenIsHeard'
  BY <1>1, <1>6, Crops DEF Detail!Open, Detail!PressClose, Detail!coordVars
<1>7. CASE Detail!ClosePhoto
  BY <1>7 DEF Detail!ClosePhoto, Detail!cropVars
<1>8. CASE Detail!DestroyCoordinator
  BY <1>1, <1>8 DEF Detail!DestroyCoordinator, Detail!coordVars
<1>9. QED
  BY <1>2, <1>3, <1>4, <1>5, <1>6, <1>7, <1>8 DEF Detail!Next, Detail!UserStep

-----------------------------------------------------------------------------
(* A pass.                                                                 *)

LEMMA PassShapeKept ==
    ASSUME DetailInv, Detail!Next, size' \in Nat, WorkerShape'
    PROVE  PassShape'
<1> USE DEF WorkerRecords
<1>0. /\ worker \in WorkerRecords
      /\ slots \in [1 .. Detail!Capacity -> Detail!AllCrops] /\ size \in 1 .. Detail!Capacity
      /\ Detail!Capacity \in Nat /\ size \in Nat
      /\ shown \in [Detail!AllCrops -> 0 .. MaxEdits + 1]
      /\ listening \in [Detail!AllCrops -> BOOLEAN]
  BY Crops DEF DetailInv, Detail!TypeOK
<1> SUFFICES ASSUME ~ cutShort', ~ destroying' PROVE PassIs'
  BY DEF PassShape
<1> USE DEF AtCrop, AtUpdates, Passing, Done, Heard, Detail!InPass, Detail!Reading
<1>2. CASE OtherStep
  <2>1. UNCHANGED <<worker, params, shown>>
    BY <1>2, OthersLeaveWorker
  <2>2. PassIs
    BY <1>2, OthersAtCrops DEF DetailInv, PassShape
  <2>3. /\ \A k \in Detail!AllCrops :
              life[k] # "unborn" =>
                 /\ life'[k] # "unborn"
                 /\ life'[k] = "open" => life[k] = "open"
                 /\ life'[k] = "open" /\ listening[k] => listening'[k]
        /\ AtCrop \/ AtUpdates \/ worker.pc = "skip" =>
              size' >= size /\ \A i \in 1 .. size : slots'[i] = slots[i]
    BY <1>2, OthersAtCrops DEF Detail!Walking
  <2>4. worker.present \subseteq Detail!AllCrops /\ worker.at \in Nat
    BY <1>0, Crops
  <2>5. Passing => \A k \in worker.present : Heard(k) /\ Heard(k)'
    BY <2>2, <2>3, <2>4 DEF PassIs
  <2>6. AtCrop \/ AtUpdates \/ worker.pc = "skip" => worker.at \in 1 .. size' + 1
    BY <1>0, <2>2, <2>3 DEF PassIs
  <2>7. AtCrop => worker.at <= size' /\ worker.crop = slots'[worker.at]
    BY <1>0, <2>2, <2>3 DEF PassIs
  <2>8. AtUpdates => \A i \in 1 .. size' :
            i < worker.at /\ slots'[i] \in worker.present => Done(slots[i])'
    <3>1. SUFFICES ASSUME AtUpdates, NEW i \in 1 .. size', i < worker.at,
                          slots'[i] \in worker.present
                   PROVE  Done(slots[i])'
      OBVIOUS
    <3>2. i \in 1 .. size /\ slots'[i] = slots[i]
      BY <1>0, <2>2, <2>3, <2>4, <3>1 DEF PassIs
    <3>3. PICK c \in Detail!AllCrops : c = slots[i]
      BY <1>0, <2>4, <3>1, <3>2
    <3>4. Done(c) /\ c \in worker.present
      BY <2>2, <3>1, <3>2, <3>3 DEF PassIs
    <3>5. life'[c] = "open" => life[c] = "open"
      BY <2>3, <2>5, <3>1, <3>4
    <3>6. Done(c)'
      BY <2>1, <3>4, <3>5
    <3>7. QED
      BY <3>2, <3>3, <3>6
  <2>9. worker.pc = "wantSkip" =>
            /\ ~ worker.wanted
            /\ worker.crop \in worker.present /\ life'[worker.crop] = "open" => worker.heard
    BY <2>2, <2>3, <2>4, <2>5 DEF PassIs
  <2>10. worker.pc = "unlock" => \A k \in worker.present : Done(k)'
    BY <2>1, <2>2, <2>3, <2>4, <2>5 DEF PassIs
  <2>11. QED
    BY <2>1, <2>5, <2>6, <2>7, <2>8, <2>9, <2>10 DEF PassIs
<1>3. CASE Detail!WorkerStep
  <2>1. UNCHANGED <<slots, size, life, listening>> /\ ~ destroying
    BY <1>3, WorkerLeavesWindows
  <2>0. PassIs
    BY <1>3, WorkerLeavesWindows DEF DetailInv, PassShape
  <2>2. /\ ListedCrops = AliveCrops
        /\ Passing => worker.job = Detail!Photo
    BY DEF DetailInv, Detail!VectorIsExact, ListedCrops, AliveCrops, WorkerShape
  <2>3. worker.pc = "fullUpdate" => worker.job # Detail!Photo
    BY <1>0, Crops DEF DetailInv, WorkerShape, Detail!InFull, Detail!None, Detail!Photo
  \* The loop goes on to the next crop.
  <2>4. ASSUME AtCrop, worker' = Detail!NextCrop, params' = params,
               \A i \in 1 .. size : i <= worker.at /\ slots[i] \in worker.present => Done(slots[i])'
        PROVE  PassIs'
    <3>1. /\ worker'.pc = "each" /\ worker'.at = worker.at + 1
          /\ worker'.present = worker.present /\ worker'.wanted = worker.wanted
          /\ worker'.crop = worker.crop
      BY <1>0, <2>4 DEF Detail!NextCrop
    <3>2. worker.at \in 1 .. size /\ worker.at \in Nat
      BY <1>0, <2>0, <2>4 DEF PassIs
    <3>3. \A k \in worker.present : Heard(k)
      BY <2>0, <2>4 DEF PassIs
    <3>4. \A i \in 1 .. size : i < worker'.at /\ slots[i] \in worker.present => Done(slots[i])'
      BY <1>0, <2>4, <3>1, <3>2
    <3>5. \A i \in 1 .. size' :
              i < worker'.at /\ slots'[i] \in worker'.present => Done(slots[i])'
      BY <2>1, <3>1, <3>4
    <3>6. worker'.at \in 1 .. size' + 1
      BY <1>0, <2>1, <3>1, <3>2
    <3>7. \A k \in worker'.present : Heard(k)'
      BY <2>1, <3>1, <3>3
    <3>8. QED
      BY <3>1, <3>5, <3>6, <3>7 DEF PassIs
  \* The loop stays at its crop.
  <2>5. ASSUME AtCrop \/ AtUpdates, worker.at <= size,
               worker'.pc \in {"hear", "wantSkip", "again", "update"}
                 \/ (worker'.pc = "updating" /\ worker'.job = Detail!Photo),
               worker'.at = worker.at, worker'.crop = slots[worker.at],
               worker'.present = worker.present, worker'.wanted = worker.wanted,
               AtUpdates, UNCHANGED <<shown, params>>,
               worker'.pc = "wantSkip" =>
                  /\ ~ worker.wanted
                  /\ slots[worker.at] \in worker.present /\ life[slots[worker.at]] = "open"
                        => worker'.heard
        PROVE  PassIs'
    <3>1. \A k \in worker.present : Heard(k)
      BY <2>0, <2>5 DEF PassIs
    <3>2. worker.at \in 1 .. size + 1 /\ worker.at \in Nat
      BY <1>0, <2>0, <2>5 DEF PassIs
    <3>3. \A i \in 1 .. size : i < worker.at /\ slots[i] \in worker.present => Done(slots[i])
      BY <2>0, <2>5 DEF PassIs
    <3>4. QED
      BY <1>0, <2>1, <2>5, <3>1, <3>2, <3>3 DEF PassIs
  <2>6. ASSUME ~ Passing' PROVE PassIs'
    BY <2>6 DEF PassIs
  <2>7. CASE Detail!Take
    BY <2>6, <2>7 DEF Detail!Take, Detail!Resting
  <2>8. CASE Detail!Process
    <3>1. CASE destroying \/ changeSinceLast = {}
      BY <2>6, <2>8, <3>1 DEF Detail!Process, Detail!Resting
    <3>2. CASE ~ (destroying \/ changeSinceLast = {})
      <4>1. /\ worker'.pc = "lock"
            /\ worker'.present = {k \in Detail!AllCrops : life[k] = "open" /\ listening[k]}
        BY <1>0, <2>8, <3>2 DEF Detail!Process
      <4>2. QED
        BY <2>1, <4>1 DEF PassIs
    <3>3. QED
      BY <3>1, <3>2
  <2>9. CASE Detail!LockPass
    <3>1. /\ worker'.pc \in {"render", "skip"} /\ worker'.at = 1
          /\ worker'.present = worker.present
      BY <1>0, <2>9 DEF Detail!LockPass
    <3>2. QED
      BY <1>0, <2>0, <2>1, <2>9, <3>1 DEF PassIs, Detail!LockPass
  <2>10. CASE Detail!SkipLoop
    <3>1. CASE worker.at > size
      <4>1. worker'.pc = "render" /\ worker'.present = worker.present
        BY <1>0, <2>10, <3>1 DEF Detail!SkipLoop
      <4>2. QED
        BY <2>0, <2>1, <2>10, <4>1 DEF PassIs, Detail!SkipLoop
    <3>2. CASE ~ worker.at > size
      <4>1. /\ worker'.pc = "getSkip" /\ worker'.present = worker.present
            /\ worker'.at = worker.at /\ worker'.crop = slots[worker.at]
        BY <1>0, <2>10, <3>2 DEF Detail!SkipLoop, Detail!Fetch
      <4>2. worker.at \in 1 .. size
        BY <1>0, <2>0, <2>10, <3>2 DEF PassIs, Detail!SkipLoop
      <4>3. QED
        BY <1>0, <2>0, <2>1, <2>10, <4>1, <4>2 DEF PassIs, Detail!SkipLoop
    <3>3. QED
      BY <3>1, <3>2
  <2>11. CASE Detail!GetSkip
    <3>1. /\ worker'.present = worker.present
          /\ \/ worker'.pc = "render"
             \/ worker'.pc = "skip" /\ worker'.at = worker.at + 1
      BY <1>0, <2>11 DEF Detail!GetSkip
    <3>2. worker.at \in 1 .. size
      BY <1>0, <2>0, <2>11 DEF PassIs, Detail!GetSkip
    <3>3. \A k \in worker.present : Heard(k)
      BY <2>0, <2>11 DEF PassIs, Detail!GetSkip
    <3>4. QED
      BY <1>0, <2>1, <3>1, <3>2, <3>3 DEF PassIs
  <2>12. CASE Detail!Render
    <3>1. ~ destroying
      BY <2>1
    <3>2. /\ worker'.present = worker.present
          /\ worker'.pc = "each" /\ worker'.at = 1
      BY <1>0, <2>12, <3>1 DEF Detail!Render
    <3>3. \A k \in worker.present : Heard(k)
      BY <2>0, <2>12 DEF PassIs, Detail!Render
    <3>4. QED
      BY <1>0, <2>1, <3>2, <3>3 DEF PassIs
  <2>13. CASE Detail!EachCrop
    <3>1. UNCHANGED <<shown, params>>
      BY <2>13 DEF Detail!EachCrop, Detail!WorkerOnly, Detail!coordVars, Detail!cropVars
    <3>2. CASE worker.at > size
      <4>1. /\ worker'.pc = "unlock" /\ worker'.present = worker.present
            /\ worker'.wanted = worker.wanted
        BY <1>0, <2>13, <3>2 DEF Detail!EachCrop
      <4>2. \A k \in worker.present : Heard(k)
        BY <2>0, <2>13 DEF PassIs, Detail!EachCrop
      <4>3. ASSUME NEW k \in worker.present, life[k] = "open" PROVE Done(k)
        <5>1. k \in Detail!AllCrops
          BY <1>0
        <5>2. gui.pc = "free" /\ gui.on = k => life[k] = "closing"
          BY <5>1 DEF DetailInv, GuiShape, Deleting
        <5>3. k \in ListedCrops
          BY <2>2, <4>3, <5>1, <5>2 DEF AliveCrops
        <5>4. PICK i \in 1 .. size : slots[i] = k
          BY <5>3 DEF ListedCrops
        <5>5. i < worker.at
          BY <1>0, <3>2, <5>4
        <5>6. QED
          BY <2>0, <2>13, <5>4, <5>5 DEF PassIs, Detail!EachCrop
      <4>4. QED
        BY <2>1, <3>1, <4>1, <4>2, <4>3 DEF PassIs
    <3>3. CASE ~ worker.at > size
      <4>1. /\ worker'.pc = "hear" /\ worker'.at = worker.at /\ worker'.crop = slots[worker.at]
            /\ worker'.present = worker.present /\ worker'.wanted = worker.wanted
        BY <1>0, <2>13, <3>3 DEF Detail!EachCrop, Detail!Fetch
      <4>2. worker.at <= size
        BY <1>0, <3>3
      <4>3. AtUpdates
        BY <2>13 DEF Detail!EachCrop
      <4>4. QED
        BY <2>5, <3>1, <4>1, <4>2, <4>3
    <3>4. QED
      BY <3>2, <3>3
  \* What the loop knows at a crop.
  <2>14. ASSUME AtCrop, AtUpdates
         PROVE  /\ worker.at \in 1 .. size /\ worker.crop = slots[worker.at]
                /\ worker.crop \in Detail!AllCrops
                /\ worker.crop \in worker.present /\ life[worker.crop] = "open" =>
                      listening[worker.crop]
                /\ \A i \in 1 .. size :
                      i < worker.at /\ slots[i] \in worker.present => Done(slots[i])
                /\ \A i \in 1 .. size : i <= worker.at => i < worker.at \/ slots[i] = worker.crop
    BY <1>0, <2>0, <2>14 DEF PassIs
  <2>15. CASE Detail!HasListener
    <3>1. AtCrop /\ AtUpdates /\ UNCHANGED <<shown, params>>
      BY <2>15 DEF Detail!HasListener, Detail!WorkerOnly, Detail!coordVars, Detail!cropVars
    <3>2. CASE ~ worker.wanted
      <4>1. /\ worker'.pc = "wantSkip" /\ worker'.at = worker.at
            /\ worker'.crop = slots[worker.at] /\ worker'.heard = listening[worker.crop]
            /\ worker'.present = worker.present /\ worker'.wanted = worker.wanted
        BY <1>0, <2>15, <3>2 DEF Detail!HasListener, Detail!Fetch
      <4>2. QED
        BY <1>0, <2>5, <2>14, <3>1, <3>2, <4>1
    <3>3. CASE worker.wanted /\ listening[worker.crop]
      <4>1. /\ worker'.pc = "again" /\ worker'.at = worker.at /\ worker'.crop = worker.crop
            /\ worker'.present = worker.present /\ worker'.wanted = worker.wanted
        BY <1>0, <2>15, <3>3 DEF Detail!HasListener
      <4>2. QED
        BY <1>0, <2>5, <2>14, <3>1, <4>1
    <3>4. CASE worker.wanted /\ ~ listening[worker.crop]
      <4>1. worker' = Detail!NextCrop
        BY <2>15, <3>4 DEF Detail!HasListener
      <4>2. worker'.wanted = worker.wanted
        BY <1>0, <4>1 DEF Detail!NextCrop
      <4>3. \A i \in 1 .. size :
                i <= worker.at /\ slots[i] \in worker.present => Done(slots[i])'
        BY <2>1, <2>14, <3>1, <3>4, <4>2
      <4>4. QED
        BY <2>4, <3>1, <4>1, <4>3
    <3>5. QED
      BY <1>0, <3>2, <3>3, <3>4
  <2>16. CASE Detail!WantedBySkip
    <3>1. AtCrop /\ AtUpdates /\ UNCHANGED <<shown, params>>
      BY <2>16 DEF Detail!WantedBySkip, Detail!WorkerOnly, Detail!coordVars, Detail!cropVars
    <3>2. /\ ~ worker.wanted
          /\ worker.crop \in worker.present /\ life[worker.crop] = "open" => worker.heard
      BY <2>0, <2>16 DEF PassIs, Detail!WantedBySkip
    <3>3. CASE worker.heard /\ worker.crop \in Full
      <4>1. /\ worker'.pc = "again" /\ worker'.at = worker.at /\ worker'.crop = worker.crop
            /\ worker'.present = worker.present /\ worker'.wanted = worker.wanted
        BY <1>0, <2>16, <3>3 DEF Detail!WantedBySkip
      <4>2. QED
        BY <1>0, <2>5, <2>14, <3>1, <4>1
    <3>4. CASE ~ (worker.heard /\ worker.crop \in Full)
      <4>1. worker' = Detail!NextCrop
        BY <2>16, <3>4 DEF Detail!WantedBySkip
      <4>2. worker'.wanted = worker.wanted
        BY <1>0, <4>1 DEF Detail!NextCrop
      <4>3. \A i \in 1 .. size :
                i <= worker.at /\ slots[i] \in worker.present => Done(slots[i])'
        BY <2>1, <2>14, <3>1, <3>2, <3>4, <4>2
      <4>4. QED
        BY <2>4, <3>1, <4>1, <4>3
    <3>5. QED
      BY <3>3, <3>4
  <2>17. CASE Detail!FetchAgain
    <3>1. AtCrop /\ AtUpdates /\ UNCHANGED <<shown, params>>
      BY <2>17 DEF Detail!FetchAgain, Detail!WorkerOnly, Detail!coordVars, Detail!cropVars
    <3>2. /\ worker'.pc = "update" /\ worker'.at = worker.at /\ worker'.crop = slots[worker.at]
          /\ worker'.present = worker.present /\ worker'.wanted = worker.wanted
      BY <1>0, <2>17 DEF Detail!FetchAgain, Detail!Fetch
    <3>3. QED
      BY <1>0, <2>5, <2>14, <3>1, <3>2
  <2>18. CASE Detail!BeginUpdate
    <3>1. /\ worker'.pc = "updating" /\ worker'.job = worker.job
          /\ worker'.at = worker.at /\ worker'.crop = worker.crop
          /\ worker'.present = worker.present /\ worker'.wanted = worker.wanted
          /\ UNCHANGED <<shown, params>>
      BY <1>0, <2>18 DEF Detail!BeginUpdate, Detail!coordVars
    <3>2. CASE worker.pc = "update"
      <4>1. AtCrop /\ AtUpdates /\ worker'.job = Detail!Photo
        BY <2>2, <3>1, <3>2
      <4>2. QED
        BY <1>0, <2>5, <2>14, <3>1, <4>1
    <3>3. CASE worker.pc = "fullUpdate"
      BY <2>3, <2>6, <3>1, <3>3
    <3>4. QED
      BY <2>18, <3>2, <3>3 DEF Detail!BeginUpdate
  <2>19. CASE Detail!EndUpdate
    <3>1. CASE worker.job # Detail!Photo
      <4>1. worker'.pc = "fullLoop"
        BY <1>0, <2>19, <3>1 DEF Detail!EndUpdate
      <4>2. QED
        BY <2>6, <4>1
    <3>2. CASE worker.job = Detail!Photo
      <4>1. worker' = Detail!NextCrop /\ params' = params /\ AtCrop /\ AtUpdates
        BY <2>19, <3>2 DEF Detail!EndUpdate, Detail!coordVars
      <4>2. shown' = IF listening[worker.crop] THEN [shown EXCEPT ![worker.crop] = params]
                     ELSE shown
        BY <2>1, <2>19 DEF Detail!EndUpdate
      <4>3. worker'.wanted = worker.wanted
        BY <1>0, <4>1 DEF Detail!NextCrop
      <4>4. \A k \in Detail!AllCrops : shown'[k] = shown[k] \/ shown'[k] = params
        BY <1>0, <4>2
      <4>5. worker.crop \in worker.present /\ life[worker.crop] = "open" =>
                shown'[worker.crop] = params
        BY <1>0, <2>14, <4>1, <4>2
      <4>6. worker.present \subseteq Detail!AllCrops
        BY <1>0
      <4>7. \A i \in 1 .. size :
                i <= worker.at /\ slots[i] \in worker.present => Done(slots[i])'
        BY <2>1, <2>14, <4>1, <4>3, <4>4, <4>5, <4>6
      <4>8. QED
        BY <2>4, <4>1, <4>7
    <3>3. QED
      BY <3>1, <3>2
  <2>20. CASE Detail!EndPass
    BY <2>6, <2>20 DEF Detail!EndPass, Detail!Resting
  <2>21. CASE Detail!FullUpdate \/ Detail!TakePending
    BY <1>0, <2>6, <2>21 DEF Detail!FullUpdate, Detail!TakePending, Detail!Resting
  <2>22. QED
    BY <1>3, <2>7, <2>8, <2>9, <2>10, <2>11, <2>12, <2>13, <2>15, <2>16, <2>17, <2>18,
       <2>19,
       <2>20, <2>21 DEF Detail!WorkerStep
<1>4. QED
  BY <1>2, <1>3 DEF Detail!Next, OtherStep

-----------------------------------------------------------------------------
(* What is due.                                                            *)

\* A crop and the photo are different tasks, and who is at a crop is its task.
LEMMA JobsDiffer ==
    ASSUME Detail!TypeOK, WorkerShape
    PROVE  /\ worker.pc \in Detail!InFull => worker.job = worker.crop /\ worker.job # Detail!Photo
           /\ worker.pc = "idle" => worker.job = Detail!None
           /\ worker.pc \in {"enter", "lock"} \cup Detail!InPass => worker.job = Detail!Photo
           /\ \A k \in Detail!AllCrops : k # Detail!Photo /\ k # Detail!None
<1>1. \A k \in Detail!AllCrops \cup {Detail!None} : k # Detail!Photo
  BY Crops DEF Detail!Photo, Detail!None
<1>2. worker.crop \in Detail!AllCrops \cup {Detail!None}
  BY DEF Detail!TypeOK
<1>3. QED
  BY <1>1, <1>2, Crops DEF WorkerShape, Detail!InFull

LEMMA EditIsDueKept ==
    ASSUME DetailInv, Detail!Next PROVE EditIsDue'
<1> USE DEF WorkerRecords
<1> USE DEF EditIsDue
<1>0. /\ worker \in WorkerRecords
      /\ gui \in [pc : Detail!GuiPCs, on : Detail!AllCrops \cup {Detail!None}]
      /\ tasks \in Seq(Detail!AllCrops \cup {Detail!Photo})
      /\ EditIsDue
      /\ destroying => Deleting \/ Leaving
  BY DEF DetailInv, Detail!TypeOK, GuiShape
<1>1. /\ worker.pc \in Detail!InFull => worker.job = worker.crop /\ worker.job # Detail!Photo
      /\ worker.pc = "idle" => worker.job = Detail!None
      /\ worker.pc \in {"enter", "lock"} \cup Detail!InPass => worker.job = Detail!Photo
      /\ Detail!Photo # Detail!None
  BY JobsDiffer DEF DetailInv, Detail!Photo, Detail!None
<1>2. CASE Detail!WorkerStep
  <2>1. UNCHANGED <<gui, nextParams, destroying>>
    BY <1>2, WorkerLeavesWindows
  <2>2. ASSUME UNCHANGED <<params, changeSinceLast, updaterRunning, tasks>>,
               worker.job = Detail!Photo => worker'.job = Detail!Photo
        PROVE  EditIsDue'
    BY <1>0, <2>1, <2>2 DEF Queued
  <2>3. CASE Detail!Take
    <3>1. worker.job # Detail!Photo /\ (Head(tasks) = Detail!Photo => worker'.job = Detail!Photo)
      BY <1>1, <2>3 DEF Detail!Take, Detail!Resting
    <3>2. Queued(Detail!Photo) => Queued(Detail!Photo)' \/ Head(tasks) = Detail!Photo
      BY <1>0, <2>3, TakenWasFirst DEF Detail!Take
    <3>3. UNCHANGED <<params, changeSinceLast, updaterRunning>>
      BY <2>3 DEF Detail!Take, Detail!coordVars
    <3>4. QED
      BY <1>0, <2>1, <3>1, <3>2, <3>3
  <2>4. CASE Detail!Process
    <3>1. worker.job = Detail!Photo
      BY <1>1, <2>4 DEF Detail!Process
    <3>2. CASE destroying \/ changeSinceLast = {}
      BY <1>0, <2>1, <2>4, <3>2 DEF Detail!Process
    <3>3. CASE ~ (destroying \/ changeSinceLast = {})
      <4>1. worker'.job = worker.job
        BY <1>0, <2>4, <3>3 DEF Detail!Process
      <4>2. QED
        BY <1>0, <2>1, <2>4, <3>1, <3>3, <4>1 DEF Detail!Process
    <3>4. QED
      BY <3>2, <3>3
  <2>5. CASE Detail!LockPass \/ Detail!SkipLoop \/ Detail!GetSkip \/ Detail!Render
    <3>1. worker'.job = worker.job
      BY <1>0, <2>5 DEF Detail!LockPass, Detail!SkipLoop, Detail!GetSkip, Detail!Render,
         Detail!Fetch
    <3>2. QED
      BY <2>2, <2>5, <3>1 DEF Detail!LockPass, Detail!SkipLoop, Detail!GetSkip,
         Detail!Render, Detail!WorkerOnly, Detail!coordVars
  <2>6. CASE Detail!EachCrop \/ Detail!HasListener \/ Detail!WantedBySkip \/ Detail!FetchAgain
    <3>1. worker'.job = worker.job
      BY <1>0, <2>6 DEF Detail!EachCrop, Detail!HasListener, Detail!WantedBySkip,
         Detail!FetchAgain, Detail!Fetch, Detail!NextCrop
    <3>2. QED
      BY <2>2, <2>6, <3>1
      DEF Detail!EachCrop, Detail!HasListener, Detail!WantedBySkip, Detail!FetchAgain,
          Detail!WorkerOnly, Detail!coordVars
  <2>7. CASE Detail!BeginUpdate \/ Detail!EndUpdate
    <3>1. worker'.job = worker.job
      BY <1>0, <2>7 DEF Detail!BeginUpdate, Detail!EndUpdate, Detail!NextCrop
    <3>2. QED
      BY <2>2, <2>7, <3>1 DEF Detail!BeginUpdate, Detail!EndUpdate, Detail!coordVars
  <2>8. CASE Detail!EndPass
    <3>1. worker'.job = Detail!Photo
      BY <2>8 DEF Detail!EndPass, Detail!Resting
    <3>2. QED
      BY <2>2, <2>8, <3>1 DEF Detail!EndPass
  <2>9. CASE Detail!FullUpdate \/ Detail!TakePending
    <3>1. worker.job # Detail!Photo
      BY <1>1, <2>9 DEF Detail!FullUpdate, Detail!TakePending, Detail!InFull
    <3>2. QED
      BY <2>2, <2>9, <3>1 DEF Detail!FullUpdate, Detail!TakePending
  <2>10. QED
    BY <1>2, <2>3, <2>4, <2>5, <2>6, <2>7, <2>8, <2>9 DEF Detail!WorkerStep
<1>3. CASE OtherStep
  <2>1. UNCHANGED <<worker, params>>
    BY <1>3, OthersLeaveWorker
  <2>2. ASSUME UNCHANGED <<nextParams, changeSinceLast, updaterRunning, tasks, destroying>>,
               gui.pc # "start"
        PROVE  EditIsDue'
    BY <1>0, <2>1, <2>2 DEF Queued
  <2>3. CASE Detail!StartProcessing
    <3>1. CASE updaterRunning
      BY <1>0, <2>1, <2>3, <3>1 DEF Detail!StartProcessing, Queued
    <3>2. CASE ~ updaterRunning
      <4>1. Queued(Detail!Photo)'
        BY <1>0, <2>3, <3>2, EnqueuedIsFirst DEF Detail!StartProcessing
      <4>2. QED
        BY <1>0, <2>1, <2>3, <3>2, <4>1 DEF Detail!StartProcessing
    <3>3. QED
      BY <3>1, <3>2
  <2>4. CASE Detail!Schedule
    <3>1. Queued(Detail!Photo) => Queued(Detail!Photo)'
      BY <1>0, <2>4, EnqueuedIsFirst, Crops DEF Detail!Schedule, DetailInv, GuiShape
    <3>2. gui.pc # "start"
      BY <2>4 DEF Detail!Schedule
    <3>3. QED
      BY <1>0, <2>1, <2>4, <3>1, <3>2 DEF Detail!Schedule, Detail!coordVars
  <2>5. CASE Detail!Settle
    BY <1>0, <2>1, <2>5 DEF Detail!Settle, Queued
  <2>6. CASE Detail!Enable \/ Detail!Mute \/ Detail!DeleteCrop \/ Detail!FreeCrop
    BY <2>2, <2>6 DEF Detail!Enable, Detail!Mute, Detail!DeleteCrop, Detail!FreeCrop,
       Detail!coordVars
  <2>7. CASE Detail!Disconnect \/ Detail!DeleteWindow \/ Detail!WindowsGone
                \/ Detail!DestroyCoordinator
    BY <2>2, <2>7 DEF Detail!Disconnect, Detail!DeleteWindow, Detail!WindowsGone,
       Detail!DestroyCoordinator, Detail!coordVars
  <2>8. CASE Detail!SignalStop
    <3>1. destroying /\ destroying' = destroying
      BY <2>8 DEF Detail!SignalStop, DetailInv, GuiShape, Leaving, Detail!coordVars
    <3>2. QED
      BY <1>0, <2>1, <2>8, <3>1 DEF Detail!SignalStop, Detail!coordVars
  <2>9. CASE Detail!ClosePhoto
    BY <1>0, <2>1, <2>9 DEF Detail!ClosePhoto
  <2>10. ASSUME NEW kind \in Detail!EditKinds, Detail!Edit(kind) PROVE EditIsDue'
    BY <1>0, <2>1, <2>10 DEF Detail!Edit, Queued
  <2>11. ASSUME NEW k \in Detail!AllCrops,
                Detail!Pan(k) \/ (k \in Windows /\ (Detail!Open(k) \/ Detail!PressClose(k)))
         PROVE  EditIsDue'
    BY <2>2, <2>11 DEF Detail!Pan, Detail!Open, Detail!PressClose, Detail!coordVars
  <2>12. QED
    BY <1>3, <2>3, <2>4, <2>5, <2>6, <2>7, <2>8, <2>9, <2>10, <2>11, Crops
    DEF OtherStep, Detail!GuiStep, Detail!UserStep
<1>4. QED
  BY <1>2, <1>3 DEF Detail!Next, OtherStep

LEMMA UpdateIsDueKept ==
    ASSUME DetailInv, Detail!Next PROVE UpdateIsDue'
<1> USE DEF WorkerRecords
<1> USE DEF UpdateIsDue
<1>0. /\ worker \in WorkerRecords
      /\ gui \in [pc : Detail!GuiPCs, on : Detail!AllCrops \cup {Detail!None}]
      /\ tasks \in Seq(Detail!AllCrops \cup {Detail!Photo})
      /\ pending \in [Detail!AllCrops -> BOOLEAN] /\ running \in [Detail!AllCrops -> BOOLEAN]
      /\ UpdateIsDue
  BY DEF DetailInv, Detail!TypeOK
<1>1. /\ worker.pc \in Detail!InFull => worker.job = worker.crop /\ worker.job # Detail!Photo
      /\ worker.pc = "idle" => worker.job = Detail!None
      /\ worker.pc \in {"enter", "lock"} \cup Detail!InPass => worker.job = Detail!Photo
      /\ \A k \in Detail!AllCrops : k # Detail!Photo /\ k # Detail!None
  BY JobsDiffer DEF DetailInv
<1>2. CASE Detail!WorkerStep
  <2>1. UNCHANGED <<gui, destroying>>
    BY <1>2, WorkerLeavesWindows
  <2>2. ASSUME UNCHANGED <<pending, running, tasks>>,
               worker'.job = worker.job \/ worker.job = Detail!Photo
        PROVE  UpdateIsDue'
    BY <1>0, <1>1, <2>1, <2>2 DEF Queued
  <2>3. CASE Detail!Take
    <3>1. \A k \in Detail!AllCrops : worker.job # k /\ (Head(tasks) = k => worker'.job = k)
      BY <1>1, <2>3 DEF Detail!Take, Detail!Resting
    <3>2. \A k \in Detail!AllCrops : Queued(k) => Queued(k)' \/ Head(tasks) = k
      BY <1>0, <2>3, TakenWasFirst DEF Detail!Take
    <3>3. UNCHANGED <<pending, running>>
      BY <2>3 DEF Detail!Take, Detail!cropVars
    <3>4. QED
      BY <1>0, <2>1, <3>1, <3>2, <3>3
  <2>4. CASE Detail!Process \/ Detail!LockPass \/ Detail!EndPass
    <3>1. worker.job = Detail!Photo
      BY <1>1, <2>4 DEF Detail!Process, Detail!LockPass, Detail!EndPass, Detail!InPass
    <3>2. QED
      BY <2>2, <2>4, <3>1 DEF Detail!Process, Detail!LockPass, Detail!EndPass,
         Detail!cropVars
  <2>5. CASE Detail!SkipLoop \/ Detail!GetSkip \/ Detail!Render \/ Detail!EachCrop
    <3>1. worker'.job = worker.job
      BY <1>0, <2>5, ZenonT(30) DEF Detail!SkipLoop, Detail!GetSkip, Detail!Render, Detail!EachCrop,
         Detail!Fetch
    <3>2. QED
      BY <2>2, <2>5, <3>1 DEF Detail!SkipLoop, Detail!GetSkip, Detail!Render,
         Detail!EachCrop, Detail!WorkerOnly, Detail!cropVars
  <2>6. CASE Detail!HasListener \/ Detail!WantedBySkip \/ Detail!FetchAgain
    <3>1. worker'.job = worker.job
      BY <1>0, <2>6 DEF Detail!HasListener, Detail!WantedBySkip, Detail!FetchAgain,
         Detail!Fetch, Detail!NextCrop
    <3>2. QED
      BY <2>2, <2>6, <3>1 DEF Detail!HasListener, Detail!WantedBySkip, Detail!FetchAgain,
         Detail!WorkerOnly, Detail!cropVars
  <2>7. CASE Detail!BeginUpdate \/ Detail!EndUpdate
    <3>1. worker'.job = worker.job
      BY <1>0, <2>7 DEF Detail!BeginUpdate, Detail!EndUpdate, Detail!NextCrop
    <3>2. QED
      BY <2>2, <2>7, <3>1 DEF Detail!BeginUpdate, Detail!EndUpdate
  <2>8. CASE Detail!FullUpdate
    <3>1. worker.job = worker.crop /\ tasks' = tasks
      BY <1>1, <2>8 DEF Detail!FullUpdate, Detail!InFull
    <3>2. CASE destroying
      BY <1>0, <2>1, <2>8, <3>1, <3>2 DEF Detail!FullUpdate
    <3>3. CASE ~ destroying
      <4>1. worker'.job = worker.job
        BY <1>0, <2>8, <3>3 DEF Detail!FullUpdate
      <4>2. QED
        BY <2>2, <2>8, <3>1, <3>3, <4>1 DEF Detail!FullUpdate
    <3>4. QED
      BY <3>2, <3>3
  <2>9. CASE Detail!TakePending
    <3>1. worker.job = worker.crop /\ tasks' = tasks
      BY <1>1, <2>9 DEF Detail!TakePending, Detail!InFull
    <3>2. CASE pending[worker.crop]
      <4>1. worker'.job = worker.job
        BY <1>0, <2>9, <3>2 DEF Detail!TakePending
      <4>2. running' = running /\ pending' = [pending EXCEPT ![worker.crop] = FALSE]
        BY <2>9, <3>2 DEF Detail!TakePending
      <4>3. QED
        BY <1>0, <2>1, <3>1, <4>1, <4>2 DEF Queued
    <3>3. CASE ~ pending[worker.crop]
      <4>1. pending' = pending /\ running' = [running EXCEPT ![worker.crop] = FALSE]
        BY <2>9, <3>3 DEF Detail!TakePending
      <4>2. QED
        BY <1>0, <2>1, <3>1, <3>3, <4>1 DEF Queued
    <3>4. QED
      BY <3>2, <3>3
  <2>10. QED
    BY <1>2, <2>3, <2>4, <2>5, <2>6, <2>7, <2>8, <2>9 DEF Detail!WorkerStep
<1>3. CASE OtherStep
  <2>1. worker' = worker
    BY <1>3, OthersLeaveWorker
  <2>2. ASSUME UNCHANGED <<pending, running, tasks, destroying>>, gui.pc # "schedule"
        PROVE  UpdateIsDue'
    BY <1>0, <2>1, <2>2 DEF Queued
  \* A request makes the crop running, and who made it first schedules it.
  <2>3. ASSUME NEW k \in Detail!AllCrops, NEW lost, Detail!Request(k, lost),
               UNCHANGED <<tasks, destroying>>,
               gui.pc # "schedule"
        PROVE  UpdateIsDue'
    <3>1. /\ pending' = [pending EXCEPT ![k] = TRUE]
          /\ running' = [running EXCEPT ![k] = TRUE]
          /\ ~ running[k] => gui' = [pc |-> "schedule", on |-> k]
      BY <2>3 DEF Detail!Request
    <3>2. QED
      BY <1>0, <2>1, <2>3, <3>1 DEF Queued
  <2>4. CASE Detail!StartProcessing
    <3>1. \A k : Queued(k) => Queued(k)'
      BY <1>0, <2>4, EnqueuedIsFirst DEF Detail!StartProcessing, Queued
    <3>2. QED
      BY <1>0, <2>1, <2>4, <3>1 DEF Detail!StartProcessing, Detail!cropVars
  <2>5. CASE Detail!Schedule
    <3>1. gui.on \in Detail!AllCrops
      BY <2>5 DEF Detail!Schedule, DetailInv, GuiShape
    <3>2. PICK t \in Detail!AllCrops : t = gui.on
      BY <3>1
    <3>3. Detail!Enqueue(t)
      BY <2>5, <3>2 DEF Detail!Schedule, Detail!Enqueue
    <3>4. Queued(t)' /\ \A k : Queued(k) => Queued(k)'
      BY <1>0, <3>3, EnqueuedIsFirst
    <3>5. QED
      BY <1>0, <2>1, <2>5, <3>2, <3>4 DEF Detail!Schedule, Detail!cropVars, Detail!coordVars
  <2>6. CASE Detail!Enable
    <3>1. gui.on \in Detail!AllCrops
      BY <2>6, Crops DEF Detail!Enable, DetailInv, GuiShape
    <3>2. QED
      BY <2>3, <2>6, <3>1 DEF Detail!Enable, Detail!coordVars
  <2>7. CASE Detail!Settle \/ Detail!Mute \/ Detail!DeleteCrop \/ Detail!FreeCrop
    BY <2>2, <2>7 DEF Detail!Settle, Detail!Mute, Detail!DeleteCrop, Detail!FreeCrop,
       Detail!coordVars, Detail!cropVars
  <2>8. CASE Detail!Disconnect \/ Detail!DeleteWindow \/ Detail!WindowsGone
                \/ Detail!DestroyCoordinator
    BY <2>2, <2>8 DEF Detail!Disconnect, Detail!DeleteWindow, Detail!WindowsGone,
       Detail!DestroyCoordinator, Detail!coordVars,
                      Detail!cropVars
  <2>9. CASE Detail!SignalStop
    <3>1. destroying /\ destroying' = destroying
      BY <2>9 DEF Detail!SignalStop, DetailInv, GuiShape, Leaving, Detail!coordVars
    <3>2. QED
      BY <1>0, <2>1, <2>9, <3>1 DEF Detail!SignalStop, Detail!cropVars
  <2>10. CASE Detail!ClosePhoto
    BY <1>0, <2>1, <2>10 DEF Detail!ClosePhoto, Detail!cropVars
  <2>11. ASSUME NEW kind \in Detail!EditKinds, Detail!Edit(kind) PROVE UpdateIsDue'
    BY <2>2, <2>11 DEF Detail!Edit, Detail!cropVars
  <2>12. ASSUME NEW k \in Detail!AllCrops, Detail!Pan(k) PROVE UpdateIsDue'
    BY <2>3, <2>12 DEF Detail!Pan, Detail!coordVars
  <2>13. ASSUME NEW w \in Windows, Detail!Open(w) \/ Detail!PressClose(w) PROVE UpdateIsDue'
    BY <2>2, <2>13 DEF Detail!Open, Detail!PressClose, Detail!coordVars
  <2>14. QED
    BY <1>3, <2>4, <2>5, <2>6, <2>7, <2>8, <2>9, <2>10, <2>11, <2>12, <2>13
    DEF OtherStep, Detail!GuiStep, Detail!UserStep
<1>4. QED
  BY <1>2, <1>3 DEF Detail!Next, OtherStep

LEMMA CropIsDueKept ==
    ASSUME DetailInv, Detail!Next, PassShape'
    PROVE  CropIsDue'
<1> USE DEF WorkerRecords
<1> DEFINE Due(k) == \/ shown[k] = params
                     \/ pending[k]
                     \/ gui.pc = "enable" /\ gui.on = k
                     \/ worker.job = k /\ worker.pc \in {"fullUpdate", "updating"}
                     \/ Passing /\ worker.pc # "unlock" /\ k \in worker.present
<1>0. /\ worker \in WorkerRecords
      /\ gui \in [pc : Detail!GuiPCs, on : Detail!AllCrops \cup {Detail!None}]
      /\ pending \in [Detail!AllCrops -> BOOLEAN] /\ running \in [Detail!AllCrops -> BOOLEAN]
      /\ shown \in [Detail!AllCrops -> 0 .. MaxEdits + 1]
      /\ life \in [Detail!AllCrops -> {"unborn", "open", "closing", "freed"}]
      /\ Full \subseteq Detail!AllCrops
  BY Crops DEF DetailInv, Detail!TypeOK
<1>1. /\ worker.pc \in Detail!InFull => worker.job = worker.crop /\ worker.job # Detail!Photo
      /\ worker.pc = "idle" => worker.job = Detail!None
      /\ worker.pc \in {"enter", "lock"} \cup Detail!InPass => worker.job = Detail!Photo
      /\ \A k \in Detail!AllCrops : k # Detail!Photo /\ k # Detail!None
  BY JobsDiffer DEF DetailInv
<1>2. \A k \in Full : life[k] = "open" /\ ~ destroying /\ ~ cutShort => Due(k)
  BY DEF DetailInv, CropIsDue
<1>3. SUFFICES ASSUME NEW k \in Full, life'[k] = "open", ~ destroying', ~ cutShort'
               PROVE  Due(k)'
  BY DEF CropIsDue
<1>4. CASE Detail!WorkerStep
  <2>1. UNCHANGED <<gui, life, listening, destroying, cutShort>>
    BY <1>4, WorkerLeavesWindows
  <2>2. Due(k) /\ life[k] = "open" /\ ~ destroying
    BY <1>2, <1>3, <2>1
  \* Within the pass, and around it.
  <2>3. ASSUME UNCHANGED <<shown, params, pending>>, worker.job = Detail!Photo,
               Passing /\ worker.pc # "unlock" =>
                  Passing' /\ worker'.pc # "unlock" /\ worker'.present = worker.present
        PROVE  Due(k)'
    BY <1>0, <1>1, <2>1, <2>2, <2>3
  <2>4. CASE Detail!Take
    BY <1>0, <2>1, <2>2, <2>4 DEF Detail!Take, Detail!coordVars, Detail!cropVars, Passing,
       Detail!InPass, Detail!Reading
  <2>5. CASE Detail!Process
    <3>1. worker.job = Detail!Photo /\ UNCHANGED <<shown, pending>>
      BY <1>1, <2>5 DEF Detail!Process, Detail!cropVars
    <3>2. CASE destroying \/ changeSinceLast = {}
      <4>1. params' = params /\ ~ Passing
        BY <2>5, <3>2 DEF Detail!Process, Passing, Detail!InPass, Detail!Reading
      <4>2. QED
        BY <2>3, <3>1, <4>1
    <3>3. CASE ~ (destroying \/ changeSinceLast = {})
      <4>1. /\ worker'.pc = "lock"
            /\ worker'.present = {c \in Detail!AllCrops : life[c] = "open" /\ listening[c]}
        BY <1>0, <2>5, <3>3, ZenonT(30) DEF Detail!Process
      <4>2. listening[k] \/ (gui.pc = "enable" /\ gui.on = k)
        BY <1>0, <2>2 DEF DetailInv, OpenIsHeard
      <4>3. QED
        BY <1>0, <2>1, <2>2, <4>1, <4>2 DEF Passing
    <3>4. QED
      BY <3>2, <3>3
  <2>6. CASE Detail!LockPass \/ Detail!SkipLoop \/ Detail!GetSkip
    <3>1. /\ worker'.pc \in {"render", "skip", "getSkip"}
          /\ worker'.present = worker.present
      <4>1. CASE Detail!LockPass
        BY <1>0, <4>1 DEF Detail!LockPass
      <4>2. CASE Detail!SkipLoop
        BY <1>0, <4>2 DEF Detail!SkipLoop, Detail!Fetch
      <4>3. CASE Detail!GetSkip
        BY <1>0, <4>3 DEF Detail!GetSkip
      <4>4. QED
        BY <2>6, <4>1, <4>2, <4>3
    <3>2. worker.job = Detail!Photo
      BY <1>1, <2>6 DEF Detail!LockPass, Detail!SkipLoop, Detail!GetSkip, Detail!InPass,
         Detail!Reading
    <3>3. QED
      BY <2>3, <2>6, <3>1, <3>2
      DEF Detail!LockPass, Detail!SkipLoop, Detail!GetSkip, Detail!WorkerOnly,
          Detail!coordVars, Detail!cropVars, Passing, Detail!InPass, Detail!Reading
  <2>7. CASE Detail!Render \/ Detail!HasListener \/ Detail!WantedBySkip \/ Detail!FetchAgain
    <3>1. /\ worker'.pc \in {"each", "wantSkip", "again", "update"}
          /\ worker'.present = worker.present
      BY <1>0, <2>2, <2>7 DEF Detail!Render, Detail!HasListener, Detail!WantedBySkip,
         Detail!FetchAgain, Detail!Fetch, Detail!NextCrop
    <3>2. worker.job = Detail!Photo
      BY <1>1, <2>7 DEF Detail!Render, Detail!HasListener, Detail!WantedBySkip,
         Detail!FetchAgain, Detail!InPass, Detail!Reading
    <3>3. QED
      BY <2>3, <2>7, <3>1, <3>2
      DEF Detail!Render, Detail!HasListener, Detail!WantedBySkip, Detail!FetchAgain,
          Detail!WorkerOnly, Detail!coordVars, Detail!cropVars, Passing,
          Detail!InPass, Detail!Reading
  <2>8. CASE Detail!EachCrop
    <3>1. /\ worker.job = Detail!Photo /\ UNCHANGED <<shown, params, pending>>
          /\ worker'.present = worker.present
          /\ worker'.pc \in {"unlock", "hear"}
      BY <1>0, <1>1, <2>8
      DEF Detail!EachCrop, Detail!Fetch, Detail!WorkerOnly, Detail!coordVars, Detail!cropVars,
          Detail!InPass, Detail!Reading
    <3>2. CASE worker'.pc = "hear"
      BY <2>3, <3>1, <3>2 DEF Passing, Detail!InPass, Detail!Reading
    <3>3. CASE worker'.pc = "unlock"
      <4>1. k \in worker.present => shown[k] = params
        BY <1>3, <3>1, <3>3 DEF PassShape, PassIs, Done
      <4>2. QED
        BY <1>1, <2>1, <2>2, <2>8, <3>1, <4>1, <1>0 DEF Detail!EachCrop
    <3>4. QED
      BY <3>1, <3>2, <3>3
  <2>9. CASE Detail!BeginUpdate
    <3>1. /\ worker'.pc = "updating" /\ worker'.job = worker.job
          /\ worker'.present = worker.present /\ UNCHANGED <<shown, params, pending>>
      BY <1>0, <2>9 DEF Detail!BeginUpdate, Detail!coordVars
    <3>2. Passing => Passing'
      BY <1>1, <2>9, <3>1 DEF Detail!BeginUpdate, Passing, Detail!InPass, Detail!Reading
    <3>3. QED
      BY <2>1, <2>2, <3>1, <3>2
  <2>10. CASE Detail!EndUpdate
    <3>1. /\ UNCHANGED <<params, pending>>
          /\ shown' = IF listening[worker.crop] THEN [shown EXCEPT ![worker.crop] = params]
                      ELSE shown
      BY <2>2, <2>10 DEF Detail!EndUpdate, Detail!coordVars
    <3>2. shown'[k] = shown[k] \/ shown'[k] = params
      BY <1>0, <3>1
    <3>3. CASE worker.job = Detail!Photo
      <4>1. worker'.pc = "each" /\ worker'.present = worker.present
        BY <1>0, <2>10, <3>3 DEF Detail!EndUpdate, Detail!NextCrop
      <4>2. QED
        BY <1>0, <1>1, <2>1, <2>2, <3>1, <3>2, <3>3, <4>1 DEF Passing, Detail!InPass,
           Detail!Reading
    <3>4. CASE worker.job # Detail!Photo
      <4>1. worker.job = worker.crop /\ ~ Passing
        BY <2>10, <3>4 DEF DetailInv, WorkerShape, Detail!EndUpdate, Passing, Detail!InPass,
           Detail!Reading
      <4>2. worker.crop = k => listening[k] \/ (gui.pc = "enable" /\ gui.on = k)
        BY <1>0, <2>2 DEF DetailInv, OpenIsHeard
      <4>3. worker.crop = k /\ listening[k] => shown'[k] = params
        BY <1>0, <3>1
      <4>4. QED
        BY <2>1, <2>2, <3>1, <3>2, <4>1, <4>2, <4>3
    <3>5. QED
      BY <3>3, <3>4
  <2>11. CASE Detail!EndPass
    BY <1>1, <2>3, <2>11 DEF Detail!EndPass, Detail!cropVars, Detail!InPass
  <2>12. CASE Detail!FullUpdate \/ Detail!TakePending
    <3>1. ~ Passing /\ worker.pc \notin {"fullUpdate", "updating"}
      BY <2>12 DEF Detail!FullUpdate, Detail!TakePending, Passing, Detail!InPass,
         Detail!Reading
    <3>2. UNCHANGED <<shown, params>>
      BY <2>12 DEF Detail!FullUpdate, Detail!TakePending
    <3>3. pending[k] => pending'[k] \/ (worker'.job = k /\ worker'.pc = "fullUpdate")
      <4>1. CASE Detail!FullUpdate
        BY <2>2, <4>1 DEF Detail!FullUpdate
      <4>2. CASE Detail!TakePending
        <5>1. worker.job = worker.crop
          BY <1>1, <4>2 DEF Detail!TakePending, Detail!InFull
        <5>2. CASE pending[worker.crop]
          <6>1. /\ worker'.pc = "fullUpdate" /\ worker'.job = worker.job
                /\ pending' = [pending EXCEPT ![worker.crop] = FALSE]
            BY <1>0, <4>2, <5>2 DEF Detail!TakePending
          <6>2. QED
            BY <1>0, <5>1, <6>1
        <5>3. CASE ~ pending[worker.crop]
          BY <4>2, <5>3 DEF Detail!TakePending
        <5>4. QED
          BY <5>2, <5>3
      <4>3. QED
        BY <2>12, <4>1, <4>2
    <3>4. QED
      BY <2>1, <2>2, <3>1, <3>2, <3>3
  <2>13. QED
    BY <1>4, <2>4, <2>5, <2>6, <2>7, <2>8, <2>9, <2>10, <2>11, <2>12 DEF Detail!WorkerStep
<1>5. CASE OtherStep
  <2>1. UNCHANGED <<worker, params, shown>> /\ ~ cutShort
    BY <1>3, <1>5, OthersLeaveWorker, OthersAtCrops
  \* The step neither opens a window nor ends its opening.
  <2>2. ASSUME life[k] = "open", ~ destroying, pending[k] => pending'[k],
               gui.pc = "enable" => pending'[gui.on]
        PROVE  Due(k)'
    BY <1>2, <2>1, <2>2 DEF Passing
  <2>3. CASE Detail!StartProcessing \/ Detail!Schedule \/ Detail!Settle \/ Detail!SignalStop
    BY <1>3, <2>2, <2>3
    DEF Detail!StartProcessing, Detail!Schedule, Detail!Settle, Detail!SignalStop,
        Detail!coordVars, Detail!cropVars
  <2>4. CASE Detail!Enable
    <3>1. gui.on \in Detail!AllCrops
      BY <2>4, Crops DEF Detail!Enable, DetailInv, GuiShape
    <3>2. QED
      BY <1>0, <1>3, <2>2, <2>4, <3>1 DEF Detail!Enable, Detail!Request, Detail!coordVars
  <2>5. CASE Detail!Mute \/ Detail!DeleteCrop \/ Detail!Disconnect \/ Detail!WindowsGone
    BY <1>3, <2>2, <2>5 DEF Detail!Mute, Detail!DeleteCrop, Detail!Disconnect,
       Detail!WindowsGone, Detail!coordVars, Detail!cropVars
  <2>6. CASE Detail!FreeCrop \/ Detail!DeleteWindow \/ Detail!DestroyCoordinator
    <3>1. life[k] = "open" /\ UNCHANGED <<pending, destroying>> /\ gui.pc # "enable"
      BY <1>0, <1>3, <2>6 DEF Detail!FreeCrop, Detail!DeleteWindow,
         Detail!DestroyCoordinator, Detail!coordVars
    <3>2. QED
      BY <1>3, <2>2, <3>1
  <2>7. CASE Detail!ClosePhoto
    BY <1>3, <2>7 DEF Detail!ClosePhoto
  <2>8. ASSUME NEW kind \in Detail!EditKinds, Detail!Edit(kind) PROVE Due(k)'
    BY <1>3, <2>2, <2>8 DEF Detail!Edit, Detail!cropVars
  <2>9. ASSUME NEW c \in Detail!AllCrops, Detail!Pan(c) PROVE Due(k)'
    BY <1>0, <1>3, <2>2, <2>9 DEF Detail!Pan, Detail!Request, Detail!coordVars
  <2>10. ASSUME NEW w \in Windows, Detail!Open(w) PROVE Due(k)'
    <3>1. UNCHANGED <<pending, destroying>> /\ gui.pc = "idle"
      BY <2>10 DEF Detail!Open, Detail!coordVars
    <3>2. CASE k = w
      BY <2>10, <3>2 DEF Detail!Open
    <3>3. CASE k # w
      <4>1. life[k] = "open"
        BY <1>0, <1>3, <2>10, <3>3 DEF Detail!Open
      <4>2. QED
        BY <1>3, <2>2, <3>1, <4>1
    <3>4. QED
      BY <3>2, <3>3
  <2>11. ASSUME NEW w \in Windows, Detail!PressClose(w) PROVE Due(k)'
    <3>1. life[k] = "open" /\ UNCHANGED <<pending, destroying>> /\ gui.pc = "idle"
      BY <1>0, <1>3, <2>11 DEF Detail!PressClose, Detail!coordVars
    <3>2. QED
      BY <1>3, <2>2, <3>1
  <2>12. QED
    BY <1>5, <2>3, <2>4, <2>5, <2>6, <2>7, <2>8, <2>9, <2>10, <2>11
    DEF OtherStep, Detail!GuiStep, Detail!UserStep
<1>6. QED
  BY <1>4, <1>5 DEF Detail!Next, OtherStep

-----------------------------------------------------------------------------
(* The theorems.                                                           *)

LEMMA DetailStarts == Detail!Init => DetailInv
<1> USE DEF WorkerRecords
<1> SUFFICES ASSUME Detail!Init PROVE DetailInv
  OBVIOUS
<1> USE DEF Detail!Init, Detail!Resting, Detail!Idle
<1>1. /\ 1 \in 1 .. Detail!Capacity
      /\ 0 \in 0 .. Detail!Capacity + 1
      /\ 1 \in 0 .. MaxEdits + 1
      /\ 0 \in 0 .. MaxEdits + 1 /\ 1 \in 1 .. MaxEdits + 1 /\ 0 \in 0 .. MaxPans
  BY Crops
<1>2. Detail!TypeOK
  <2>1. worker \in WorkerRecords
    BY <1>1 DEF Detail!WorkerPCs
  <2>2. gui \in [pc : Detail!GuiPCs, on : Detail!AllCrops \cup {Detail!None}]
    BY DEF Detail!GuiPCs
  <2>3. slots \in [1 .. Detail!Capacity -> Detail!AllCrops] /\ size \in 1 .. Detail!Capacity
    BY <1>1, Crops
  <2>4. tasks \in Seq(Detail!AllCrops \cup {Detail!Photo})
    OBVIOUS
  <2>5. shown \in [Detail!AllCrops -> 0 .. MaxEdits + 1]
    BY <1>1
  <2>6. QED
    BY <1>1, <2>1, <2>2, <2>3, <2>4, <2>5 DEF Detail!TypeOK
<1>3. GuiShape /\ OpenIsHeard
  BY Crops DEF GuiShape, OpenIsHeard, Deleting, Leaving
<1>4. WorkerShape /\ AtPlace /\ PassShape
  BY DEF WorkerShape, AtPlace, PassShape, PassIs, AtCrop, AtUpdates, Passing, Detail!InPass, Detail!InFull,
     Detail!Reading
<1>5. Detail!VectorIsExact
  <2>1. {slots[i] : i \in 1 .. size} = {Canvas}
    BY <1>1
  <2>2. QED
    BY <1>1, <2>1, Crops DEF Detail!VectorIsExact
<1>6. EditIsDue /\ UpdateIsDue /\ CropIsDue
  BY Crops DEF EditIsDue, UpdateIsDue, CropIsDue
<1>7. QED
  BY <1>2, <1>3, <1>4, <1>5, <1>6 DEF DetailInv

LEMMA DetailStutters == ASSUME DetailInv, UNCHANGED Detail!vars PROVE DetailInv'
<1> USE DEF DetailInv, Detail!vars, Detail!coordVars, Detail!cropVars, Detail!past
<1>1. Detail!TypeOK' /\ GuiShape' /\ WorkerShape'
  BY DEF Detail!TypeOK, GuiShape, WorkerShape, Deleting, Leaving
<1>2. OpenIsHeard' /\ Detail!VectorIsExact'
  BY DEF OpenIsHeard, Detail!VectorIsExact
<1>3. AtPlace' /\ PassShape'
  BY DEF AtPlace, PassShape, PassIs, Passing, AtCrop, AtUpdates, Done, Heard
<1>4. EditIsDue' /\ UpdateIsDue' /\ CropIsDue'
  BY DEF EditIsDue, UpdateIsDue, CropIsDue, Queued, Passing
<1>5. QED
  BY <1>1, <1>2, <1>3, <1>4

\* The invariant of the windows.
LEMMA DetailInductive == Detail!Spec => []DetailInv
<1>1. Detail!Init => DetailInv
  BY DetailStarts
<1>2. DetailInv /\ [Detail!Next]_(Detail!vars) => DetailInv'
  <2> SUFFICES ASSUME DetailInv, [Detail!Next]_(Detail!vars) PROVE DetailInv'
    OBVIOUS
  <2>1. CASE UNCHANGED Detail!vars
    BY <2>1, DetailStutters
  <2>2. CASE Detail!Next
    <3>1. Detail!TypeOK' /\ Detail!VectorIsExact'
      BY <2>2, TypeKept, VectorKept DEF DetailInv
    <3>2. GuiShape' /\ WorkerShape' /\ OpenIsHeard'
      BY <2>2, GuiShapeKept, WorkerShapeKept, OpenIsHeardKept DEF DetailInv
    <3>3. AtPlace'
      BY <2>2, <3>1, AtPlaceKept DEF Detail!TypeOK, WorkerRecords
    <3>4. size' \in Nat
      BY <3>1, Crops DEF Detail!TypeOK
    <3>5. PassShape'
      BY <2>2, <3>2, <3>4, PassShapeKept
    <3>6. EditIsDue' /\ UpdateIsDue' /\ CropIsDue'
      BY <2>2, <3>5, EditIsDueKept, UpdateIsDueKept, CropIsDueKept
    <3>7. QED
      BY <3>1, <3>2, <3>3, <3>5, <3>6 DEF DetailInv
  <2>3. QED
    BY <2>1, <2>2
<1>3. QED
  BY <1>1, <1>2, PTL DEF Detail!Spec

\* No pass leaves out a window that was open and heard when it claimed its edits,
\* however many are opened and closed meanwhile, until one of them leaves the
\* vector while updatePreviewImage() is walking it.
THEOREM PassesReachAll == Detail!Spec => []PassReachesAll
<1>1. DetailInv => PassReachesAll
  <2> SUFFICES ASSUME DetailInv, worker.pc = "unlock", ~ destroying, ~ cutShort,
                      NEW k \in worker.present,
                      life[k] = "open", worker.wanted \/ k \in Full
               PROVE  shown[k] >= params
    BY DEF PassReachesAll, Detail!PassReachesAll
  <2>1. shown[k] = params
    BY DEF DetailInv, PassShape, PassIs, Done
  <2>2. params \in Nat
    BY Crops DEF DetailInv, Detail!TypeOK
  <2>3. QED
    BY <2>1, <2>2
<1>2. QED
  BY <1>1, DetailInductive, PTL

\* When nothing is left to do, every open window at full resolution shows the last
\* edit, whenever it was opened and whatever was closed meanwhile, until a crop
\* leaves the vector while a pass is walking it.
THEOREM WindowsBecomeCurrent == Detail!Spec => []WindowsAreCurrent
<1>1. DetailInv => WindowsAreCurrent
  <2> SUFFICES ASSUME DetailInv, worker.pc = "idle", tasks = <<>>, gui.pc = "idle",
                      ~ cutShort, NEW w \in Windows \cap Full, life[w] = "open"
               PROVE  shown[w] = nextParams
    BY DEF WindowsAreCurrent, Detail!WindowsAreCurrent, Detail!Quiet
  <2>1. ~ destroying
    BY DEF DetailInv, GuiShape, Deleting, Leaving
  <2>2. \A t : ~ Queued(t)
    BY DEF Queued
  <2>3. /\ worker.job = Detail!None
        /\ w \in Detail!AllCrops
        /\ w # Detail!None
        /\ Detail!Photo # Detail!None
    BY Crops DEF DetailInv, WorkerShape, Detail!Photo, Detail!None
  <2>4. ~ updaterRunning /\ changeSinceLast = {} /\ params = nextParams
    BY <2>1, <2>2, <2>3 DEF DetailInv, EditIsDue
  <2>5. ~ running[w] /\ ~ pending[w]
    BY <2>1, <2>2, <2>3 DEF DetailInv, UpdateIsDue
  <2>6. ~ Passing
    BY DEF Passing, Detail!InPass, Detail!Reading
  <2>7. shown[w] = params
    BY <2>1, <2>3, <2>5, <2>6 DEF DetailInv, CropIsDue
  <2>8. QED
    BY <2>4, <2>7
<1>2. QED
  BY <1>1, DetailInductive, PTL

=============================================================================
