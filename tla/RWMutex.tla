------------------------------- MODULE RWMutex -------------------------------
(***************************************************************************)
(* MyRWMutex of rtgui/threadutils: the lock of the thumbnail browser       *)
(* (entryRW) and of each of its entries (lockRW).  Threads take it through *)
(* lock objects: MyReaderLock and MyWriterLock wait for it,                *)
(* MyTryReaderLock and MyTryWriterLock do not.  A thread may hold several  *)
(* read locks at once, as the draw functions that call each other do.      *)
(*                                                                         *)
(* One action is one section under the internal std::mutex; a wait on the  *)
(* condition variable splits acquire() in two.                             *)
(***************************************************************************)
EXTENDS Naturals, FiniteSets

CONSTANTS
    ReaderLocks, WriterLocks, TryReaderLocks, TryWriterLocks, \* lock objects
    ThreadOf                                       \* the thread of an object

AllReaders == ReaderLocks \cup TryReaderLocks

AllWriters == WriterLocks \cup TryWriterLocks

Locks == AllReaders \cup AllWriters

ASSUME RWAssumption ==
    /\ IsFiniteSet(Locks)
    /\ AllReaders \cap AllWriters = {}

VARIABLES
    writerCount, readerCount,   \* MyRWMutex
    locked,     \* objects whose flag "locked" is set
    waiting,    \* objects in the loop of acquire()
    asleep      \* of these, those in cond.wait()

vars == <<writerCount, readerCount, locked, waiting, asleep>>

TypeOK ==
    /\ writerCount \in Nat
    /\ readerCount \in Nat
    /\ locked \subseteq Locks
    /\ waiting \subseteq ReaderLocks \cup WriterLocks
    /\ asleep \subseteq waiting

Init ==
    /\ writerCount = 0
    /\ readerCount = 0
    /\ locked = {}
    /\ waiting = {}
    /\ asleep = {}

-----------------------------------------------------------------------------

Mates(l) == {m \in Locks : ThreadOf[m] = ThreadOf[l]}

\* The thread of l does something else, and l is free.
CanCall(l) == l \notin locked /\ Mates(l) \cap waiting = {}

\* A thread that waits for a lock it holds would never get it, and the callers
\* see to that: they release a write lock before they call what locks again.
MayWaitToRead(l) == CanCall(l) /\ Mates(l) \cap locked \cap AllWriters = {}

MayWaitToWrite(l) == CanCall(l) /\ Mates(l) \cap locked = {}

\* Mutant: a reader joins whoever holds the lock.
BecomeReader_Untested(l) ==
    /\ writerCount' = IF writerCount = 0 THEN 1 ELSE writerCount
    /\ readerCount' = readerCount + 1
    /\ locked' = locked \cup {l}

\* The branches of acquire() that do not wait, shared with MyTryReaderLock: the
\* first reader takes the writers' place, the others join it.
BecomeReader(l) ==
    /\ writerCount = 0 \/ readerCount # 0
    /\ writerCount' = IF writerCount = 0 THEN 1 ELSE writerCount
    /\ readerCount' = readerCount + 1
    /\ locked' = locked \cup {l}

BecomeWriter(l) ==
    /\ writerCount = 0
    /\ writerCount' = 1
    /\ locked' = locked \cup {l}
    /\ UNCHANGED readerCount

ReadAcquire(l) ==
    /\ MayWaitToRead(l)
    /\ BecomeReader(l)
    /\ UNCHANGED <<waiting, asleep>>

\* Mutant: a reader lets a writer that waits go first.
MustWaitToRead_WriterFirst ==
    writerCount # 0 /\ (readerCount = 0 \/ waiting \cap WriterLocks # {})

MustWaitToRead == writerCount # 0 /\ readerCount = 0

ReadWait(l) ==
    /\ MayWaitToRead(l)
    /\ MustWaitToRead
    /\ waiting' = waiting \cup {l}
    /\ asleep' = asleep \cup {l}
    /\ UNCHANGED <<writerCount, readerCount, locked>>

TryRead(l) ==
    /\ CanCall(l)
    /\ BecomeReader(l)
    /\ UNCHANGED <<waiting, asleep>>

WriteAcquire(l) ==
    /\ MayWaitToWrite(l)
    /\ BecomeWriter(l)
    /\ UNCHANGED <<waiting, asleep>>

WriteWait(l) ==
    /\ MayWaitToWrite(l)
    /\ writerCount # 0
    /\ waiting' = waiting \cup {l}
    /\ asleep' = asleep \cup {l}
    /\ UNCHANGED <<writerCount, readerCount, locked>>

TryWrite(l) ==
    /\ CanCall(l)
    /\ BecomeWriter(l)
    /\ UNCHANGED <<waiting, asleep>>

\* The loop of acquire(): whoever finds the lock taken sleeps again, a reader
\* too, although by now it may be other readers that hold it.
Retry(l) ==
    /\ l \in waiting \ asleep
    /\ writerCount # 0
    /\ asleep' = asleep \cup {l}
    /\ UNCHANGED <<writerCount, readerCount, locked, waiting>>

ReadWoken(l) ==
    /\ l \in (waiting \ asleep) \cap ReaderLocks
    /\ writerCount = 0
    /\ BecomeReader(l)
    /\ waiting' = waiting \ {l}
    /\ UNCHANGED asleep

WriteWoken(l) ==
    /\ l \in (waiting \ asleep) \cap WriterLocks
    /\ BecomeWriter(l)
    /\ waiting' = waiting \ {l}
    /\ UNCHANGED asleep

\* A condition variable may wake a thread for no reason.
SpuriousWakeup(l) ==
    /\ l \in asleep
    /\ asleep' = asleep \ {l}
    /\ UNCHANGED <<writerCount, readerCount, locked, waiting>>

\* Mutant: only one of the threads that wait is woken.
NotifyAll_One ==
    asleep' \in IF asleep = {} THEN {{}} ELSE {asleep \ {l} : l \in asleep}

NotifyAll == asleep' = {}

LastReader == readerCount = 1

ReadRelease(l) ==
    /\ l \in locked \cap AllReaders
    /\ Mates(l) \cap waiting = {}
    /\ locked' = locked \ {l}
    /\ readerCount' = readerCount - 1
    /\ IF LastReader
       THEN writerCount' = writerCount - 1 /\ NotifyAll
       ELSE UNCHANGED <<writerCount, asleep>>
    /\ UNCHANGED waiting

WriteRelease(l) ==
    /\ l \in locked \cap AllWriters
    /\ Mates(l) \cap waiting = {}
    /\ locked' = locked \ {l}
    /\ writerCount' = writerCount - 1
    /\ NotifyAll
    /\ UNCHANGED <<readerCount, waiting>>

-----------------------------------------------------------------------------

Calls ==
    \/ \E l \in ReaderLocks : ReadAcquire(l) \/ ReadWait(l)
    \/ \E l \in WriterLocks : WriteAcquire(l) \/ WriteWait(l)
    \/ \E l \in TryReaderLocks : TryRead(l)
    \/ \E l \in TryWriterLocks : TryWrite(l)

WakeUp(l) == Retry(l) \/ ReadWoken(l) \/ WriteWoken(l)

Release(l) == ReadRelease(l) \/ WriteRelease(l)

Next ==
    \/ Calls
    \/ \E l \in Locks : WakeUp(l) \/ SpuriousWakeup(l) \/ Release(l)

Spec == Init /\ [][Next]_vars

\* Threads that are awake run, and every scope that holds a lock ends.
Fairness == \A l \in Locks : WF_vars(WakeUp(l)) /\ WF_vars(Release(l))

FairSpec == Spec /\ Fairness

-----------------------------------------------------------------------------

\* A writer is alone, whatever the mixture of waiting and trying lock objects
\* over the two shared counters.
Exclusion == \A l \in locked \cap AllWriters : locked = {l}

\* The two counters say who holds the lock: the readers together count as one
\* writer.
CountersAgree ==
    /\ readerCount = Cardinality(locked \cap AllReaders)
    /\ writerCount = IF locked = {} THEN 0 ELSE 1

\* No wake-up is lost: a thread sleeps only while somebody holds the lock and
\* will therefore notify it.
NoLostWakeup == asleep # {} => locked # {}

\* Nobody waits for itself: a thread that holds a read lock and takes another
\* one is never made to wait, not even when a writer waits between the two.
NobodyWaitsForItself == \A l \in waiting : Mates(l) \cap locked = {}

\* A thread that waits does nothing else.
OneWaitPerThread == \A l \in waiting : Mates(l) \cap waiting = {l}

IInv ==
    /\ TypeOK
    /\ Exclusion
    /\ CountersAgree
    /\ NoLostWakeup
    /\ NobodyWaitsForItself
    /\ OneWaitPerThread

\* A thread that waits is served, unless newcomers keep coming.  (They can hold
\* it up for ever: a reader that was woken sleeps again if the lock is held by
\* readers it could have joined.)
Served ==
    \A l \in Locks :
        (l \in waiting ~> l \in locked) \/ []<><<Calls>>_vars

\* The lock is a reader/writer lock.
Promise == INSTANCE ReadersWriter WITH
    reading <- locked \cap AllReaders,
    writing <- locked \cap AllWriters

ImplementsLock == Promise!Spec

=============================================================================
