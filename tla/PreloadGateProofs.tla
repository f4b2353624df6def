-------------------------- MODULE PreloadGateProofs --------------------------
(***************************************************************************)
(* Proofs about decoding ahead: the gate that serializes the decoding of   *)
(* RAW photos never keeps a lease or a waiter that nobody has.             *)
(*                                                                         *)
(* The lease has to be followed through the three threads that may have    *)
(* it; the foreground thread gives it back when its load is given up,      *)
(* handed over or decoded, and knows by the photo of its load whether it   *)
(* has one.  So the invariant must also say that this photo does not       *)
(* change under it: the next click takes a generation no load has.         *)
(***************************************************************************)
EXTENDS PreloadGate, FiniteSetTheorems, TLAPS

\* A job of the preloader that decodes a RAW photo, and a comparison, hold the
\* lease of the gate.
WorkerHolds ==
    worker.photo \in Raw /\ worker.at \in
        {"pressure", "advertise", "again", "retract", "release", "decode"}
AuxHolds == aux = "decode"

\* The threads are where they can be.
Shapes ==
    /\ worker = [at |-> worker.at, photo |-> worker.photo]
    /\ fg = [at |-> fg.at, load |-> fg.load, image |-> fg.image]
    /\ gui = [at |-> gui.at, photo |-> gui.photo, preloading |-> gui.preloading]
    /\ aux \in {"idle", "waiting", "decode"}
    /\ worker.at = "acquire" => worker.photo \in Raw

\* A lease has one holder, and is of its kind.
OwnerHolds ==
    /\ owner \in {"None", "Preload", "Foreground"}
    /\ owner = "Preload" <=> WorkerHolds
    /\ owner = "Foreground" <=> Leased \/ AuxHolds
    /\ ~ (Leased /\ AuxHolds)

\* waiting counts the foreground loads in acquireForeground().
WaitingCounts ==
    /\ waiting = (IF fg.at = "waiting" THEN 1 ELSE 0) + (IF aux = "waiting" THEN 1 ELSE 0)
    /\ fg.at = "waiting" => Photo \in Raw

\* The click being handled has a generation of its own, which no load has yet.
Fresh == gui.at \in {"prioritize", "take", "open", "enqueue"}

\* Whatever is queued, delayed or under way has been clicked before.
LoadsAreOld ==
    /\ generation \in Nat /\ clicks \in 0 .. MaxClicks /\ generation <= clicks
    /\ photo \in [Loads -> Photos \cup {None}]
    /\ gui.at # "idle" => generation > 0
    /\ gui.photo \in Photos \cup {None}
    /\ queue \in Seq(Loads)
    /\ delayed \subseteq Loads
    /\ fg.at # "idle" => fg.load \in Loads
    /\ Fresh => /\ generation \notin delayed
                /\ \A i \in DOMAIN queue : queue[i] # generation
                /\ fg.at # "idle" => fg.load # generation
    /\ fg.at # "idle" => fg.load <= generation
    /\ \A l \in delayed : l <= generation
    /\ \A i \in DOMAIN queue : queue[i] <= generation

\* The inductive invariant.
IInv == Shapes /\ OwnerHolds /\ WaitingCounts /\ LoadsAreOld

\* The lease has the holder it names.
LEMMA HoldersCounted ==
    ASSUME OwnerHolds
    PROVE  Cardinality(Holders) = (IF owner = "None" THEN 0 ELSE 1)
<1>1. CASE owner = "None"
  <2>1. Holders = {}
    BY <1>1 DEF OwnerHolds, Holders, WorkerHolds, AuxHolds
  <2>2. QED
    BY <1>1, <2>1, FS_EmptySet
<1>2. CASE owner # "None"
  <2>1. Holders = {"worker"} \/ Holders = {"foreground"} \/ Holders = {"aux"}
    <3>1. CASE owner = "Preload"
      BY <3>1 DEF OwnerHolds, Holders, WorkerHolds, AuxHolds
    <3>2. CASE owner = "Foreground" /\ Leased
      BY <3>2 DEF OwnerHolds, Holders, WorkerHolds, AuxHolds
    <3>3. CASE owner = "Foreground" /\ AuxHolds
      BY <3>3 DEF OwnerHolds, Holders, WorkerHolds, AuxHolds
    <3>4. QED
      BY <1>2, <3>1, <3>2, <3>3 DEF OwnerHolds
  <2>2. QED
    BY <1>2, <2>1, FS_Singleton
<1>3. QED
  BY <1>1, <1>2

\* Who waits is counted.
LEMMA WaitersCounted == ASSUME WaitingCounts PROVE waiting = Cardinality(Waiters)
<1>1. CASE fg.at = "waiting" /\ aux = "waiting"
  <2>1. Waiters = {"foreground"} \cup {"aux"}
    BY <1>1 DEF Waiters
  <2>2. /\ IsFiniteSet({"foreground"}) /\ Cardinality({"foreground"}) = 1
        /\ "aux" \notin {"foreground"}
    BY FS_Singleton
  <2>3. Cardinality({"foreground"} \cup {"aux"}) = 2
    BY <2>2, FS_AddElement
  <2>4. waiting = 2
    BY <1>1 DEF WaitingCounts
  <2>5. QED
    BY <2>1, <2>3, <2>4
<1>2. CASE fg.at = "waiting" /\ aux # "waiting"
  <2>1. Waiters = {"foreground"}
    BY <1>2 DEF Waiters
  <2>2. waiting = 1
    BY <1>2 DEF WaitingCounts
  <2>3. QED
    BY <2>1, <2>2, FS_Singleton
<1>3. CASE fg.at # "waiting" /\ aux = "waiting"
  <2>1. Waiters = {"aux"}
    BY <1>3 DEF Waiters
  <2>2. waiting = 1
    BY <1>3 DEF WaitingCounts
  <2>3. QED
    BY <2>1, <2>2, FS_Singleton
<1>4. CASE fg.at # "waiting" /\ aux # "waiting"
  <2>1. Waiters = {}
    BY <1>4 DEF Waiters
  <2>2. QED
    BY <1>4, <2>1, FS_EmptySet DEF WaitingCounts
<1>5. QED
  BY <1>1, <1>2, <1>3, <1>4

\* At first the gate is free.
LEMMA InitInv == ASSUME Init PROVE IInv
<1> USE DEF Init
<1>1. Shapes
  BY DEF Shapes, Off, IdleThread, IdleGui
<1>2. OwnerHolds /\ WaitingCounts
  BY DEF OwnerHolds, WaitingCounts, WorkerHolds, AuxHolds, Leased, Off, IdleThread
<1>3. LoadsAreOld
  BY BoundsAssumption DEF LoadsAreOld, Fresh, IdleThread, IdleGui
<1>4. QED
  BY <1>1, <1>2, <1>3 DEF IInv

\* What the threads of the foreground work on.
foregroundVars == <<fg, photo, aux, waiting, gui, generation, clicks, queue, delayed>>

\* A step of the preloader alone does not touch the foreground.
LEMMA ForegroundSame ==
    ASSUME UNCHANGED foregroundVars, IInv
    PROVE  WaitingCounts' /\ LoadsAreOld' /\ (Leased' <=> Leased) /\ (AuxHolds' <=> AuxHolds)
<1> USE DEF foregroundVars
<1>1. WaitingCounts'
  BY DEF IInv, WaitingCounts, Photo
<1>2. LoadsAreOld'
  BY DEF IInv, LoadsAreOld, Fresh
<1>3. (Leased' <=> Leased) /\ (AuxHolds' <=> AuxHolds)
  BY DEF Leased, Photo, AuxHolds
<1>4. QED
  BY <1>1, <1>2, <1>3

\* The preloader takes the lease in Acquire, and gives it back in every way out.
LEMMA WorkerKeepsInv == ASSUME IInv, WorkerStep PROVE IInv'
<1> USE DEF At, gate, manager, preloader, panel, thread, others
<1>0. UNCHANGED foregroundVars
  BY DEF WorkerStep, foregroundVars, Pick, Finish, Check, Acquire, Pressure, Advertise,
     Retract, Yield,
     Decode, Failed, Store, Rest
<1>1. /\ Shapes
      /\ OwnerHolds
      /\ UNCHANGED <<fg, gui, aux>>
      /\ (Leased' <=> Leased)
      /\ (AuxHolds' <=> AuxHolds)
  BY <1>0, ForegroundSame DEF IInv, foregroundVars
<1>2. Shapes' /\ OwnerHolds'
  <2> USE <1>1 DEF Shapes, OwnerHolds, WorkerHolds
  <2>1. CASE Pick
    BY <2>1 DEF Pick
  <2>2. CASE Finish
    BY <2>2 DEF Finish, Off
  <2>3. CASE Check
    <3>1. UNCHANGED <<owner, worker.photo>> /\ worker.at = "check"
      BY <2>3 DEF Check
    <3>2. /\ worker' = [worker EXCEPT !.at = worker'.at]
          /\ worker'.at \in {"pick", "acquire", "pressure", "rest"}
      BY <2>3 DEF Check
    <3>3. worker'.at \in {"acquire", "pressure"} => (worker'.at = "acquire" <=> worker.photo \in Raw)
      BY <2>3 DEF Check
    <3>4. QED
      <4>1. worker' = [at |-> worker'.at, photo |-> worker.photo]
        BY <3>2
      <4>2. worker'.photo = worker.photo
        BY <4>1
      <4>3. Shapes'
        BY <3>2, <3>3, <4>1, <4>2
      <4>4. ~WorkerHolds /\ ~WorkerHolds'
        BY <3>1, <3>2, <3>3, <4>2
      <4> HIDE DEF WorkerHolds
      <4>5. OwnerHolds'
        BY <3>1, <4>4
      <4>6. QED
        BY ONLY <4>3, <4>5
  <2>4. CASE Acquire
    <3>1. worker' = [worker EXCEPT !.at = worker'.at] /\ worker.at = "acquire"
      BY <2>4 DEF Acquire
    <3>2. worker'.photo = worker.photo /\ worker.photo \in Raw /\ ~WorkerHolds
      BY <3>1
    <3>3. \/ owner = "None" /\ owner' = "Preload" /\ worker'.at = "pressure"
          \/ owner' = owner /\ worker'.at = "pick"
      BY <2>4 DEF Acquire, Ready
    <3>4. Shapes'
      BY <3>1, <3>2, <3>3
    <3>5. OwnerHolds'
      BY <3>2, <3>3
    <3>6. QED
      BY ONLY <3>4, <3>5
  <2>5. CASE Pressure
    BY <2>5 DEF Pressure
  <2>6. CASE Advertise
    BY <2>6 DEF Advertise
  <2>7. CASE Retract
    BY <2>7 DEF Retract
  <2>8. CASE Yield
    BY <2>8 DEF Yield
  <2>9. CASE Decode
    BY <2>9 DEF Decode
  <2>10. CASE Failed
    BY <2>10 DEF Failed
  <2>11. CASE Store
    BY <2>11 DEF Store
  <2>12. CASE Rest
    BY <2>12 DEF Rest
  <2> HIDE <1>1
  <2> QED
    BY WorkerStep, <2>1, <2>2, <2>3, <2>4, <2>5, <2>6, <2>7, <2>8, <2>9, <2>10, <2>11, <2>12
       DEF WorkerStep
<1>3. QED
  BY <1>0, <1>2, ForegroundSame DEF IInv

\* What the gate counts does not change with anything else.
LEMMA GateSame ==
    ASSUME UNCHANGED <<owner, worker, fg, aux, photo, waiting>>
    PROVE  (OwnerHolds' <=> OwnerHolds) /\ (WaitingCounts' <=> WaitingCounts)
BY DEF OwnerHolds, WaitingCounts, WorkerHolds, AuxHolds, Leased, Photo

\* A comparison is counted, holds the lease and gives it back.
LEMMA AuxKeepsInv == ASSUME IInv, AuxStep PROVE IInv'
<1>1. UNCHANGED <<worker, fg, gui, photo, generation, clicks, queue, delayed>>
  BY DEF AuxStep, AuxAsks, AuxCanceled, AuxEnters, AuxEnds, preloader, thread, panel
<1>2. /\ LoadsAreOld'
      /\ (WorkerHolds' <=> WorkerHolds)
      /\ (Leased' <=> Leased)
      /\ Photo' = Photo
  BY <1>1 DEF IInv, LoadsAreOld, Fresh, WorkerHolds, Leased, Photo
<1>3. Shapes' /\ OwnerHolds' /\ WaitingCounts'
  BY <1>1, <1>2 DEF IInv, Shapes, OwnerHolds, WaitingCounts, AuxHolds,
     AuxStep, AuxAsks, AuxCanceled, AuxEnters, AuxEnds, Activity, Release
<1>4. QED
  BY <1>2, <1>3 DEF IInv

\* Time and the editor's processing do not touch the gate's lease.
LEMMA OthersKeepInv == ASSUME IInv, EditorStep \/ Time PROVE IInv'
<1>1. UNCHANGED <<owner, waiting, worker, fg, aux, gui, photo, generation, clicks, queue, delayed>>
  BY DEF EditorStep, EditorStarts, EditorSettles, Time, QuietComes, DeferralEnds,
     RetryComes,
     gate, preloader, thread, panel, others
<1>2. Shapes' /\ LoadsAreOld'
  BY <1>1 DEF IInv, Shapes, LoadsAreOld, Fresh
<1>3. QED
  BY <1>1, <1>2, GateSame DEF IInv

\* A step that leaves the gate and its holders alone.
LEMMA SameLease ==
    ASSUME OwnerHolds, UNCHANGED <<owner, worker, aux>>, Leased' <=> Leased
    PROVE  OwnerHolds'
<1>1. (WorkerHolds' <=> WorkerHolds) /\ (AuxHolds' <=> AuxHolds)
  BY DEF WorkerHolds, AuxHolds
<1>2. QED
  BY <1>1 DEF OwnerHolds

\* The end of a load gives its lease back.
LEMMA LeaseEnds ==
    ASSUME OwnerHolds, UNCHANGED <<worker, aux>>, fg' = IdleThread,
           owner' = IF Leased THEN "None" ELSE owner
    PROVE  OwnerHolds'
<1>1. (WorkerHolds' <=> WorkerHolds) /\ (AuxHolds' <=> AuxHolds)
  BY DEF WorkerHolds, AuxHolds
<1>2. ~Leased'
  BY DEF Leased, IdleThread
<1>3. QED
  BY <1>1, <1>2 DEF OwnerHolds

\* A step outside acquireForeground() does not change who waits.
LEMMA SameWaiting ==
    ASSUME WaitingCounts, UNCHANGED <<waiting, aux>>, fg.at # "waiting", fg'.at # "waiting"
    PROVE  WaitingCounts'
BY DEF WaitingCounts

\* The foreground thread waits at the gate, holds the lease and gives it back.
LEMMA ThreadKeepsInv == ASSUME IInv, ThreadStep PROVE IInv'
<1>1. UNCHANGED <<worker, aux, gui, photo, generation, clicks, delayed>>
  BY DEF ThreadStep, TakeLoad, GiveUp, HandOver, AskHandOver, NoHandOver, AskGate,
     EnterGate,
     Claim, DecodeLoad, Decoded, gate, manager, preloader, panel, others
<1>2. LoadsAreOld'
  <2>1. CASE TakeLoad
    BY <1>1, <2>1 DEF TakeLoad, LoadsAreOld, Fresh, IInv
  <2>2. CASE UNCHANGED queue /\ (fg' = IdleThread \/ (fg'.load = fg.load /\ fg.at # "idle"))
    BY <1>1, <2>2 DEF LoadsAreOld, Fresh, IInv, IdleThread
  <2>3. QED
    BY <2>1, <2>2 DEF ThreadStep, TakeLoad, GiveUp, HandOver, AskHandOver, NoHandOver,
       AskGate, EnterGate,
     Claim, DecodeLoad, Decoded, BeforeGate, AfterGate, EndLoad, FgAt, IInv, Shapes
<1>3. Shapes'
  <2>1. fg' = [at |-> fg'.at, load |-> fg'.load, image |-> fg'.image]
    <3>1. CASE fg' = IdleThread
      BY <3>1 DEF IdleThread
    <3>2. CASE TakeLoad
      BY <3>2 DEF TakeLoad
    <3>3. CASE \E where : FgAt(where)
      BY <3>3 DEF FgAt, IInv, Shapes
    <3>4. CASE DecodeLoad
      BY <3>4 DEF DecodeLoad, IInv, Shapes
    <3>5. QED
      BY <3>1, <3>2, <3>3, <3>4 DEF ThreadStep, GiveUp, HandOver, AskHandOver, NoHandOver,
         AskGate,
         EnterGate, Claim, Decoded, EndLoad
  <2>2. QED
    BY <1>1, <2>1 DEF IInv, Shapes
<1>4. OwnerHolds' /\ WaitingCounts'
  <2>0. OwnerHolds /\ WaitingCounts /\ UNCHANGED <<worker, aux>>
    BY <1>1 DEF IInv
  <2> USE <1>1 DEF IInv, Shapes
  <2>1. CASE TakeLoad
    <3>1. UNCHANGED <<owner, waiting>> /\ fg.at = "idle" /\ fg'.at = "enter"
      BY <2>1 DEF TakeLoad, gate
    <3>2. ~Leased /\ ~Leased'
      BY <3>1 DEF Leased
    <3>3. QED
      BY ONLY <3>1, <3>2, <2>0, SameLease, SameWaiting
  <2>2. CASE GiveUp
    <3>1. fg' = IdleThread /\ owner' = IF Leased THEN "None" ELSE owner
      BY <2>2 DEF GiveUp, EndLoad, Release
    <3>2. fg'.at = "idle" /\ waiting' = IF fg.at = "waiting" THEN waiting - 1 ELSE waiting
      BY <2>2, <3>1 DEF GiveUp, IdleThread
    <3>3. WaitingCounts'
      BY <2>0, <3>2 DEF WaitingCounts
    <3>4. QED
      BY <2>0, <3>1, <3>3, LeaseEnds
  <2>3. CASE HandOver
    <3>1. fg' = IdleThread /\ owner' = IF Leased THEN "None" ELSE owner
      BY <2>3 DEF HandOver, Release
    <3>2. fg.at # "waiting" /\ UNCHANGED waiting
      BY ONLY <2>3 DEF HandOver, BeforeGate, AfterGate
    <3>3. fg'.at # "waiting"
      BY ONLY <3>1 DEF IdleThread
    <3>4. QED
      BY <2>0, <3>1, <3>2, <3>3, LeaseEnds, SameWaiting
  <2>4. CASE AskHandOver
    <3>1. /\ UNCHANGED <<owner, waiting>>
          /\ fg.at # "waiting"
          /\ fg'.at # "waiting"
          /\ (Leased' <=> Leased)
      BY <2>4 DEF AskHandOver, BeforeGate, AfterGate, FgAt, Leased, Photo, gate
    <3>2. QED
      BY ONLY <3>1, <2>0, SameLease, SameWaiting
  <2>5. CASE NoHandOver
    <3>1. /\ UNCHANGED <<owner, waiting>>
          /\ fg.at # "waiting"
          /\ fg'.at # "waiting"
          /\ (Leased' <=> Leased)
      BY <2>5 DEF NoHandOver, BeforeGate, AfterGate, FgAt, Leased, Photo, gate
    <3>2. QED
      BY ONLY <3>1, <2>0, SameLease, SameWaiting
  <2>6. CASE AskGate
    <3>1. UNCHANGED <<owner, Photo, fg.load>> /\ fg.at = "gate"
      BY <2>6 DEF AskGate, FgAt, Photo
    <3>2. CASE Photo \in Raw
      <4>1. fg'.at = "waiting" /\ waiting' = waiting + 1
        BY <2>6, <3>2 DEF AskGate, FgAt
      <4>2. ~Leased /\ ~Leased'
        BY <3>1, <4>1 DEF Leased
      <4>3. OwnerHolds'
        BY <2>0, <3>1, <4>2, SameLease
      <4>4. WaitingCounts'
        BY <3>1, <3>2, <4>1 DEF WaitingCounts
      <4>5. QED
        BY <4>3, <4>4
    <3>3. CASE Photo \notin Raw
      <4>1. fg'.at = "gated" /\ waiting' = waiting
        BY <2>6, <3>3 DEF AskGate, FgAt
      <4>2. ~Leased /\ ~Leased'
        BY <3>1, <3>3, <4>1 DEF Leased
      <4>3. QED
        BY <3>1, <4>1, <4>2, <2>0, SameLease, SameWaiting
    <3>4. QED
      BY ONLY <3>2, <3>3
  <2>7. CASE EnterGate
    <3>1. /\ fg.at = "waiting" /\ owner = "None" /\ owner' = "Foreground"
          /\ waiting' = waiting - 1 /\ fg'.at = "gated" /\ fg'.load = fg.load
      BY <2>7 DEF EnterGate, FgAt
    <3>2. WaitingCounts' /\ Photo \in Raw
      BY <2>0, <3>1 DEF WaitingCounts
    <3>3. Photo' = Photo
      BY <3>1 DEF Photo
    <3>4. fg.load # None
      BY <3>1, NoneAssumption DEF LoadsAreOld
    <3>5. QED
      BY <2>0, <3>1, <3>2, <3>3, <3>4 DEF OwnerHolds, Leased, WorkerHolds, AuxHolds
  <2>8. CASE Claim
    <3>1. /\ UNCHANGED <<owner, waiting>>
          /\ fg.at # "waiting"
          /\ fg'.at # "waiting"
          /\ (Leased' <=> Leased)
      BY <2>8 DEF Claim, BeforeGate, AfterGate, FgAt, Leased, Photo, gate
    <3>2. QED
      BY ONLY <3>1, <2>0, SameLease, SameWaiting
  <2>9. CASE DecodeLoad
    <3>1. /\ UNCHANGED <<owner, waiting>>
          /\ fg.at # "waiting"
          /\ fg'.at # "waiting"
          /\ (Leased' <=> Leased)
      BY <2>9 DEF DecodeLoad, BeforeGate, AfterGate, FgAt, Leased, Photo, gate
    <3>2. QED
      BY ONLY <3>1, <2>0, SameLease, SameWaiting
  <2>10. CASE Decoded
    <3>1. fg' = IdleThread /\ owner' = IF Leased THEN "None" ELSE owner
      BY <2>10 DEF Decoded, EndLoad, Release
    <3>2. fg.at # "waiting" /\ fg'.at # "waiting" /\ UNCHANGED waiting
      BY <2>10, <3>1 DEF Decoded, IdleThread
    <3>3. QED
      BY <2>0, <3>1, <3>2, LeaseEnds, SameWaiting
  <2> QED
    BY <2>1, <2>2, <2>3, <2>4, <2>5, <2>6, <2>7, <2>8, <2>9, <2>10 DEF ThreadStep
<1>5. QED
  BY <1>2, <1>3, <1>4 DEF IInv

\* A click takes the next generation.
LEMMA ClickKeepsInv == ASSUME IInv, NEW p \in Photos, Click(p) PROVE IInv'
<1>1. /\ UNCHANGED <<owner, waiting, worker, fg, aux, photo, queue, delayed>>
      /\ clicks < MaxClicks
      /\ clicks' = clicks + 1
  BY DEF Click, preloader, thread
<1>2. \/ generation' = generation + 1 /\ gui' = [at |-> "prioritize", photo |-> p, preloading |-> FALSE]
      \/ UNCHANGED <<generation, gui>>
  BY DEF Click
<1>3. gui.at = "idle"
  BY DEF Click, GuiIdle
<1>4. Shapes'
  BY <1>1, <1>2 DEF IInv, Shapes
<1>5. LoadsAreOld'
  BY <1>1, <1>2, <1>3, BoundsAssumption DEF IInv, LoadsAreOld, Fresh, Loads
<1>6. QED
  BY <1>1, <1>4, <1>5, GateSame DEF IInv

\* The photo of the load that the foreground thread runs is not touched.
LEMMA GuiKeepsGate ==
    ASSUME IInv, UNCHANGED <<owner, waiting, fg, aux, worker>>,
           fg.at # "idle" => Photo' = Photo
    PROVE  OwnerHolds' /\ WaitingCounts'
<1>1. (Leased' <=> Leased) /\ (WorkerHolds' <=> WorkerHolds) /\ (AuxHolds' <=> AuxHolds)
  <2>1. CASE fg.at = "idle"
    BY <2>1 DEF Leased, WorkerHolds, AuxHolds
  <2>2. CASE fg.at # "idle"
    BY <2>2 DEF Leased, WorkerHolds, AuxHolds
  <2>3. QED
    BY <2>1, <2>2
<1>2. OwnerHolds'
  BY <1>1, SameLease DEF IInv
<1>3. WaitingCounts'
  BY DEF IInv, WaitingCounts
<1>4. QED
  BY <1>2, <1>3

\* A click on its way: its load is enqueued under its own generation.
LEMMA SelectKeepsInv == ASSUME IInv, SelectStep PROVE IInv'
<1>1. UNCHANGED <<owner, waiting, worker, fg, aux, clicks, generation>>
  BY DEF SelectStep, Prioritize, TakeDecoded, OpenDecoded, Enqueue, Start, gate, preloader,
     thread, others
<1>2. OwnerHolds' /\ WaitingCounts'
  <2>1. fg.at # "idle" => Photo' = Photo
    <3>1. CASE Enqueue
      <4>1. fg.at # "idle" => fg.load # generation /\ fg.load \in Loads
        BY <3>1 DEF IInv, LoadsAreOld, Fresh, Enqueue
      <4>2. /\ photo \in [Loads -> Photos \cup {None}]
            /\ photo' = [photo EXCEPT ![generation] = gui.photo]
        BY <3>1 DEF IInv, LoadsAreOld, Enqueue
      <4>3. QED
        BY <1>1, <4>1, <4>2 DEF Photo
    <3>2. CASE UNCHANGED photo
      BY <1>1, <3>2 DEF Photo
    <3>3. QED
      BY <3>1, <3>2 DEF SelectStep, Prioritize, TakeDecoded, OpenDecoded, Start
  <2>2. QED
    BY <1>1, <2>1, GuiKeepsGate
<1>3. Shapes'
  <2>1. gui' = [at |-> gui'.at, photo |-> gui'.photo, preloading |-> gui'.preloading]
    <3>1. CASE Prioritize
      BY <3>1 DEF Prioritize, IInv, Shapes
    <3>2. CASE TakeDecoded
      BY <3>2 DEF TakeDecoded, IInv, Shapes
    <3>3. CASE Enqueue
      BY <3>3 DEF Enqueue, IInv, Shapes
    <3>4. CASE gui' = IdleGui
      BY <3>4 DEF IdleGui
    <3>5. QED
      BY <3>1, <3>2, <3>3, <3>4 DEF SelectStep, OpenDecoded, Start
  <2>2. QED
    BY <1>1, <2>1 DEF IInv, Shapes
<1>4. LoadsAreOld'
  <2>0. /\ LoadsAreOld
        /\ gui = [at |-> gui.at, photo |-> gui.photo, preloading |-> gui.preloading]
    BY DEF IInv, Shapes
  <2>1. CASE Prioritize \/ TakeDecoded
    <3>1. UNCHANGED <<photo, queue, delayed>> /\ gui.at \in {"prioritize", "take"}
      BY <2>1 DEF Prioritize, TakeDecoded, thread
    <3>2. gui'.photo = gui.photo
      BY <2>0, <2>1 DEF Prioritize, TakeDecoded
    <3>3. QED
      BY <1>1, <2>0, <3>1, <3>2 DEF LoadsAreOld, Fresh
  <2>2. CASE OpenDecoded
    BY <1>1, <2>0, <2>2 DEF OpenDecoded, LoadsAreOld, Fresh, IdleGui, thread
  <2>3. CASE Enqueue
    <3>1. /\ UNCHANGED queue /\ delayed' = {} /\ photo' = [photo EXCEPT ![generation] = gui.photo]
          /\ gui.at = "enqueue"
      BY <2>3 DEF Enqueue, thread
    <3>2. gui'.photo = gui.photo /\ gui'.at \in {"delay", "start"}
      BY <2>0, <2>3 DEF Enqueue
    <3>3. photo' \in [Loads -> Photos \cup {None}]
      BY <2>0, <3>1 DEF LoadsAreOld
    <3>4. QED
      BY <1>1, <2>0, <3>1, <3>2, <3>3 DEF LoadsAreOld, Fresh
  <2>4. CASE Start
    <3>1. UNCHANGED photo /\ gui' = IdleGui /\ generation \in Loads
      BY <2>0, <2>4, BoundsAssumption DEF Start, LoadsAreOld, Loads
    <3>2. \/ queue' = Append(queue, generation) /\ UNCHANGED delayed
          \/ delayed' = {generation} /\ UNCHANGED queue
      BY <2>4 DEF Start
    <3>3. queue' \in Seq(Loads) /\ \A i \in DOMAIN queue' : queue'[i] <= generation
      <4>1. queue \in Seq(Loads) /\ (\A i \in DOMAIN queue : queue[i] <= generation) /\ generation \in Nat
        BY <2>0 DEF LoadsAreOld
      <4>2. CASE queue' = Append(queue, generation)
        BY ONLY <3>1, <4>1, <4>2
      <4>3. QED
        BY <3>2, <4>1, <4>2
    <3>4. delayed' \subseteq Loads /\ \A l \in delayed' : l <= generation
      BY <2>0, <3>1, <3>2 DEF LoadsAreOld, Loads
    <3>5. gui'.at = "idle" /\ gui'.photo = None
      BY <3>1 DEF IdleGui
    <3>6. QED
      BY <1>1, <2>0, <3>1, <3>3, <3>4, <3>5 DEF LoadsAreOld, Fresh
  <2>5. QED
    BY <2>1, <2>2, <2>3, <2>4 DEF SelectStep
<1>5. QED
  BY <1>2, <1>3, <1>4 DEF IInv

\* The other steps of the GUI thread start a delayed load or a preload at most.
LEMMA GuiKeepsInv == ASSUME IInv, GuiStep, ~SelectStep PROVE IInv'
<1>1. UNCHANGED <<owner, waiting, fg, aux, clicks, generation, gui, photo>>
  BY DEF GuiStep, ImageLoaded, PreloadAdjacent, FirstFrame, OpenPhaseB, Edit, StartDelayed,
     Open, NoteIntent, gate, preloader, thread, others, panel
<1>2. worker' = worker \/ (worker.at = "off" /\ worker' = [at |-> "start", photo |-> None])
  BY DEF GuiStep, ImageLoaded, PreloadAdjacent, FirstFrame, OpenPhaseB, Edit, StartDelayed,
     preloader, Off
<1>3. Shapes' /\ (WorkerHolds' <=> WorkerHolds)
  BY <1>1, <1>2 DEF IInv, Shapes, WorkerHolds
<1>4. OwnerHolds' /\ WaitingCounts'
  <2>1. (Leased' <=> Leased) /\ (AuxHolds' <=> AuxHolds) /\ Photo' = Photo
    BY <1>1 DEF Leased, AuxHolds, Photo
  <2>2. QED
    BY <1>1, <1>3, <2>1 DEF IInv, OwnerHolds, WaitingCounts
<1>5. LoadsAreOld'
  <2>1. CASE UNCHANGED <<queue, delayed>>
    BY <1>1, <2>1 DEF IInv, LoadsAreOld, Fresh
  <2>2. ASSUME NEW l \in Loads, StartDelayed(l) PROVE LoadsAreOld'
    <3>1. /\ l \in delayed
          /\ delayed' = delayed \ {l}
          /\ queue' = Append(queue, l)
          /\ gui.at = "idle"
      BY <2>2 DEF StartDelayed, GuiIdle
    <3>2. queue' \in Seq(Loads) /\ \A i \in DOMAIN queue' : queue'[i] <= generation
      BY <3>1 DEF IInv, LoadsAreOld
    <3>3. QED
      BY <1>1, <3>1, <3>2 DEF IInv, LoadsAreOld, Fresh
  <2>3. QED
    BY <2>1, <2>2 DEF GuiStep, ImageLoaded, PreloadAdjacent, FirstFrame, OpenPhaseB, Edit,
       thread, panel
<1>6. QED
  BY <1>3, <1>4, <1>5 DEF IInv

\* RAW decodes are serialized, whatever the folder, the cache and the clicks: the gate's
\* lease has exactly the holder it names, and it counts exactly those who wait.
THEOREM RawDecodesAreSerialized == Spec => []GateAgrees
<1>1. Init => IInv
  BY InitInv
<1>2. IInv /\ [Next]_vars => IInv'
  <2> SUFFICES ASSUME IInv, [Next]_vars PROVE IInv'
    OBVIOUS
  <2>1. CASE \E p \in Photos : Click(p)
    BY <2>1, ClickKeepsInv
  <2>2. CASE WorkerStep
    BY <2>2, WorkerKeepsInv
  <2>3. CASE ThreadStep
    BY <2>3, ThreadKeepsInv
  <2>4. CASE GuiStep
    BY <2>4, SelectKeepsInv, GuiKeepsInv
  <2>5. CASE EditorStep \/ Time
    BY <2>5, OthersKeepInv
  <2>6. CASE AuxStep
    BY <2>6, AuxKeepsInv
  <2>7. CASE UNCHANGED vars
    <3>1. UNCHANGED <<owner, worker, fg, gui, aux, photo, waiting, generation, clicks, queue, delayed>>
      BY <2>7 DEF vars, gate, preloader, panel, thread, others
    <3>2. Shapes' /\ LoadsAreOld'
      BY <3>1 DEF IInv, Shapes, LoadsAreOld, Fresh
    <3>3. QED
      BY <3>1, <3>2, GateSame DEF IInv
  <2>8. QED
    BY <2>1, <2>2, <2>3, <2>4, <2>5, <2>6, <2>7 DEF Next
<1>3. IInv => GateAgrees
  BY HoldersCounted, WaitersCounted DEF IInv, GateAgrees
<1>4. QED
  BY <1>1, <1>2, <1>3, PTL DEF Spec
=============================================================================
