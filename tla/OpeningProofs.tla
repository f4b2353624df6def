---------------------------- MODULE OpeningProofs ----------------------------
(***************************************************************************)
(* Proofs about opening a photo.                                           *)
(*                                                                         *)
(* The gate of the background work, of which MCOpening checks that no      *)
(* pause is left behind: the invariant joins that to the types, to who     *)
(* pauses in the foreground, and to when an editor is open.                *)
(*                                                                         *)
(* The loads, their thumbnails and the editor (PhotoOpening): the          *)
(* invariant OpeningInv joins what is checked to the line the loads stand  *)
(* in, to which of them was accepted last, to what the error dialogs keep, *)
(* and to a count of references that is enough for every holder.           *)
(***************************************************************************)
EXTENDS MCOpening, FiniteSetTheorems, SequenceTheorems, TLAPS

\* A photo whose setup is under way is open.
NewIsOpen == gSetup \in {"deferred", "waiting"} => open # None

GateInv == NewIsOpen /\ Gate!TypeOK /\ Gate!NoStrandedPause /\ Gate!ForegroundPauses

\* At first nothing is paused.
LEMMA GateStarts == ASSUME Gate!Init PROVE GateInv
<1>1. 0 \in 0 .. MaxLoads /\ 0 \in 0 .. MaxEdits
  BY GateAssumption DEF Gate!BoundsAssumption
<1>2. Gate!NoStrandedPause /\ Gate!ForegroundPauses
  BY DEF Gate!Init, Gate!NoStrandedPause, Gate!ForegroundPauses
<1>3. {foreground, active, background, thumbnails, timer, gLoading, idle} \subseteq BOOLEAN
  BY DEF Gate!Init
<1>4. listener = {open} \ {None} /\ told = {} /\ change \subseteq listener
  BY DEF Gate!Init
<1>5. pc \in [Processors -> {"new", "idle", "beginning", "busy", "ending"}]
  BY DEF Gate!Init
<1>6. queued \in [state : BOOLEAN, current : BOOLEAN]
  BY DEF Gate!Init
<1>7. /\ open \in Processors \cup {None}
      /\ gSetup \in {"deferred", "waiting", "done", "cancelled"}
  BY DEF Gate!Init
<1>8. NewIsOpen
  BY DEF Gate!Init, NewIsOpen
<1>9. opened \in 0 .. MaxLoads /\ edits \in 0 .. MaxEdits
  BY <1>1 DEF Gate!Init
<1>10. QED
  BY <1>2, <1>3, <1>4, <1>5, <1>6, <1>7, <1>8, <1>9 DEF GateInv, Gate!TypeOK

\* Each step keeps the types.
LEMMA GateKeepsTypes ==
    ASSUME Gate!TypeOK, NewIsOpen, [Gate!Next]_(Gate!vars) PROVE Gate!TypeOK'
<1> USE GateAssumption DEF Gate!BoundsAssumption, Gate!NoneAssumption
<1> USE DEF Gate!TypeOK, Gate!gate, Gate!threads, Gate!messages
<1>1. CASE Gate!Select
  <2>1. opened' \in 0 .. MaxLoads
    BY <1>1 DEF Gate!Select
  <2>2. /\ gSetup' \in {"deferred", "waiting", "done", "cancelled"}
        /\ queued' \in [state : BOOLEAN, current : BOOLEAN]
    BY <1>1 DEF Gate!Select, Gate!NewSession
  <2>3. QED
    BY <1>1, <2>1, <2>2 DEF Gate!Select, Gate!PauseBackgroundWork
<1>2. ASSUME NEW p \in Processors, Gate!Opened(p) PROVE Gate!TypeOK'
  BY <1>2 DEF Gate!Opened, Gate!NewSession, Gate!ResumeAfterForeground
<1>3. CASE Gate!LoadFailed
  BY <1>3 DEF Gate!LoadFailed, Gate!ResumeAfterForeground
<1>4. CASE Gate!OpenPhaseB
  <2>1. open # None
    BY <1>4 DEF Gate!OpenPhaseB, NewIsOpen
  <2>2. QED
  BY <1>4, <2>1 DEF Gate!OpenPhaseB
<1>5. CASE Gate!EnableCrop
  BY <1>5 DEF Gate!EnableCrop
<1>6. CASE Gate!Edit
  BY <1>6 DEF Gate!Edit
<1>7. ASSUME NEW p \in Processors, Gate!ProcessorStep(p) PROVE Gate!TypeOK'
  <2> USE <1>7 DEF Gate!ProcessorStep, Gate!BeginPass, Gate!TellBegin, Gate!EndPass,
        Gate!TellEnd
  <2>1. pc' \in [Processors -> {"new", "idle", "beginning", "busy", "ending"}]
    OBVIOUS
  <2>2. ASSUME NEW q \in told' PROVE pc'[q] \in {"beginning", "ending"}
    <3>1. CASE q = p
      BY <2>2, <3>1
    <3>2. CASE q # p
      <4>1. q \in told /\ q \in Processors /\ pc[q] \in {"beginning", "ending"}
        BY <2>2, <3>2
      <4>2. pc'[q] = pc[q]
        BY <3>2, <4>1
      <4>3. QED
        BY <4>1, <4>2
    <3>3. QED
      BY <3>1, <3>2
  <2>7. told' \subseteq Processors
    OBVIOUS
  <2>3. /\ change' \subseteq listener'
        /\ UNCHANGED <<listener, open, Gate!gate, gLoading, gSetup>>
    OBVIOUS
  <2>4. queued' \in [state : BOOLEAN, current : BOOLEAN] /\ idle' \in BOOLEAN
    <3>1. UNCHANGED Gate!messages \/ \E state \in BOOLEAN : Gate!SetProgressState(state)
      BY DEF Gate!Call
    <3> HIDE <1>6
    <3>2. ASSUME NEW state \in BOOLEAN, Gate!SetProgressState(state)
          PROVE  queued' \in [state : BOOLEAN, current : BOOLEAN] /\ idle' \in BOOLEAN
      BY <3>2 DEF Gate!SetProgressState
    <3>3. QED
      BY <3>1, <3>2
  <2>5. UNCHANGED <<opened, edits>>
    OBVIOUS
  <2> HIDE DEF Gate!ProcessorStep
  <2>6. QED
    BY <2>1, <2>2, <2>3, <2>4, <2>5, <2>7
<1>8. CASE Gate!DeliverState
  BY <1>8 DEF Gate!DeliverState, Gate!SetEditorProcessingActivity,
     Gate!PauseBackgroundWork, Gate!ResumeAfterForeground
<1>9. CASE Gate!ResumeBackgroundWork
  BY <1>9 DEF Gate!ResumeBackgroundWork
<1>10. CASE UNCHANGED Gate!vars
  BY <1>10 DEF Gate!vars
<1>11. QED
  BY <1>1, <1>2, <1>3, <1>4, <1>5, <1>7, <1>8, <1>9, <1>10, <1>6 DEF Gate!Next, Gate!Load

\* Each step that pauses has set a flag that lets another one resume.
LEMMA GateKeepsFlags ==
    ASSUME GateInv, [Gate!Next]_(Gate!vars)
    PROVE  (Gate!NoStrandedPause /\ Gate!ForegroundPauses /\ NewIsOpen)'
<1> USE DEF GateInv, NewIsOpen, Gate!NoStrandedPause, Gate!ForegroundPauses, Gate!gate
<1> USE GateAssumption DEF Gate!NoneAssumption
<1>0. /\ {foreground, active, background, thumbnails, timer, gLoading, idle} \subseteq BOOLEAN
      /\ queued.state \in BOOLEAN
  BY DEF Gate!TypeOK
<1>1. CASE Gate!Select
  BY <1>1 DEF Gate!Select, Gate!PauseBackgroundWork
<1>2. ASSUME NEW p \in Processors, Gate!Opened(p)
      PROVE  (Gate!NoStrandedPause /\ Gate!ForegroundPauses /\ NewIsOpen)'
  BY <1>2, <1>0 DEF Gate!Opened, Gate!ResumeAfterForeground
<1>3. CASE Gate!LoadFailed
  BY <1>3, <1>0 DEF Gate!LoadFailed, Gate!ResumeAfterForeground
<1>4. CASE Gate!DeliverState
  BY <1>4, <1>0 DEF Gate!DeliverState, Gate!SetEditorProcessingActivity,
     Gate!PauseBackgroundWork, Gate!ResumeAfterForeground
<1>5. CASE Gate!ResumeBackgroundWork
  BY <1>5 DEF Gate!ResumeBackgroundWork
<1>6. CASE UNCHANGED <<Gate!gate, gLoading, open>> /\ (gSetup' = gSetup \/ gSetup \in {"deferred", "waiting"})
  BY <1>6
<1>7. QED
  BY <1>1, <1>2, <1>3, <1>4, <1>5, <1>6 DEF Gate!Next, Gate!Load, Gate!OpenPhaseB,
     Gate!EnableCrop, Gate!Edit, Gate!ProcessorStep, Gate!BeginPass, Gate!TellBegin,
     Gate!EndPass,
     Gate!TellEnd, Gate!vars

\* A pause of the background work has somebody who ends it: the foreground, a
\* processing editor or the timer (setEditorProcessingActivity against loads that
\* fail, photos that are closed and passes that end).
THEOREM GateIsNotStranded == Gate!Spec => []NoStrandedPause
<1>1. Gate!Spec => []GateInv
  BY GateStarts, GateKeepsTypes, GateKeepsFlags, PTL DEF Gate!Spec, GateInv
<1>2. GateInv => NoStrandedPause
  BY DEF GateInv, NoStrandedPause
<1>3. QED
  BY <1>1, <1>2, PTL

-----------------------------------------------------------------------------
(* What Without leaves of a sequence.                                        *)

\* The members of an interval that come before one of them.
LEMMA Before ==
    ASSUME NEW a \in Nat, NEW b \in Nat, NEW i \in a .. b
    PROVE  Cardinality({j \in a .. b : j < i}) = i - a
<1>1. {j \in a .. b : j < i} = a .. (i - 1)
  OBVIOUS
<1>2. a \in Int /\ i - 1 \in Int
  OBVIOUS
<1>3. Cardinality(a .. (i - 1)) = IF a > i - 1 THEN 0 ELSE i - 1 - a + 1
  BY <1>2, FS_Interval
<1>4. Cardinality(a .. (i - 1)) = i - a
  <2>1. CASE i = a
    BY <2>1, <1>3
  <2>2. CASE i # a
    BY <2>2, <1>3
  <2>3. QED
    BY <2>1, <2>2
<1>5. QED
  BY <1>1, <1>4

\* When the places left are an interval, Without is the part of the sequence there.
LEMMA WithoutInterval ==
    ASSUME NEW S, NEW s \in Seq(S), NEW A, NEW a \in Nat \ {0}, NEW b \in Nat,
           b <= Len(s), a <= b + 1, {i \in DOMAIN s : s[i] \notin A} = a .. b
    PROVE  Without(s, A) = SubSeq(s, a, b)
<1> DEFINE I == {i \in DOMAIN s : s[i] \notin A}
           n == b - a + 1
<1>0. Len(s) \in Nat /\ n \in Nat /\ a \in Int /\ b \in Int /\ a \in Nat
  OBVIOUS
<1>1. Cardinality(I) = n
  <2>1. Cardinality(a .. b) = IF a > b THEN 0 ELSE b - a + 1
    BY <1>0, FS_Interval
  <2>2. Cardinality(a .. b) = n
    BY <1>0, <2>1
  <2>3. QED
    BY <2>2
<1>2. ASSUME NEW k \in 1 .. n
      PROVE  (CHOOSE i \in I : Cardinality({j \in I : j < i}) = k - 1) = a + k - 1
  <2>1. a + k - 1 \in I /\ Cardinality({j \in I : j < a + k - 1}) = k - 1
    <3>1. a + k - 1 \in a .. b
      BY <1>0
    <3>2. Cardinality({j \in a .. b : j < a + k - 1}) = a + k - 1 - a
      BY <1>0, <3>1, Before
    <3>3. a + k - 1 - a = k - 1
      BY <1>0
    <3>4. QED
      BY <3>1, <3>2, <3>3
  <2>2. ASSUME NEW i \in I, Cardinality({j \in I : j < i}) = k - 1 PROVE i = a + k - 1
    <3>1. i \in a .. b
      OBVIOUS
    <3>2. Cardinality({j \in a .. b : j < i}) = i - a
      BY <1>0, <3>1, Before
    <3>3. i - a = k - 1
      BY <2>2, <3>2
    <3>4. QED
      BY <1>0, <3>1, <3>3
  <2>3. QED
    BY <2>1, <2>2
<1>3. Without(s, A) =
         [k \in 1 .. n |-> s[CHOOSE i \in I : Cardinality({j \in I : j < i}) = k - 1]]
  BY <1>1 DEF Without, AtPlaces
<1>4. Without(s, A) = [k \in 1 .. n |-> s[a + k - 1]]
  BY <1>2, <1>3
<1>5. SubSeq(s, a, b) = [k \in 1 .. n |-> s[a + k - 1]]
  <2>1. \A i \in a .. b : s[i] \in S
    BY <1>0
  <2>2. /\ SubSeq(s, a, b) \in Seq(S)
        /\ Len(SubSeq(s, a, b)) = n
        /\ \A i \in 1 .. n : SubSeq(s, a, b)[i] = s[a + i - 1]
    BY <1>0, <2>1, SubSeqProperties
  <2>3. QED
    BY <2>2
<1>6. QED
  BY <1>4, <1>5

\* Nothing is left out, the first, or the last.
LEMMA WithoutNone ==
    ASSUME NEW S, NEW s \in Seq(S), NEW A, \A i \in 1 .. Len(s) : s[i] \notin A
    PROVE  Without(s, A) = s
<1>1. Len(s) \in Nat /\ DOMAIN s = 1 .. Len(s)
  OBVIOUS
<1>2. {i \in DOMAIN s : s[i] \notin A} = 1 .. Len(s)
  BY <1>1
<1>3. Without(s, A) = SubSeq(s, 1, Len(s))
  BY <1>1, <1>2, WithoutInterval, SMTT(20), ZenonT(20)
<1>4. QED
  BY <1>3, SubSeqFull

LEMMA WithoutFirst ==
    ASSUME NEW S, NEW s \in Seq(S), NEW A, s # <<>>, s[1] \in A,
           \A i \in 2 .. Len(s) : s[i] \notin A
    PROVE  Without(s, A) = Tail(s)
<1>1. Len(s) \in Nat /\ DOMAIN s = 1 .. Len(s) /\ Len(s) > 0
  OBVIOUS
<1>2. {i \in DOMAIN s : s[i] \notin A} = 2 .. Len(s)
  BY <1>1
<1>3. Without(s, A) = SubSeq(s, 2, Len(s))
  BY <1>1, <1>2, WithoutInterval
<1>4. QED
  BY <1>3, TailIsSubSeq

LEMMA WithoutLast ==
    ASSUME NEW S, NEW s \in Seq(S), NEW A, s # <<>>, s[Len(s)] \in A,
           \A i \in 1 .. Len(s) - 1 : s[i] \notin A
    PROVE  Without(s, A) = Front(s)
<1>1. Len(s) \in Nat /\ DOMAIN s = 1 .. Len(s) /\ Len(s) > 0
  OBVIOUS
<1>2. {i \in DOMAIN s : s[i] \notin A} = 1 .. (Len(s) - 1)
  BY <1>1
<1>3. Len(s) - 1 \in Nat /\ Len(s) - 1 <= Len(s) /\ 1 <= Len(s) - 1 + 1
  BY <1>1
<1>4. Without(s, A) = SubSeq(s, 1, Len(s) - 1)
  BY <1>1, <1>2, <1>3, WithoutInterval
<1>5. QED
  BY <1>4 DEF Front

\* A sequence without its last member.
LEMMA FrontOf ==
    ASSUME NEW S, NEW s \in Seq(S), s # <<>>
    PROVE  /\ Front(s) \in Seq(S) /\ Len(Front(s)) = Len(s) - 1
           /\ \A i \in 1 .. Len(s) - 1 : Front(s)[i] = s[i]
           /\ Last(s) \in S /\ Last(s) = s[Len(s)]
<1>1. Len(s) \in Nat /\ Len(s) > 0 /\ \A i \in 1 .. Len(s) - 1 : s[i] \in S
  OBVIOUS
<1>0. Len(s) - 1 \in Nat
  BY <1>1
<1>2. PICK n \in Nat : n = Len(s) - 1
  BY <1>0, Zenon
<1>3. /\ SubSeq(s, 1, n) \in Seq(S)
      /\ Len(SubSeq(s, 1, n)) = IF 1 <= n THEN n - 1 + 1 ELSE 0
      /\ \A i \in 1 .. n - 1 + 1 : SubSeq(s, 1, n)[i] = s[1 + i - 1]
  BY <1>1, <1>2, SubSeqProperties
<1>4. Len(SubSeq(s, 1, n)) = n /\ \A i \in 1 .. n : SubSeq(s, 1, n)[i] = s[i]
  BY <1>3
<1>5. Front(s) = SubSeq(s, 1, n)
  BY <1>2 DEF Front
<1>6. QED
  BY <1>1, <1>2, <1>3, <1>4, <1>5 DEF Last

-----------------------------------------------------------------------------
(* The loads in their line.                                                  *)

\* How many loads the thread has in hand, and how many wait for a timer.
InHand == IF worker.at \in {"decoding", "done"} THEN 1 ELSE 0
Waiting == IF delayed = {} THEN 0 ELSE 1

\* pendingLoads is the order in which the loads pass: those that have ended, the
\* one in hand, those in the queue, and the one that waits for its timer.
LoadsInLine ==
    /\ Len(pending) = Len(ended) + InHand + Len(queue) + Waiting
    /\ \A i \in 1 .. Len(ended) : pending[i] = ended[i].slot
    /\ InHand = 1 => pending[Len(ended) + 1] = worker.slot
    /\ \A i \in 1 .. Len(queue) : pending[Len(ended) + InHand + i] = queue[i]
    /\ delayed # {} => delayed = {pending[Len(pending)]}

\* All loads but the newest are superseded; it is for the photo accepted last.
NewestIsAccepted ==
    /\ skipped \subseteq superseded /\ superseded \cup asked \subseteq Elements(pending)
    /\ delayed \cap superseded = {}
    /\ \A i \in 1 .. Len(pending) :
          /\ photo[pending[i]] \in Photos
          /\ i < Len(pending) => pending[i] \in superseded
          /\ pending[i] \notin superseded => photo[pending[i]] = accepted

\* Sequences that are used all the time.
LEMMA Lengths ==
    ASSUME TypeOK
    PROVE  /\ Len(pending) \in Nat /\ DOMAIN pending = 1 .. Len(pending)
           /\ Len(ended) \in Nat /\ DOMAIN ended = 1 .. Len(ended)
           /\ Len(queue) \in Nat /\ DOMAIN queue = 1 .. Len(queue)
           /\ Len(dialogs) \in Nat /\ DOMAIN dialogs = 1 .. Len(dialogs)
           /\ InHand \in {0, 1} /\ Waiting \in {0, 1}
           /\ \A i \in 1 .. Len(pending) : pending[i] \in Slots
           /\ \A i, j \in 1 .. Len(pending) : pending[i] = pending[j] => i = j
           /\ Elements(pending) = {pending[i] : i \in 1 .. Len(pending)}
<1>1. /\ pending \in Seq(Slots) /\ queue \in Seq(Slots) /\ dialogs \in Seq(Slots)
      /\ ended \in Seq([slot : Slots, image : BOOLEAN]) /\ IsInjective(pending)
  BY DEF TypeOK
<1>2. InHand \in {0, 1} /\ Waiting \in {0, 1}
  BY DEF InHand, Waiting
<1>3. /\ Len(pending) \in Nat /\ DOMAIN pending = 1 .. Len(pending)
      /\ Len(ended) \in Nat /\ DOMAIN ended = 1 .. Len(ended)
      /\ Len(queue) \in Nat /\ DOMAIN queue = 1 .. Len(queue)
      /\ Len(dialogs) \in Nat /\ DOMAIN dialogs = 1 .. Len(dialogs)
  BY <1>1, LenProperties
<1>4. \A i \in 1 .. Len(pending) : pending[i] \in Slots
  BY <1>1, ElementOfSeq
<1>5. QED
  BY <1>1, <1>2, <1>3, <1>4 DEF IsInjective, Elements

\* supersedePendingSingleEditorLoads() takes the load that waits for its timer
\* out of the list, if there is one, and marks all that stay.
LEMMA Remains ==
    ASSUME TypeOK, LoadsInLine, NewestIsAccepted
    PROVE  /\ Unstarted = delayed
           /\ Remaining \in Seq(Slots)
           /\ Len(Remaining) = Len(ended) + InHand + Len(queue)
           /\ Len(Remaining) <= Len(pending)
           /\ \A i \in 1 .. Len(Remaining) :
                 Remaining[i] = pending[i] /\ pending[i] \notin delayed
           /\ Superseded = Elements(Remaining)
           /\ Elements(Remaining) = Elements(pending) \ delayed
<1> USE Lengths DEF Elements
<1>1. Unstarted = delayed
  BY DEF Unstarted, Current, TypeOK, NewestIsAccepted
<1>2. superseded \cup Current = Elements(pending)
  BY DEF Current, NewestIsAccepted
<1>3. pending \in Seq(Slots)
  BY DEF TypeOK
<1>4. CASE delayed = {}
  <2>1. Remaining = pending
    BY <1>1, <1>3, <1>4, WithoutNone DEF Remaining
  <2>2. Waiting = 0
    BY <1>4 DEF Waiting
  <2>3. QED
    BY <1>1, <1>2, <1>3, <1>4, <2>1, <2>2 DEF Superseded, LoadsInLine
<1>5. CASE delayed # {}
  <2>1. Waiting = 1
    BY <1>5 DEF Waiting
  <2>2. Len(pending) = Len(ended) + InHand + Len(queue) + 1 /\ delayed = {pending[Len(pending)]}
    BY <1>5, <2>1 DEF LoadsInLine
  <2>3. pending # <<>> /\ pending[Len(pending)] \in delayed
    BY <2>2
  <2>4. \A i \in 1 .. Len(pending) - 1 : pending[i] \notin delayed
    BY <2>2, SMTT(20), ZenonT(20)
  <2>5. Remaining = Front(pending)
    BY <1>1, <1>3, <2>3, <2>4, WithoutLast DEF Remaining
  <2>6. /\ Remaining \in Seq(Slots) /\ Len(Remaining) = Len(pending) - 1
        /\ \A i \in 1 .. Len(pending) - 1 : Remaining[i] = pending[i]
    BY <1>3, <2>3, <2>5, FrontOf
  <2>7. Elements(Remaining) = Elements(pending) \ delayed
    <3>1. DOMAIN Remaining = 1 .. Len(pending) - 1
      BY <2>6
    <3>2. ASSUME NEW s \in Elements(pending), s \notin delayed PROVE s \in Elements(Remaining)
      <4>1. PICK i \in 1 .. Len(pending) : s = pending[i]
        OBVIOUS
      <4>2. i \in 1 .. Len(pending) - 1
        BY <2>2, <3>2, <4>1
      <4>3. QED
        BY <2>6, <3>1, <4>1, <4>2
    <3>3. ASSUME NEW s \in Elements(Remaining)
          PROVE  s \in Elements(pending) /\ s \notin delayed
      <4>1. PICK i \in 1 .. Len(pending) - 1 : s = Remaining[i]
        BY <3>1
      <4>2. s = pending[i] /\ i \in 1 .. Len(pending)
        BY <2>6, <4>1
      <4>3. QED
        BY <2>4, <4>1, <4>2
    <3>4. QED
      BY <3>2, <3>3
  <2>8. Superseded = Elements(Remaining)
    <3> HIDE DEF Elements
    <3>1. QED
      BY <1>1, <1>2, <2>7 DEF Superseded
  <2>9. Len(Remaining) = Len(ended) + InHand + Len(queue) /\ Len(Remaining) <= Len(pending)
    BY <2>2, <2>6
  <2>10. \A i \in 1 .. Len(Remaining) : Remaining[i] = pending[i] /\ pending[i] \notin delayed
    BY <2>4, <2>6
  <2>11. QED
    BY <1>1, <2>6, <2>7, <2>8, <2>9, <2>10
<1>6. QED
  BY <1>4, <1>5

-----------------------------------------------------------------------------
(* The references of the thumbnails.                                         *)

\* What the slots and the editor need of photo p, and one more of photo x.
Holders(f, p) == {s \in Slots : f[s] = p}
Needs(f, e, x, p) ==
    Cardinality(Holders(f, p)) + (IF e = p THEN 1 ELSE 0) + (IF x = p THEN 1 ELSE 0)

\* The references r are enough for that, or are not followed any further.
Enough(f, e, x, r) ==
    /\ r \in [Photos -> 0 .. MaxRefs]
    /\ \A p \in Photos : r[p] = MaxRefs \/ r[p] >= Needs(f, e, x, p)

Shots == [Slots -> Photos \cup {None}]

LEMMA CountsHolders ==
    ASSUME NEW f, NEW p
    PROVE  IsFiniteSet(Holders(f, p)) /\ Cardinality(Holders(f, p)) \in Nat
<1>1. IsFiniteSet(Slots)
  BY PhotosAssumption
<1>2. Holders(f, p) \in SUBSET Slots
  BY DEF Holders
<1>3. QED
  BY <1>1, <1>2, FS_Subset, FS_CardinalityType

LEMMA CountsNeeds == ASSUME NEW f, NEW e, NEW x, NEW p PROVE Needs(f, e, x, p) \in Nat
BY CountsHolders DEF Needs

\* A slot that is emptied leaves one holder less, one that is filled one more.
LEMMA HoldersEmptied ==
    ASSUME NEW f \in Shots, NEW s \in Slots, f[s] \in Photos, NEW p \in Photos
    PROVE  Cardinality(Holders([f EXCEPT ![s] = None], p)) =
              IF f[s] = p THEN Cardinality(Holders(f, p)) - 1 ELSE Cardinality(Holders(f, p))
<1>1. Holders([f EXCEPT ![s] = None], p) = Holders(f, p) \ {s}
  BY PhotosAssumption DEF Holders, Shots
<1>2. s \in Holders(f, p) <=> f[s] = p
  BY DEF Holders
<1>3. QED
  BY <1>1, <1>2, CountsHolders, FS_RemoveElement

LEMMA HoldersFilled ==
    ASSUME NEW f \in Shots, NEW s \in Slots, f[s] = None, NEW q \in Photos, NEW p \in Photos
    PROVE  Cardinality(Holders([f EXCEPT ![s] = q], p)) =
              IF q = p THEN Cardinality(Holders(f, p)) + 1 ELSE Cardinality(Holders(f, p))
<1>1. s \notin Holders(f, p)
  BY PhotosAssumption DEF Holders
<1>2. CASE q = p
  <2>1. Holders([f EXCEPT ![s] = q], p) = Holders(f, p) \cup {s}
    BY <1>2 DEF Holders, Shots
  <2>2. QED
    BY <1>1, <1>2, <2>1, CountsHolders, FS_AddElement
<1>3. CASE q # p
  <2>1. Holders([f EXCEPT ![s] = q], p) = Holders(f, p)
    BY <1>1, <1>3 DEF Holders, Shots
  <2>2. QED
    BY <1>3, <2>1
<1>4. QED
  BY <1>2, <1>3

\* What taking and dropping a reference make of the counts.
LEMMA Taken ==
    ASSUME NEW r \in [Photos -> 0 .. MaxRefs], NEW q \in Photos
    PROVE  /\ Take(r, q, 1) \in [Photos -> 0 .. MaxRefs]
           /\ \A p \in Photos : p # q => Take(r, q, 1)[p] = r[p]
           /\ Take(r, q, 1)[q] = MaxRefs \/ Take(r, q, 1)[q] = r[q] + 1
BY BoundsAssumption DEF Take

LEMMA Dropped ==
    ASSUME NEW r \in [Photos -> 0 .. MaxRefs], NEW q \in Photos,
           r[q] = MaxRefs \/ r[q] >= 1
    PROVE  /\ Drop(r, q, 1) \in [Photos -> 0 .. MaxRefs]
           /\ \A p \in Photos : p # q => Drop(r, q, 1)[p] = r[p]
           /\ IF r[q] = MaxRefs THEN Drop(r, q, 1)[q] = MaxRefs
                                ELSE Drop(r, q, 1)[q] = r[q] - 1
BY BoundsAssumption DEF Drop

\* One reference is taken for later.
LEMMA EnoughTaken ==
    ASSUME NEW f, NEW e, NEW r, NEW q \in Photos, Enough(f, e, None, r)
    PROVE  Enough(f, e, q, Take(r, q, 1))
<1>1. r \in [Photos -> 0 .. MaxRefs]
  BY DEF Enough
<1>2. ASSUME NEW p \in Photos
      PROVE  Take(r, q, 1)[p] = MaxRefs \/ Take(r, q, 1)[p] >= Needs(f, e, q, p)
  <2>1. r[p] = MaxRefs \/ r[p] >= Needs(f, e, None, p)
    BY DEF Enough
  <2>2. Needs(f, e, q, p) = Needs(f, e, None, p) + (IF q = p THEN 1 ELSE 0)
    BY PhotosAssumption, CountsHolders DEF Needs
  <2>3. Needs(f, e, None, p) \in Nat /\ MaxRefs \in Nat /\ r[p] \in 0 .. MaxRefs
    BY <1>1, CountsNeeds, BoundsAssumption
  <2>4. CASE p = q
    <3>1. Needs(f, e, q, p) = Needs(f, e, None, p) + 1
      BY <2>2, <2>4
    <3>2. Take(r, q, 1)[p] = MaxRefs \/ (r[p] # MaxRefs /\ Take(r, q, 1)[p] = r[p] + 1)
      BY <1>1, <2>3, <2>4, Taken
    <3>3. QED
      BY <2>1, <2>3, <3>1, <3>2
  <2>5. CASE p # q
    <3>1. Needs(f, e, q, p) = Needs(f, e, None, p)
      BY <2>2, <2>3, <2>5
    <3>2. QED
      BY <1>1, <2>1, <2>5, <3>1, Taken
  <2>6. QED
    BY <2>4, <2>5
<1>3. QED
  BY <1>1, <1>2, Taken DEF Enough

\* The one that is left over is not needed, or is for an empty slot, or for the
\* editor, which releases its own.
LEMMA EnoughLeft ==
    ASSUME NEW f, NEW e, NEW r, NEW q \in Photos, Enough(f, e, q, r)
    PROVE  Enough(f, e, None, r)
<1>1. ASSUME NEW p \in Photos PROVE Needs(f, e, q, p) >= Needs(f, e, None, p)
  BY PhotosAssumption, CountsHolders DEF Needs
<1>2. ASSUME NEW p \in Photos PROVE r[p] = MaxRefs \/ r[p] >= Needs(f, e, None, p)
  <2>1. r[p] = MaxRefs \/ r[p] >= Needs(f, e, q, p)
    BY DEF Enough
  <2>2. r[p] \in 0 .. MaxRefs /\ MaxRefs \in Nat
    BY BoundsAssumption DEF Enough
  <2>3. QED
    BY <1>1, <2>1, <2>2, CountsNeeds
<1>3. QED
  BY <1>2 DEF Enough

LEMMA EnoughFilled ==
    ASSUME NEW f \in Shots, NEW e, NEW r, NEW q \in Photos, Enough(f, e, q, r),
           NEW s \in Slots, f[s] = None
    PROVE  Enough([f EXCEPT ![s] = q], e, None, r)
<1>1. ASSUME NEW p \in Photos
      PROVE  Needs([f EXCEPT ![s] = q], e, None, p) = Needs(f, e, q, p)
  BY PhotosAssumption, CountsHolders, HoldersFilled DEF Needs
<1>2. QED
  BY <1>1 DEF Enough

LEMMA EnoughOpened ==
    ASSUME NEW f, NEW e \in Photos \cup {None}, NEW r, NEW q \in Photos, Enough(f, e, q, r)
    PROVE  Enough(f, q, None, IF e = None THEN r ELSE Drop(r, e, 1))
<1>0. MaxRefs \in Nat /\ r \in [Photos -> 0 .. MaxRefs]
  BY BoundsAssumption DEF Enough
<1>1. CASE e = None
  <2>1. ASSUME NEW p \in Photos PROVE Needs(f, q, None, p) = Needs(f, e, q, p)
    BY <1>1, PhotosAssumption, CountsHolders DEF Needs
  <2>2. QED
    BY <1>1, <2>1 DEF Enough
<1>2. CASE e # None
  <2>1. ASSUME NEW p \in Photos
        PROVE  Needs(f, e, q, p) = Needs(f, q, None, p) + (IF e = p THEN 1 ELSE 0)
    BY PhotosAssumption, CountsHolders DEF Needs
  <2>2. e \in Photos
    BY <1>2
  <2>3. r[e] = MaxRefs \/ r[e] >= 1
    <3>1. Needs(f, e, q, e) = Needs(f, q, None, e) + 1
      BY <2>1, <2>2
    <3>2. r[e] = MaxRefs \/ r[e] >= Needs(f, e, q, e)
      BY <2>2 DEF Enough
    <3>3. QED
      BY <1>0, <2>2, <3>1, <3>2, CountsNeeds
  <2>4. ASSUME NEW p \in Photos
        PROVE  Drop(r, e, 1)[p] = MaxRefs \/ Drop(r, e, 1)[p] >= Needs(f, q, None, p)
    <3>1. r[p] = MaxRefs \/ r[p] >= Needs(f, e, q, p)
      BY DEF Enough
    <3>2. r[p] \in 0 .. MaxRefs /\ Needs(f, q, None, p) \in Nat
      BY <1>0, CountsNeeds
    <3>3. CASE p = e
      <4>1. Needs(f, e, q, p) = Needs(f, q, None, p) + 1
        BY <2>1, <3>3
      <4>2. IF r[p] = MaxRefs THEN Drop(r, e, 1)[p] = MaxRefs
                              ELSE Drop(r, e, 1)[p] = r[p] - 1
        BY <1>0, <2>2, <2>3, <3>3, Dropped
      <4>3. QED
        BY <1>0, <3>1, <3>2, <4>1, <4>2
    <3>4. CASE p # e
      <4>1. Needs(f, e, q, p) = Needs(f, q, None, p)
        BY <2>1, <3>2, <3>4
      <4>2. QED
        BY <1>0, <2>2, <2>3, <3>1, <3>4, <4>1, Dropped
    <3>5. QED
      BY <3>3, <3>4
  <2>5. QED
    BY <1>0, <1>2, <2>2, <2>3, <2>4, Dropped DEF Enough
<1>3. QED
  BY <1>1, <1>2

\* A slot is emptied: its reference is kept for later, or released.
LEMMA EnoughKept ==
    ASSUME NEW f \in Shots, NEW e, NEW r, Enough(f, e, None, r),
           NEW s \in Slots, f[s] \in Photos
    PROVE  Enough([f EXCEPT ![s] = None], e, f[s], r)
<1>1. ASSUME NEW p \in Photos
      PROVE  Needs([f EXCEPT ![s] = None], e, f[s], p) = Needs(f, e, None, p)
  BY PhotosAssumption, CountsHolders, HoldersEmptied DEF Needs
<1>2. QED
  BY <1>1 DEF Enough

LEMMA EnoughReleased ==
    ASSUME NEW f \in Shots, NEW e, NEW x, NEW r, Enough(f, e, x, r),
           NEW s \in Slots, f[s] \in Photos
    PROVE  Enough([f EXCEPT ![s] = None], e, x, Drop(r, f[s], 1))
<1> DEFINE q == f[s]
           g == [f EXCEPT ![s] = None]
<1>0. MaxRefs \in Nat /\ r \in [Photos -> 0 .. MaxRefs] /\ q \in Photos
  BY BoundsAssumption DEF Enough
<1>1. ASSUME NEW p \in Photos
      PROVE  Needs(f, e, x, p) = Needs(g, e, x, p) + (IF q = p THEN 1 ELSE 0)
  BY CountsHolders, HoldersEmptied DEF Needs
<1>2. r[q] = MaxRefs \/ r[q] >= 1
  <2>1. Needs(f, e, x, q) = Needs(g, e, x, q) + 1
    BY <1>0, <1>1
  <2>2. r[q] = MaxRefs \/ r[q] >= Needs(f, e, x, q)
    BY <1>0 DEF Enough
  <2> HIDE DEF q, g
  <2>3. QED
    BY <1>0, <2>1, <2>2, CountsNeeds
<1>3. ASSUME NEW p \in Photos
      PROVE  Drop(r, q, 1)[p] = MaxRefs \/ Drop(r, q, 1)[p] >= Needs(g, e, x, p)
  <2>1. r[p] = MaxRefs \/ r[p] >= Needs(f, e, x, p)
    BY DEF Enough
  <2> HIDE DEF q, g
  <2>2. r[p] \in 0 .. MaxRefs /\ Needs(g, e, x, p) \in Nat
    BY <1>0, CountsNeeds
  <2>3. CASE p = q
    <3>1. Needs(f, e, x, p) = Needs(g, e, x, p) + 1
      BY <1>1, <2>3
    <3>2. IF r[p] = MaxRefs THEN Drop(r, q, 1)[p] = MaxRefs
                            ELSE Drop(r, q, 1)[p] = r[p] - 1
      BY <1>0, <1>2, <2>3, Dropped
    <3>3. QED
      BY <1>0, <2>1, <2>2, <3>1, <3>2
  <2>4. CASE p # q
    <3>1. Needs(f, e, x, p) = Needs(g, e, x, p)
      BY <1>1, <2>2, <2>4
    <3>2. QED
      BY <1>0, <1>2, <2>1, <2>4, <3>1, Dropped
  <2>5. QED
    BY <2>3, <2>4
<1>4. QED
  BY <1>0, <1>2, <1>3, Dropped DEF Enough

\* A slot is emptied and its reference is kept without a reason.
LEMMA EnoughForgotten ==
    ASSUME NEW f \in Shots, NEW e, NEW r, Enough(f, e, None, r),
           NEW s \in Slots, f[s] \in Photos
    PROVE  Enough([f EXCEPT ![s] = None], e, None, r)
BY EnoughKept, EnoughLeft

-----------------------------------------------------------------------------
(* The invariant.                                                            *)

\* The slots of the dialogs are no longer in the list, and each has one dialog.
DialogsHold ==
    /\ \A i \in DOMAIN dialogs :
          photo[dialogs[i]] \in Photos /\ dialogs[i] \notin Elements(pending)
    /\ IsInjective(dialogs)

\* A watchdog or a cover on its way was caused by a click.
SomeWanted == attempts # None \/ asked # {} => wanted \in Photos

LoadsInv == TypeOK /\ LoadsInLine /\ NewestIsAccepted /\ DialogsHold /\ SomeWanted

OpeningInv == LoadsInv /\ HeldWhileNeeded /\ MarkIsCleared /\ PauseHasAReason

\* Nothing is pending at first.
LEMMA OpeningStarts == ASSUME Init PROVE OpeningInv
<1> USE DEF Init
<1>1. /\ pending = <<>> /\ queue = <<>> /\ ended = <<>> /\ dialogs = <<>>
      /\ Len(<<>>) = 0 /\ DOMAIN <<>> = 1 .. 0 /\ Elements(<<>>) = {}
      /\ IsInjective(<<>>)
  BY DEF Elements, IsInjective
<1>2. LoadsInLine
  BY <1>1 DEF LoadsInLine, InHand, Waiting, Idle
<1>3. NewestIsAccepted /\ DialogsHold /\ SomeWanted
  BY <1>1 DEF NewestIsAccepted, DialogsHold, SomeWanted
<1>4. MarkIsCleared /\ PauseHasAReason
  BY DEF MarkIsCleared, PauseHasAReason
<1>5. HeldWhileNeeded
  <2>1. ASSUME NEW p \in Photos PROVE Cardinality(Holders(photo, p)) = 0
    <3>1. Holders(photo, p) = {}
      BY PhotosAssumption DEF Holders
    <3>2. QED
      BY <3>1, FS_EmptySet
  <2>2. \A p \in Photos : editor # p
    BY PhotosAssumption
  <2>3. \A p \in Photos : refs[p] = 0
    OBVIOUS
  <2> HIDE DEF Init
  <2>4. QED
    BY <2>1, <2>2, <2>3 DEF HeldWhileNeeded, Holders
<1>6. TypeOK
  <2>1. pending \in Seq(Slots) /\ queue \in Seq(Slots) /\ dialogs \in Seq(Slots)
    BY <1>1
  <2>2. ended \in Seq([slot : Slots, image : BOOLEAN])
    BY <1>1
  <2>3. refs \in [Photos -> 0 .. MaxRefs] /\ clicks \in 0 .. MaxClicks
    BY BoundsAssumption
  <2>4. photo \in [Slots -> Photos \cup {None}]
    OBVIOUS
  <2>5. QED
    BY <1>1, <2>1, <2>2, <2>3, <2>4 DEF TypeOK, Idle
<1>7. QED
  BY <1>2, <1>3, <1>4, <1>5, <1>6 DEF OpeningInv, LoadsInv

\* HeldWhileNeeded says that the references are enough.
LEMMA NeededIsNeeds ==
    ASSUME NEW f, NEW e, NEW p \in Photos
    PROVE  /\ Needs(f, e, None, p) =
                 Cardinality({s \in Slots : f[s] = p}) + (IF e = p THEN 1 ELSE 0)
           /\ Cardinality({s \in Slots : f[s] = p}) \in Nat
<1>1. None # p
  BY PhotosAssumption
<1>2. Holders(f, p) = {s \in Slots : f[s] = p}
  BY DEF Holders
<1>3. Cardinality(Holders(f, p)) \in Nat
  BY CountsHolders
<1>4. Needs(f, e, None, p) = Cardinality(Holders(f, p)) + (IF e = p THEN 1 ELSE 0)
  BY <1>1, <1>3 DEF Needs
<1>5. QED
  BY <1>2, <1>3, <1>4

LEMMA HeldIsEnough ==
    ASSUME TypeOK, HeldWhileNeeded PROVE Enough(photo, editor, None, refs)
<1>1. refs \in [Photos -> 0 .. MaxRefs]
  BY DEF TypeOK
<1>2. ASSUME NEW p \in Photos
      PROVE  refs[p] = MaxRefs \/ refs[p] >= Needs(photo, editor, None, p)
  <2>1. Needs(photo, editor, None, p) =
           Cardinality({s \in Slots : photo[s] = p}) + (IF editor = p THEN 1 ELSE 0)
    BY NeededIsNeeds
  <2>2. refs[p] = MaxRefs \/ refs[p] >=
           Cardinality({s \in Slots : photo[s] = p}) + (IF editor = p THEN 1 ELSE 0)
    BY DEF HeldWhileNeeded
  <2>3. QED
    BY <2>1, <2>2
<1>3. QED
  BY <1>1, <1>2 DEF Enough

\* So it does after a step, the other way round.
LEMMA EnoughIsHeldNext ==
    ASSUME Enough(photo', editor', None, refs') PROVE HeldWhileNeeded'
<1>1. ASSUME NEW p \in Photos
      PROVE  refs'[p] = MaxRefs \/ refs'[p] >= Needs(photo', editor', None, p)
  BY DEF Enough
<1>2. ASSUME NEW p \in Photos
      PROVE  Needs(photo', editor', None, p) =
                Cardinality({s \in Slots : photo'[s] = p}) + (IF editor' = p THEN 1 ELSE 0)
  BY NeededIsNeeds
<1>3. QED
  BY <1>1, <1>2 DEF HeldWhileNeeded

-----------------------------------------------------------------------------
(* fileSelected().                                                           *)

\* The photos of the loads that stay, and their references.
LEMMA PhotosRemain ==
    ASSUME LoadsInv
    PROVE  /\ PhotosRemaining \in Shots
           /\ \A s \in Slots : PhotosRemaining[s] = IF s \in delayed THEN None ELSE photo[s]
           /\ \/ delayed = {} /\ PhotosRemaining = photo
              \/ \E d \in Slots : /\ delayed = {d} /\ photo[d] \in Photos
                                 /\ PhotosRemaining = [photo EXCEPT ![d] = None]
<1>1. photo \in [Slots -> Photos \cup {None}] /\ Unstarted = delayed
  BY Remains DEF LoadsInv, TypeOK
<1>2. PhotosRemaining = [s \in Slots |-> IF s \in delayed THEN None ELSE photo[s]]
  BY <1>1 DEF PhotosRemaining
<1>3. CASE delayed = {}
  BY <1>1, <1>2, <1>3 DEF Shots
<1>4. CASE delayed # {}
  <2>1. Len(pending) > 0 /\ delayed = {pending[Len(pending)]}
    <3>1. Waiting = 1
      BY <1>4 DEF Waiting
    <3>2. QED
      BY <1>4, <3>1, Lengths DEF LoadsInv, LoadsInLine
  <2>2. pending[Len(pending)] \in Slots /\ photo[pending[Len(pending)]] \in Photos
    BY <2>1, Lengths DEF LoadsInv, NewestIsAccepted
  <2>3. PhotosRemaining = [photo EXCEPT ![pending[Len(pending)]] = None]
    BY <1>1, <1>2, <2>1, <2>2
  <2>4. QED
    BY <1>1, <1>2, <2>1, <2>2, <2>3 DEF Shots
<1>5. QED
  BY <1>3, <1>4

LEMMA RefsRemain ==
    ASSUME LoadsInv, NEW x \in Photos, NEW r, Enough(photo, editor, x, r)
    PROVE  Enough(PhotosRemaining, editor, x, RefsRemaining(r))
<1>1. Unstarted = delayed /\ photo \in Shots /\ r \in [Photos -> 0 .. MaxRefs]
  BY Remains DEF LoadsInv, TypeOK, Shots, Enough
<1>2. CASE delayed = {} /\ PhotosRemaining = photo
  <2>1. RefsRemaining(r) = r
    BY <1>1, <1>2 DEF RefsRemaining
  <2>2. QED
    BY <1>2, <2>1
<1>3. ASSUME NEW d \in Slots, delayed = {d}, photo[d] \in Photos,
             PhotosRemaining = [photo EXCEPT ![d] = None]
      PROVE  Enough(PhotosRemaining, editor, x, RefsRemaining(r))
  <2>1. RefsRemaining(r) = [p \in Photos |-> IF photo[d] = p THEN Drop(r, p, 1)[p] ELSE r[p]]
    BY <1>1, <1>3 DEF RefsRemaining
  <2>2. RefsRemaining(r) = Drop(r, photo[d], 1)
    BY <1>1, <1>3, <2>1 DEF Drop
  <2>3. QED
    BY <1>1, <1>3, <2>2, EnoughReleased
<1>4. QED
  BY <1>2, <1>3, PhotosRemain

\* A dialog's photo does not change with them.
LEMMA DialogsRemain ==
    ASSUME LoadsInv
    PROVE  \A i \in DOMAIN dialogs :
              /\ dialogs[i] \in Slots /\ dialogs[i] \notin Elements(Remaining)
              /\ PhotosRemaining[dialogs[i]] = photo[dialogs[i]]
<1>1. dialogs \in Seq(Slots)
  BY DEF LoadsInv, TypeOK
<1>2. \A i \in DOMAIN dialogs : dialogs[i] \in Slots
  BY <1>1
<1>3. \A i \in DOMAIN dialogs : dialogs[i] \notin Elements(pending)
  BY DEF LoadsInv, DialogsHold
<1>4. delayed \subseteq Elements(pending) /\ Elements(Remaining) \subseteq Elements(pending)
  <2>1. delayed \subseteq Current
    BY DEF LoadsInv, TypeOK
  <2>2. QED
    BY <2>1, Remains DEF LoadsInv, Current
<1>5. QED
  BY <1>2, <1>3, <1>4, PhotosRemain

\* The covers keep their types.
ScreenOK ==
    /\ setup \in {"none", "deferred", "waiting", "enabled", "painted", "cancelled"}
    /\ attached \in BOOLEAN /\ cover \in BOOLEAN
    /\ coverOf \in Photos \cup {None}
    /\ attempts \in 0 .. 3 \cup {None}

LEMMA QuickPreviewTypes ==
    ASSUME ScreenOK, NEW p \in Photos, NEW shown \in BOOLEAN, NEW n \in 0 .. 3 \cup {None},
           SetQuickPreview(p, shown, n)
    PROVE  ScreenOK'
<1>1. CASE p = editor
  BY <1>1 DEF SetQuickPreview, ScreenOK
<1>2. CASE p # editor
  <2>1. /\ setup' = IF setup \in {"deferred", "waiting"} THEN "cancelled" ELSE setup
        /\ attached' = FALSE
        /\ cover' = (cover \/ shown)
        /\ coverOf' = IF shown THEN p ELSE coverOf
        /\ attempts' = IF shown THEN 0 ELSE n
    BY <1>2 DEF SetQuickPreview
  <2>2. cover' \in BOOLEAN
    BY <2>1
  <2>3. coverOf' \in Photos \cup {None} /\ attempts' \in 0 .. 3 \cup {None}
    BY <2>1 DEF ScreenOK
  <2>4. /\ setup' \in {"none", "deferred", "waiting", "enabled", "painted", "cancelled"}
        /\ attached' \in BOOLEAN
    BY <2>1 DEF ScreenOK
  <2>5. QED
    BY <2>2, <2>3, <2>4 DEF ScreenOK
<1>3. QED
  BY <1>1, <1>2

LEMMA ShownIs == Shown \subseteq BOOLEAN
BY DEF Shown

\* A photo decoded ahead opens, with the reference taken for it.
LEMMA CachedStep ==
    ASSUME OpeningInv, NEW p \in Photos, NEW r, Enough(photo, editor, p, r),
           OpenCached(p, r), accepted' = p, wanted' \in Photos, UNCHANGED dialogs,
           clicks' \in 0 .. MaxClicks
    PROVE  OpeningInv'
<1> USE DEF OpeningInv, LoadsInv
<1>1. /\ superseded' = Superseded /\ delayed' = delayed \ Unstarted /\ pending' = Remaining
      /\ photo' = PhotosRemaining /\ asked' = asked \ Current
      /\ loading' = LoadingRemaining(loading) /\ paused' = (Remaining # <<>>)
      /\ UNCHANGED <<skipped, queue, worker, ended>>
  BY DEF OpenCached, thread
<1>2. /\ editor' = p
      /\ refs' = IF editor = None THEN RefsRemaining(r) ELSE Drop(RefsRemaining(r), editor, 1)
      /\ setup' = "deferred" /\ attached' = TRUE /\ cover' = TRUE /\ coverOf' = None
      /\ attempts' = None
  BY DEF OpenCached, OpenInEditor
<1>3. /\ delayed' = {} /\ superseded' = Elements(Remaining) /\ Remaining \in Seq(Slots)
      /\ Len(Remaining) = Len(ended) + InHand + Len(queue)
      /\ Len(Remaining) <= Len(pending)
      /\ \A i \in 1 .. Len(Remaining) :
            Remaining[i] = pending[i] /\ pending[i] \notin delayed
      /\ Elements(Remaining) = Elements(pending) \ delayed
  BY <1>1, Remains
<1>4. Len(Remaining) \in Nat /\ DOMAIN Remaining = 1 .. Len(Remaining)
  BY <1>3, LenProperties
<1>5. \A i \in 1 .. Len(Remaining) : i \in 1 .. Len(pending) /\ Remaining[i] \in Elements(Remaining)
  BY <1>3, <1>4, Lengths DEF Elements
<1>6. \A i \in 1 .. Len(Remaining) : photo'[Remaining[i]] \in Photos
  <2>1. \A i \in 1 .. Len(pending) : photo[pending[i]] \in Photos /\ pending[i] \in Slots
    BY Lengths DEF NewestIsAccepted
  <2>2. QED
    BY <1>1, <1>3, <1>5, <2>1, PhotosRemain
<1>7. LoadsInLine'
  <2>1. InHand' = InHand /\ Waiting' = 0
    BY <1>1, <1>3 DEF InHand, Waiting
  <2>2. LoadsInLine /\ Len(ended) \in Nat /\ Len(queue) \in Nat /\ InHand \in {0, 1}
    BY Lengths
  <2>3. /\ \A i \in 1 .. Len(ended) : Remaining[i] = ended[i].slot
        /\ InHand = 1 => Remaining[Len(ended) + 1] = worker.slot
        /\ \A i \in 1 .. Len(queue) : Remaining[Len(ended) + InHand + i] = queue[i]
    <3>1. \A i \in 1 .. Len(ended) : i \in 1 .. Len(Remaining)
      BY <1>3, <2>2
    <3>2. InHand = 1 => Len(ended) + 1 \in 1 .. Len(Remaining)
      BY <1>3, <2>2
    <3>3. \A i \in 1 .. Len(queue) : Len(ended) + InHand + i \in 1 .. Len(Remaining)
      BY <1>3, <2>2
    <3>4. \A i \in 1 .. Len(Remaining) : Remaining[i] = pending[i]
      BY <1>3
    <3> HIDE DEF LoadsInv, OpeningInv
    <3>5. QED
      BY <2>2, <3>1, <3>2, <3>3, <3>4 DEF LoadsInLine
  <2>4. QED
    BY <1>1, <1>3, <2>1, <2>2, <2>3 DEF LoadsInLine
<1>8. NewestIsAccepted'
  <2>1. skipped' \subseteq superseded'
    <3>1. superseded \subseteq Superseded
      BY Remains DEF Superseded, NewestIsAccepted
    <3>2. QED
      BY <1>1, <3>1 DEF NewestIsAccepted
  <2>2. asked' \subseteq Elements(pending')
    <3>1. asked \ Current \subseteq superseded
      BY DEF NewestIsAccepted, Current
    <3>2. superseded \subseteq Elements(pending) \ delayed
      BY DEF NewestIsAccepted
    <3>3. QED
      BY <1>1, <1>3, <3>1, <3>2
  <2>3. QED
    BY <1>1, <1>3, <1>5, <1>6, <2>1, <2>2 DEF NewestIsAccepted
<1>9. DialogsHold'
  <2>1. DialogsHold
    OBVIOUS
  <2>2. QED
    BY <1>1, <2>1, DialogsRemain DEF DialogsHold
<1>10. SomeWanted'
  BY DEF SomeWanted
<1>11. Enough(photo', editor', None, refs')
  <2>1. Enough(PhotosRemaining, editor, p, RefsRemaining(r))
    BY RefsRemain
  <2>2. editor \in Photos \cup {None}
    BY DEF TypeOK
  <2>3. Enough(PhotosRemaining, p, None, IF editor = None THEN RefsRemaining(r)
                                         ELSE Drop(RefsRemaining(r), editor, 1))
    BY <2>1, <2>2, EnoughOpened
  <2>4. QED
    BY <1>1, <1>2, <2>3
<1>12. MarkIsCleared'
  <2>1. ASSUME NEW q \in loading' PROVE \E s \in (Current \cup Elements(dialogs))' : photo'[s] = q
    <3>1. q \in loading /\ q \notin {photo[s] : s \in Current}
      BY <1>1, <2>1 DEF LoadingRemaining
    <3>2. PICK s \in Current \cup Elements(dialogs) : photo[s] = q
      BY <3>1 DEF MarkIsCleared
    <3>3. s \in Elements(dialogs)
      BY <3>1, <3>2
    <3>4. photo'[s] = q
      BY <1>1, <3>2, <3>3, DialogsRemain DEF Elements
    <3>5. Elements(dialogs)' = Elements(dialogs)
      BY DEF Elements
    <3>6. QED
      BY <3>3, <3>4, <3>5
  <2>2. QED
    BY <2>1 DEF MarkIsCleared
<1>13. PauseHasAReason'
  BY <1>1 DEF PauseHasAReason
<1>14. TypeOK'
  <2>1. IsInjective(Remaining)
    BY <1>3, <1>4, <1>5, Lengths DEF IsInjective
  <2>2. refs' \in [Photos -> 0 .. MaxRefs]
    BY <1>11 DEF Enough
  <2>3. superseded' \subseteq {s \in Slots : photo'[s] # None}
    <3>1. ASSUME NEW s \in superseded' PROVE s \in Slots /\ photo'[s] # None
      <4>1. PICK i \in 1 .. Len(Remaining) : s = Remaining[i]
        BY <1>3, <1>4 DEF Elements
      <4>2. Remaining[i] \in Slots
        BY <1>3
      <4>3. QED
        BY <1>6, <4>1, <4>2, PhotosAssumption
    <3>2. QED
      BY <3>1
  <2>4. skipped' \cup asked' \subseteq superseded'
    BY <1>1, <1>3, <1>8 DEF NewestIsAccepted
  <2>5. loading' \subseteq Photos
    BY <1>1 DEF LoadingRemaining, TypeOK
  <2>6. photo' \in [Slots -> Photos \cup {None}]
    BY <1>1, PhotosRemain DEF Shots
  <2>7. /\ queue' \in Seq(Slots) /\ ended' \in Seq([slot : Slots, image : BOOLEAN])
        /\ worker' \in [at : {"idle", "decoding", "done", "posted"}, slot : Slots \cup {None},
                        image : BOOLEAN]
        /\ dialogs' \in Seq(Slots)
    BY <1>1 DEF TypeOK
  <2>8. paused' \in BOOLEAN
    BY <1>1
  <2>9. QED
    BY <1>1, <1>2, <1>3, <2>1, <2>2, <2>3, <2>4, <2>5, <2>6, <2>7, <2>8 DEF TypeOK
<1>15. QED
  BY <1>7, <1>8, <1>9, <1>10, <1>11, <1>12, <1>13, <1>14, EnoughIsHeldNext

\* A free slot is in no list.
LEMMA FreeIsNowhere ==
    ASSUME LoadsInv, NEW s \in Free
    PROVE  /\ s \in Slots /\ photo[s] = None /\ s \notin Elements(pending)
           /\ s \notin Elements(dialogs) /\ s \notin delayed
           /\ s \notin superseded \cup skipped \cup asked
<1> USE DEF LoadsInv
<1>1. s \in Slots /\ photo[s] = None
  BY DEF Free
<1>2. s \notin Elements(pending)
  BY <1>1, Lengths, PhotosAssumption DEF NewestIsAccepted
<1>3. s \notin Elements(dialogs)
  BY <1>1, PhotosAssumption DEF DialogsHold, Elements
<1>4. s \notin delayed /\ s \notin superseded \cup skipped \cup asked
  BY <1>1 DEF TypeOK
<1>5. QED
  BY <1>1, <1>2, <1>3, <1>4

\* Any other photo gets an entry at the end of the list, and its reference.
LEMMA StartStep ==
    ASSUME OpeningInv, NEW p \in Photos, NEW r, Enough(photo, editor, p, r),
           NEW n \in 0 .. 3 \cup {None}, NEW delays,
           StartLoad(p, r, n, delays), accepted' = p, wanted' \in Photos, UNCHANGED dialogs,
           clicks' \in 0 .. MaxClicks
    PROVE  OpeningInv'
<1> USE DEF OpeningInv, LoadsInv
<1>1. PICK s \in Free, later \in delays, c \in Covers :
        /\ pending' = Append(Remaining, s)
        /\ photo' = [PhotosRemaining EXCEPT ![s] = p]
        /\ superseded' = Superseded
        /\ delayed' = (delayed \ Unstarted) \cup (IF later THEN {s} ELSE {})
        /\ queue' = IF later THEN queue ELSE Append(queue, s)
        /\ asked' = (asked \ Current) \cup (IF c = "late" THEN {s} ELSE {})
        /\ \/ c = "shown" /\ SetQuickPreview(p, TRUE, n)
           \/ c = "busy" /\ FALSE \in Shown /\ SetQuickPreview(p, FALSE, n)
           \/ /\ c \in {"late", "none"}
              /\ attempts' = n
              /\ UNCHANGED <<setup, attached, cover, coverOf>>
  <2>1. (CHOOSE f \in Free : TRUE) \in Free
    BY DEF StartLoad
  <2>2. QED
    BY <2>1 DEF StartLoad
<1>2. /\ loading' = LoadingRemaining(loading \cup {p}) /\ refs' = RefsRemaining(r) /\ paused' = TRUE
      /\ UNCHANGED <<skipped, worker, ended, editor>>
  BY DEF StartLoad
<1>3. /\ s \in Slots /\ photo[s] = None /\ s \notin Elements(pending)
      /\ s \notin Elements(dialogs) /\ s \notin delayed
      /\ s \notin superseded \cup skipped \cup asked
  BY FreeIsNowhere
<1>4. /\ Unstarted = delayed /\ superseded' = Elements(Remaining) /\ Remaining \in Seq(Slots)
      /\ Len(Remaining) = Len(ended) + InHand + Len(queue)
      /\ Len(Remaining) <= Len(pending)
      /\ \A i \in 1 .. Len(Remaining) :
            Remaining[i] = pending[i] /\ pending[i] \notin delayed
      /\ Elements(Remaining) = Elements(pending) \ delayed
  BY <1>1, Remains
<1>5. Len(Remaining) \in Nat /\ DOMAIN Remaining = 1 .. Len(Remaining)
  BY <1>4, LenProperties
<1>6. \A i \in 1 .. Len(Remaining) :
         i \in 1 .. Len(pending) /\ Remaining[i] \in Elements(Remaining) /\ Remaining[i] # s
  BY <1>3, <1>4, <1>5, Lengths DEF Elements
<1>7. /\ pending' \in Seq(Slots) /\ Len(pending') = Len(Remaining) + 1
      /\ \A i \in 1 .. Len(Remaining) : pending'[i] = Remaining[i]
      /\ pending'[Len(Remaining) + 1] = s
      /\ DOMAIN pending' = 1 .. Len(Remaining) + 1
  BY <1>1, <1>3, <1>4, <1>5
<1>8. Elements(pending') = Elements(Remaining) \cup {s}
  <2>1. \A t \in Elements(pending') : t \in Elements(Remaining) \cup {s}
    BY <1>5, <1>6, <1>7 DEF Elements
  <2>2. ASSUME NEW t \in Elements(Remaining) PROVE t \in Elements(pending')
    <3>1. PICK i \in 1 .. Len(Remaining) : t = Remaining[i]
      BY <1>5 DEF Elements
    <3>2. i \in DOMAIN pending' /\ pending'[i] = t
      BY <1>5, <1>7, <3>1
    <3>3. QED
      BY <3>2 DEF Elements
  <2>3. s \in Elements(pending')
    BY <1>5, <1>7 DEF Elements
  <2>4. QED
    BY <2>1, <2>2, <2>3
<1>9. delayed' = IF later THEN {s} ELSE {}
  BY <1>1, <1>4
<1>10. /\ photo' \in [Slots -> Photos \cup {None}] /\ photo'[s] = p
       /\ \A t \in Slots \ {s} : photo'[t] = PhotosRemaining[t]
  BY <1>1, <1>3, PhotosRemain DEF Shots
<1>11. \A i \in 1 .. Len(pending') : photo'[pending'[i]] \in Photos
  <2>1. \A i \in 1 .. Len(pending) : photo[pending[i]] \in Photos /\ pending[i] \in Slots
    BY Lengths DEF NewestIsAccepted
  <2>2. \A i \in 1 .. Len(Remaining) : photo'[Remaining[i]] \in Photos
    BY <1>4, <1>6, <1>10, <2>1, PhotosRemain
  <2>3. QED
    BY <1>5, <1>7, <1>10, <2>2
<1>12. LoadsInLine'
  <2>1. InHand' = InHand /\ Waiting' = IF later THEN 1 ELSE 0
    BY <1>2, <1>9 DEF InHand, Waiting
  <2>2. LoadsInLine /\ Len(ended) \in Nat /\ Len(queue) \in Nat /\ InHand \in {0, 1}
    BY Lengths
  <2> HIDE DEF OpeningInv, LoadsInv
  <2>3. /\ \A i \in 1 .. Len(ended) : pending'[i] = ended[i].slot
        /\ InHand = 1 => pending'[Len(ended) + 1] = worker.slot
        /\ \A i \in 1 .. Len(queue) : pending'[Len(ended) + InHand + i] = queue[i]
    <3>1. \A i \in 1 .. Len(ended) : i \in 1 .. Len(Remaining)
      BY <1>4, <2>2
    <3>2. InHand = 1 => Len(ended) + 1 \in 1 .. Len(Remaining)
      BY <1>4, <2>2
    <3>3. \A i \in 1 .. Len(queue) : Len(ended) + InHand + i \in 1 .. Len(Remaining)
      BY <1>4, <2>2
    <3>4. \A i \in 1 .. Len(Remaining) : pending'[i] = pending[i]
      BY <1>4, <1>7
    <3>5. QED
      BY <2>2, <3>1, <3>2, <3>3, <3>4 DEF LoadsInLine
  <2>4. CASE later
    <3>1. queue' = queue /\ Waiting' = 1 /\ delayed' = {pending'[Len(pending')]}
      BY <1>1, <1>7, <1>9, <2>1, <2>4
    <3>2. Len(pending') = Len(ended) + InHand + Len(queue) + 1
      BY <1>4, <1>7
    <3>3. QED
      BY <1>2, <2>1, <2>3, <3>1, <3>2 DEF LoadsInLine
  <2>5. CASE ~later
    <3>1. queue' = Append(queue, s) /\ Waiting' = 0 /\ delayed' = {}
      BY <1>1, <1>9, <2>1, <2>5
    <3>2. queue \in Seq(Slots)
      BY DEF OpeningInv, LoadsInv, TypeOK
    <3>3. /\ Len(queue') = Len(queue) + 1 /\ queue'[Len(queue) + 1] = s
          /\ \A i \in 1 .. Len(queue) : queue'[i] = queue[i]
      BY <1>3, <3>1, <3>2
    <3>4. Len(pending') = Len(ended) + InHand + Len(queue') + 0
      BY <1>4, <1>7, <2>2, <3>3
    <3>5. \A i \in 1 .. Len(queue') : pending'[Len(ended) + InHand + i] = queue'[i]
      <4>1. Len(ended) + InHand + (Len(queue) + 1) = Len(Remaining) + 1
        BY <1>4, <2>2
      <4>2. \A i \in 1 .. Len(queue') : i \in 1 .. Len(queue) \/ i = Len(queue) + 1
        BY <2>2, <3>3
      <4>3. QED
        BY <1>7, <2>3, <3>3, <4>1, <4>2
    <3>6. QED
      BY <1>2, <2>1, <2>3, <3>1, <3>4, <3>5 DEF LoadsInLine
  <2>6. QED
    BY <2>4, <2>5
<1>13. superseded \subseteq superseded' /\ asked \ Current \subseteq superseded
  <2>1. superseded \subseteq Elements(pending) \ delayed
    BY DEF NewestIsAccepted
  <2>2. asked \ Current \subseteq superseded
    BY DEF NewestIsAccepted, Current
  <2>3. QED
    BY <1>4, <2>1, <2>2
<1>14. s \notin superseded'
  BY <1>3, <1>4
<1>15. NewestIsAccepted'
  <2>1. skipped' \subseteq superseded' /\ superseded' \subseteq Elements(pending')
    BY <1>2, <1>4, <1>8, <1>13 DEF NewestIsAccepted
  <2>2. asked' \subseteq Elements(pending')
    BY <1>1, <1>8, <1>13, <2>1
  <2>3. delayed' \cap superseded' = {}
    BY <1>9, <1>14
  <2>4. ASSUME NEW i \in 1 .. Len(pending')
        PROVE  /\ i < Len(pending') => pending'[i] \in superseded'
               /\ pending'[i] \notin superseded' => photo'[pending'[i]] = accepted'
    <3>1. CASE i = Len(Remaining) + 1
      BY <1>5, <1>7, <1>10, <3>1
    <3>2. CASE i # Len(Remaining) + 1
      <4>1. i \in 1 .. Len(Remaining)
        BY <1>5, <1>7, <3>2
      <4>2. QED
        BY <1>4, <1>6, <1>7, <4>1
    <3>3. QED
      BY <3>1, <3>2
  <2>5. QED
    BY <1>11, <2>1, <2>2, <2>3, <2>4 DEF NewestIsAccepted
<1>16. DialogsHold'
  <2>1. DialogsHold /\ dialogs \in Seq(Slots)
    BY DEF TypeOK
  <2>2. ASSUME NEW i \in DOMAIN dialogs
        PROVE  photo'[dialogs[i]] \in Photos /\ dialogs[i] \notin Elements(pending')
    <3>1. dialogs[i] # s
      BY <1>3 DEF Elements
    <3>2. /\ dialogs[i] \in Slots /\ dialogs[i] \notin Elements(Remaining)
          /\ PhotosRemaining[dialogs[i]] = photo[dialogs[i]]
      BY DialogsRemain
    <3>3. QED
      BY <1>8, <1>10, <2>1, <3>1, <3>2 DEF DialogsHold
  <2>3. QED
    BY <2>1, <2>2 DEF DialogsHold
<1>17. SomeWanted'
  BY DEF SomeWanted
<1>18. Enough(photo', editor', None, refs')
  <2>1. Enough(PhotosRemaining, editor, p, RefsRemaining(r))
    BY RefsRemain
  <2>2. PhotosRemaining \in Shots /\ PhotosRemaining[s] = None
    BY <1>3, PhotosRemain
  <2>3. Enough([PhotosRemaining EXCEPT ![s] = p], editor, None, RefsRemaining(r))
    BY <1>3, <2>1, <2>2, EnoughFilled
  <2>4. QED
    BY <1>1, <1>2, <2>3
<1>19. MarkIsCleared'
  <2>1. s \in Current'
    BY <1>8, <1>14 DEF Current
  <2>2. ASSUME NEW q \in loading' PROVE \E t \in (Current \cup Elements(dialogs))' : photo'[t] = q
    <3>1. CASE q = p
      BY <1>10, <2>1, <3>1
    <3>2. CASE q # p
      <4>1. q \in loading /\ q \notin {photo[t] : t \in Current}
        BY <1>2, <2>2, <3>2 DEF LoadingRemaining
      <4>2. PICK t \in Current \cup Elements(dialogs) : photo[t] = q
        BY <4>1 DEF MarkIsCleared
      <4>3. t \in Elements(dialogs)
        BY <4>1, <4>2
      <4>4. t \in Slots \ {s} /\ PhotosRemaining[t] = q
        BY <1>3, <4>2, <4>3, DialogsRemain DEF Elements
      <4>5. Elements(dialogs)' = Elements(dialogs)
        BY DEF Elements
      <4>6. QED
        BY <1>10, <4>3, <4>4, <4>5
    <3>3. QED
      BY <3>1, <3>2
  <2>3. QED
    BY <2>2 DEF MarkIsCleared
<1>20. PauseHasAReason'
  BY <1>5, <1>7, EmptySeq DEF PauseHasAReason
<1>21. ScreenOK'
  <2>1. ScreenOK
    BY DEF TypeOK, ScreenOK
  <2>2. TRUE \in BOOLEAN /\ FALSE \in BOOLEAN
    OBVIOUS
  <2>3. CASE SetQuickPreview(p, TRUE, n) \/ SetQuickPreview(p, FALSE, n)
    BY <2>1, <2>2, <2>3, QuickPreviewTypes
  <2>4. CASE attempts' = n /\ UNCHANGED <<setup, attached, cover, coverOf>>
    BY <2>1, <2>4 DEF ScreenOK
  <2>5. QED
    BY <1>1, <2>3, <2>4
<1>22. TypeOK'
  <2>1. IsInjective(pending')
    <3>1. \A i, j \in 1 .. Len(Remaining) : Remaining[i] = Remaining[j] => i = j
      BY <1>4, <1>6, Lengths
    <3>2. QED
      BY <1>5, <1>6, <1>7, <3>1 DEF IsInjective
  <2>2. refs' \in [Photos -> 0 .. MaxRefs]
    BY <1>18 DEF Enough
  <2>3. \A t \in Elements(pending') : t \in Slots /\ photo'[t] # None
    <3>1. ASSUME NEW t \in Elements(pending') PROVE t \in Slots /\ photo'[t] # None
      <4>1. PICK i \in 1 .. Len(pending') : t = pending'[i]
        BY <1>7 DEF Elements
      <4>2. pending'[i] \in Slots
        BY <1>7
      <4>3. QED
        BY <1>11, <4>1, <4>2, PhotosAssumption
    <3>2. QED
      BY <3>1
  <2>4. delayed' \subseteq Current' /\ delayed' \subseteq Elements(pending')
    BY <1>8, <1>9, <1>14 DEF Current
  <2>5. superseded' \cup skipped' \cup asked' \subseteq Elements(pending')
    BY <1>15 DEF NewestIsAccepted
  <2>6. loading' \subseteq Photos
    BY <1>2 DEF LoadingRemaining, TypeOK
  <2>7. /\ ended' \in Seq([slot : Slots, image : BOOLEAN])
        /\ worker' \in [at : {"idle", "decoding", "done", "posted"}, slot : Slots \cup {None},
                        image : BOOLEAN]
        /\ dialogs' \in Seq(Slots) /\ editor' \in Photos \cup {None}
    BY <1>2 DEF TypeOK
  <2>8. queue' \in Seq(Slots)
    <3>1. queue \in Seq(Slots)
      BY DEF TypeOK
    <3>2. QED
      BY <1>1, <1>3, <3>1
  <2>9. paused' \in BOOLEAN /\ {wanted', accepted'} \subseteq Photos \cup {None}
    BY <1>2
  <2>10. QED
    BY <1>7, <1>10, <1>21, <2>1, <2>2, <2>3, <2>4, <2>5, <2>6, <2>7, <2>8, <2>9
       DEF TypeOK, ScreenOK
<1>23. QED
  BY <1>12, <1>15, <1>16, <1>17, <1>18, <1>19, <1>20, <1>22, EnoughIsHeldNext

-----------------------------------------------------------------------------
(* The steps that leave the list of the loads alone.                         *)

WorkerStates ==
    [at : {"idle", "decoding", "done", "posted"}, slot : Slots \cup {None}, image : BOOLEAN]

LEMMA QuietStep ==
    ASSUME OpeningInv,
           UNCHANGED <<pending, photo, superseded, delayed, queue, ended, loading, editor,
                       dialogs, accepted, paused>>,
           skipped' \subseteq superseded, asked' \subseteq asked,
           worker' \in WorkerStates, InHand' = InHand, InHand = 1 => worker'.slot = worker.slot,
           ScreenOK', SomeWanted', Enough(photo, editor, None, refs'),
           wanted' \in Photos \cup {None}, clicks' \in 0 .. MaxClicks
    PROVE  OpeningInv'
<1> USE DEF OpeningInv, LoadsInv
<1>1. Elements(pending)' = Elements(pending) /\ Elements(dialogs)' = Elements(dialogs)
      /\ Current' = Current /\ Waiting' = Waiting
  BY DEF Elements, Current, Waiting
<1>2. LoadsInLine'
  BY <1>1 DEF LoadsInLine
<1>3. NewestIsAccepted'
  BY <1>1 DEF NewestIsAccepted
<1>4. DialogsHold'
  BY <1>1 DEF DialogsHold
<1>5. MarkIsCleared' /\ PauseHasAReason'
  BY <1>1 DEF MarkIsCleared, PauseHasAReason
<1>6. Enough(photo', editor', None, refs')
  OBVIOUS
<1>7. TypeOK'
  <2>1. refs' \in [Photos -> 0 .. MaxRefs]
    BY DEF Enough
  <2>2. skipped' \cup asked' \subseteq superseded \cup asked
    OBVIOUS
  <2>3. QED
    BY <1>1, <2>1, <2>2 DEF TypeOK, ScreenOK, WorkerStates
<1>8. QED
  BY <1>2, <1>3, <1>4, <1>5, <1>6, <1>7, EnoughIsHeldNext

\* What they leave alone, in the words of the actions.
LEMMA StaysEnough ==
    ASSUME OpeningInv
    PROVE  /\ Enough(photo, editor, None, refs) /\ ScreenOK /\ worker \in WorkerStates
           /\ skipped \subseteq superseded /\ SomeWanted /\ wanted \in Photos \cup {None}
           /\ clicks \in 0 .. MaxClicks
BY HeldIsEnough DEF OpeningInv, LoadsInv, TypeOK, ScreenOK, WorkerStates, NewestIsAccepted

\* fileSelected() in whole, by a click or by the watchdog.
LEMMA SelectStep ==
    ASSUME OpeningInv, NEW p \in Photos, NEW r, Enough(photo, editor, None, r),
           NEW n \in 0 .. 3 \cup {None}, NEW delays,
           FileSelected(p, r, n, delays), wanted' \in Photos, UNCHANGED dialogs,
           clicks' \in 0 .. MaxClicks
    PROVE  OpeningInv'
<1>1. CASE StaysAsItIs(p)
  <2>1. /\ refs' = r /\ attempts' = n
        /\ UNCHANGED <<pending, photo, superseded, skipped, asked, delayed, queue, worker,
                       ended, loading, editor, setup, attached, cover, coverOf, paused,
                       accepted>>
    BY <1>1 DEF FileSelected, loads, thread
  <2>2. ScreenOK' /\ SomeWanted' /\ InHand' = InHand
    BY <2>1, StaysEnough DEF ScreenOK, SomeWanted, InHand
  <2>3. wanted' \in Photos \cup {None} /\ Enough(photo, editor, None, refs')
    BY <2>1
  <2>4. QED
    BY <2>1, <2>2, <2>3, StaysEnough, QuietStep
<1>2. CASE ~StaysAsItIs(p)
  <2>1. accepted' = p /\ (OpenCached(p, Take(r, p, 1)) \/ StartLoad(p, Take(r, p, 1), n, delays))
    BY <1>2 DEF FileSelected
  <2>2. Enough(photo, editor, p, Take(r, p, 1))
    BY EnoughTaken
  <2>3. CASE OpenCached(p, Take(r, p, 1))
    BY <2>1, <2>2, <2>3, CachedStep
  <2>4. CASE StartLoad(p, Take(r, p, 1), n, delays)
    BY <2>1, <2>2, <2>4, StartStep
  <2>5. QED
    BY <2>1, <2>3, <2>4
<1>3. QED
  BY <1>1, <1>2

LEMMA ClickStep == ASSUME OpeningInv, NEW p \in Photos, Click(p) PROVE OpeningInv'
<1>1. /\ clicks < MaxClicks /\ clicks' = clicks + 1 /\ wanted' = p /\ UNCHANGED dialogs
      /\ FileSelected(p, refs, attempts, Delays)
  BY DEF Click
<1>2. clicks' \in 0 .. MaxClicks /\ attempts \in 0 .. 3 \cup {None}
  BY <1>1, StaysEnough, BoundsAssumption DEF ScreenOK
<1>3. QED
  BY <1>1, <1>2, StaysEnough, SelectStep

\* A watchdog that opens the selection again takes one more reference for it.
LEMMA RetryStep == ASSUME OpeningInv, WatchdogRetries PROVE OpeningInv'
<1>1. /\ attempts # None /\ attempts < 2 /\ UNCHANGED <<dialogs, wanted, clicks>>
      /\ FileSelected(wanted, RefsToReopen, attempts + 1, {FALSE})
  BY DEF WatchdogRetries
<1>2. wanted \in Photos /\ attempts \in 0 .. 3
  BY <1>1, StaysEnough DEF SomeWanted, ScreenOK
<1>3. attempts + 1 \in 0 .. 3 \cup {None}
  BY <1>1, <1>2
<1>4. Enough(photo, editor, None, RefsToReopen)
  <2>1. CASE wanted = editor
    BY <2>1, StaysEnough DEF RefsToReopen
  <2>2. CASE wanted # editor
    <3>1. Enough(photo, editor, wanted, Take(refs, wanted, 1))
      BY <1>2, StaysEnough, EnoughTaken
    <3>2. QED
      BY <1>2, <2>2, <3>1, EnoughLeft DEF RefsToReopen
  <2>3. QED
    BY <2>1, <2>2
<1>5. wanted' \in Photos /\ clicks' \in 0 .. MaxClicks
  BY <1>1, <1>2, StaysEnough
<1>6. QED
  BY <1>1, <1>2, <1>3, <1>4, <1>5, SelectStep

\* The other quiet steps: the cover that comes late, the decoding, the set-up,
\* and the rest of the watchdog.
LEMMA LateCoverStep == ASSUME OpeningInv, NEW s \in Slots, LateCover(s) PROVE OpeningInv'
<1>1. /\ s \in asked /\ asked' = asked \ {s}
      /\ UNCHANGED <<pending, photo, superseded, skipped, delayed, queue, worker, ended,
                     loading, refs, editor, dialogs, paused, wanted, accepted, clicks>>
  BY DEF LateCover, thread
<1>2. PICK shown \in Shown : SetQuickPreview(photo[s], shown, attempts)
  BY DEF LateCover
<1>3. photo[s] \in Photos
  BY <1>1 DEF OpeningInv, LoadsInv, TypeOK
<1>4. attempts \in 0 .. 3 \cup {None} /\ shown \in BOOLEAN
  BY <1>2, ShownIs, StaysEnough DEF ScreenOK
<1>5. ScreenOK'
  BY <1>2, <1>3, <1>4, StaysEnough, QuickPreviewTypes
<1>6. SomeWanted'
  BY <1>1, StaysEnough DEF SomeWanted
<1>7. InHand' = InHand
  BY <1>1 DEF InHand
<1>8. /\ Enough(photo, editor, None, refs') /\ wanted' \in Photos \cup {None}
      /\ clicks' \in 0 .. MaxClicks /\ skipped' \subseteq superseded /\ asked' \subseteq asked
      /\ worker' \in WorkerStates
  BY <1>1, StaysEnough
<1>9. QED
  BY <1>1, <1>5, <1>6, <1>7, <1>8, QuietStep

LEMMA DecodeStep == ASSUME OpeningInv, Decode PROVE OpeningInv'
<1>1. /\ worker.at = "decoding"
      /\ UNCHANGED <<pending, photo, superseded, asked, delayed, queue, ended, loading, refs,
                     editor, setup, attached, cover, coverOf, attempts, dialogs, paused,
                     wanted, accepted, clicks>>
  BY DEF Decode, screen
<1>2. skipped' \subseteq superseded
  BY StaysEnough DEF Decode
<1>3. /\ worker' \in WorkerStates /\ worker'.at = "done" /\ worker'.slot = worker.slot
  <2>1. worker \in WorkerStates
    BY StaysEnough
  <2>2. CASE worker' = [worker EXCEPT !.at = "done"]
    BY <2>1, <2>2 DEF WorkerStates
  <2>3. ASSUME NEW image \in BOOLEAN, worker' = [worker EXCEPT !.at = "done", !.image = image]
        PROVE  worker' \in WorkerStates /\ worker'.at = "done" /\ worker'.slot = worker.slot
    BY <2>1, <2>3 DEF WorkerStates
  <2>4. QED
    BY <2>2, <2>3 DEF Decode
<1>4. InHand' = InHand
  BY <1>1, <1>3 DEF InHand
<1>5. ScreenOK' /\ SomeWanted'
  BY <1>1, StaysEnough DEF ScreenOK, SomeWanted
<1>6. /\ Enough(photo, editor, None, refs') /\ wanted' \in Photos \cup {None}
      /\ clicks' \in 0 .. MaxClicks /\ asked' \subseteq asked
  BY <1>1, StaysEnough
<1>7. QED
  BY <1>1, <1>2, <1>3, <1>4, <1>5, <1>6, QuietStep

LEMMA FinishStep == ASSUME OpeningInv, FinishConnector PROVE OpeningInv'
<1>1. /\ worker.at = "posted" /\ worker' = Idle
      /\ UNCHANGED <<pending, photo, superseded, skipped, asked, delayed, queue, ended, loading,
                     refs, editor, setup, attached, cover, coverOf, attempts, dialogs, paused,
                     wanted, accepted, clicks>>
  BY DEF FinishConnector, screen, loads
<1>2. worker' \in WorkerStates /\ InHand' = InHand /\ InHand = 0
  BY <1>1 DEF WorkerStates, Idle, InHand
<1>3. ScreenOK' /\ SomeWanted'
  BY <1>1, StaysEnough DEF ScreenOK, SomeWanted
<1>4. /\ Enough(photo, editor, None, refs') /\ wanted' \in Photos \cup {None}
      /\ clicks' \in 0 .. MaxClicks /\ asked' \subseteq asked /\ skipped' \subseteq superseded
  BY <1>1, StaysEnough
<1>5. QED
  BY <1>1, <1>2, <1>3, <1>4, QuietStep

LEMMA ScreenStep ==
    ASSUME OpeningInv,
           OpenPhaseB \/ EnableCrop \/ InitialImageArrived \/ WatchdogEnds \/ WatchdogGivesUp
    PROVE  OpeningInv'
<1>1. UNCHANGED <<pending, photo, superseded, skipped, asked, delayed, queue, worker, ended,
                  loading, refs, editor, dialogs, paused, wanted, accepted, clicks>>
  BY DEF OpenPhaseB, EnableCrop, InitialImageArrived, WatchdogEnds, WatchdogGivesUp, loads,
         thread
<1>2. ScreenOK'
  <2>1. CASE OpenPhaseB \/ EnableCrop \/ InitialImageArrived \/ WatchdogEnds
    BY <2>1, StaysEnough
       DEF OpenPhaseB, EnableCrop, InitialImageArrived, WatchdogEnds, ScreenOK
  <2>2. CASE WatchdogGivesUp
    <3>1. attempts \in 0 .. 3 /\ attempts >= 2
      BY <2>2, StaysEnough DEF WatchdogGivesUp, ScreenOK
    <3>2. attempts' \in 0 .. 3 \cup {None}
      BY <2>2, <3>1 DEF WatchdogGivesUp
    <3>3. cover' \in BOOLEAN
      BY <2>2 DEF WatchdogGivesUp
    <3>4. coverOf' \in Photos \cup {None} /\ UNCHANGED <<setup, attached>>
      BY <2>2, StaysEnough DEF WatchdogGivesUp, ScreenOK
    <3>5. QED
      BY <3>2, <3>3, <3>4, StaysEnough DEF ScreenOK
  <2>3. QED
    BY <2>1, <2>2
<1>3. SomeWanted'
  <2>1. attempts' # None => attempts # None
    BY DEF OpenPhaseB, EnableCrop, InitialImageArrived, WatchdogEnds, WatchdogGivesUp
  <2>2. QED
    BY <1>1, <2>1, StaysEnough DEF SomeWanted
<1>4. /\ Enough(photo, editor, None, refs') /\ wanted' \in Photos \cup {None}
      /\ clicks' \in 0 .. MaxClicks /\ asked' \subseteq asked /\ skipped' \subseteq superseded
      /\ worker' \in WorkerStates
  BY <1>1, StaysEnough
<1>5. InHand' = InHand
  BY <1>1 DEF InHand
<1>6. QED
  BY <1>1, <1>2, <1>3, <1>4, <1>5, QuietStep

-----------------------------------------------------------------------------
(* The steps that move a load along the line.                                *)

LEMMA LineStep ==
    ASSUME OpeningInv,
           UNCHANGED <<pending, photo, superseded, skipped, asked, loading, refs, editor, setup,
                       attached, cover, coverOf, attempts, dialogs, paused, wanted, accepted,
                       clicks>>,
           delayed' \subseteq delayed, queue' \in Seq(Slots), worker' \in WorkerStates,
           ended' \in Seq([slot : Slots, image : BOOLEAN]), LoadsInLine'
    PROVE  OpeningInv'
<1> USE DEF OpeningInv, LoadsInv
<1>1. Elements(pending)' = Elements(pending) /\ Elements(dialogs)' = Elements(dialogs)
      /\ Current' = Current
  BY DEF Elements, Current
<1>2. NewestIsAccepted'
  BY <1>1 DEF NewestIsAccepted
<1>3. DialogsHold' /\ SomeWanted'
  BY <1>1 DEF DialogsHold, SomeWanted
<1>4. MarkIsCleared' /\ PauseHasAReason'
  BY <1>1 DEF MarkIsCleared, PauseHasAReason
<1>5. HeldWhileNeeded'
  BY DEF HeldWhileNeeded
<1>6. TypeOK'
  BY <1>1 DEF TypeOK, WorkerStates
<1>7. QED
  BY <1>2, <1>3, <1>4, <1>5, <1>6

LEMMA DelayedStep == ASSUME OpeningInv, NEW s \in Slots, DelayedStart(s) PROVE OpeningInv'
<1>0. LoadsInLine /\ TypeOK /\ NewestIsAccepted
  BY DEF OpeningInv, LoadsInv
<1>1. /\ s \in delayed /\ delayed' = delayed \ {s} /\ s \notin superseded
      /\ queue' = Append(queue, s)
      /\ UNCHANGED <<pending, photo, superseded, skipped, asked, worker, ended, loading, refs,
                     editor, setup, attached, cover, coverOf, attempts, dialogs, paused, wanted,
                     accepted, clicks>>
  BY <1>0 DEF DelayedStart, screen, NewestIsAccepted
<1>2. /\ queue \in Seq(Slots) /\ queue' \in Seq(Slots) /\ Len(queue') = Len(queue) + 1
      /\ queue'[Len(queue) + 1] = s /\ \A i \in 1 .. Len(queue) : queue'[i] = queue[i]
  BY <1>0, <1>1 DEF TypeOK
<1>3. /\ Len(ended) \in Nat /\ Len(queue) \in Nat /\ InHand \in {0, 1} /\ Len(pending) \in Nat
  BY <1>0, Lengths
<1>4. Waiting = 1 /\ delayed = {s} /\ s = pending[Len(pending)] /\ delayed' = {} /\ Waiting' = 0
      /\ InHand' = InHand
  BY <1>0, <1>1 DEF Waiting, LoadsInLine, InHand
<1>5. Len(pending) = Len(ended) + InHand + (Len(queue) + 1)
  <2>1. Len(pending) = Len(ended) + InHand + Len(queue) + Waiting
    BY <1>0 DEF LoadsInLine
  <2>2. QED
    BY <1>3, <1>4, <2>1
<1>6. \A i \in 1 .. Len(queue') : pending[Len(ended) + InHand + i] = queue'[i]
  <2>1. \A i \in 1 .. Len(queue') : i \in 1 .. Len(queue) \/ i = Len(queue) + 1
    BY <1>2, <1>3
  <2>2. \A i \in 1 .. Len(queue) : pending[Len(ended) + InHand + i] = queue[i]
    BY <1>0 DEF LoadsInLine
  <2>3. QED
    BY <1>2, <1>4, <1>5, <2>1, <2>2
<1>7. Len(pending) = Len(ended) + InHand + Len(queue') + 0
  BY <1>2, <1>3, <1>5
<1>8. LoadsInLine'
  BY <1>0, <1>1, <1>4, <1>6, <1>7 DEF LoadsInLine
<1>9. /\ worker' \in WorkerStates /\ ended' \in Seq([slot : Slots, image : BOOLEAN])
      /\ delayed' \subseteq delayed
  BY <1>0, <1>1 DEF TypeOK, WorkerStates
<1>10. QED
  BY <1>1, <1>2, <1>8, <1>9, LineStep

LEMMA TakeStep == ASSUME OpeningInv, TakeLoad PROVE OpeningInv'
<1>0. LoadsInLine /\ TypeOK
  BY DEF OpeningInv, LoadsInv
<1>1. /\ worker.at = "idle" /\ queue # <<>>
      /\ worker' = [at |-> "decoding", slot |-> Head(queue), image |-> FALSE]
      /\ queue' = Tail(queue)
      /\ UNCHANGED <<pending, photo, superseded, skipped, asked, delayed, ended, loading, refs,
                     editor, setup, attached, cover, coverOf, attempts, dialogs, paused, wanted,
                     accepted, clicks>>
  BY DEF TakeLoad, screen, loads
<1>2. queue \in Seq(Slots)
  BY <1>0 DEF TypeOK
<1>3. /\ Head(queue) = queue[1] /\ Head(queue) \in Slots
      /\ Tail(queue) \in Seq(Slots) /\ Len(Tail(queue)) = Len(queue) - 1
      /\ \A i \in 1 .. Len(Tail(queue)) : Tail(queue)[i] = queue[i + 1]
      /\ Len(queue) > 0
  BY <1>1, <1>2, HeadTailProperties
<1>4. InHand = 0 /\ InHand' = 1 /\ Waiting' = Waiting
  BY <1>1 DEF InHand, Waiting
<1>5. Len(ended) \in Nat /\ Len(queue) \in Nat /\ Waiting \in {0, 1}
  BY <1>0, Lengths
<1>6. Len(pending) = Len(ended) + 1 + Len(queue') + Waiting
  BY <1>0, <1>1, <1>3, <1>4, <1>5 DEF LoadsInLine
<1>7. \A i \in 1 .. Len(queue) : pending[Len(ended) + i] = queue[i]
  BY <1>0, <1>4, <1>5 DEF LoadsInLine
<1>8. pending[Len(ended) + 1] = worker'.slot
  BY <1>1, <1>3, <1>5, <1>7
<1>9. ASSUME NEW i \in 1 .. Len(queue') PROVE pending[Len(ended) + 1 + i] = queue'[i]
  <2>1. i + 1 \in 1 .. Len(queue) /\ Len(ended) + 1 + i = Len(ended) + (i + 1)
    BY <1>1, <1>3, <1>5
  <2>2. queue'[i] = queue[i + 1]
    BY <1>1, <1>3
  <2>3. QED
    BY <1>7, <2>1, <2>2
<1>10. LoadsInLine'
  BY <1>0, <1>1, <1>4, <1>6, <1>8, <1>9 DEF LoadsInLine
<1>11. /\ worker' \in WorkerStates /\ ended' \in Seq([slot : Slots, image : BOOLEAN])
       /\ delayed' \subseteq delayed /\ queue' \in Seq(Slots)
  BY <1>0, <1>1, <1>3 DEF TypeOK, WorkerStates
<1>12. QED
  BY <1>1, <1>10, <1>11, LineStep

LEMMA PostEndStep == ASSUME OpeningInv, PostEnd PROVE OpeningInv'
<1>0. LoadsInLine /\ TypeOK
  BY DEF OpeningInv, LoadsInv
<1>1. /\ worker.at = "done"
      /\ ended' = Append(ended, [slot |-> worker.slot, image |-> worker.image])
      /\ worker' = [worker EXCEPT !.at = "posted"]
      /\ UNCHANGED <<pending, photo, superseded, skipped, asked, delayed, queue, loading, refs,
                     editor, setup, attached, cover, coverOf, attempts, dialogs, paused, wanted,
                     accepted, clicks>>
  BY DEF PostEnd, screen, loads
<1>2. worker \in WorkerStates /\ ended \in Seq([slot : Slots, image : BOOLEAN])
  BY <1>0 DEF TypeOK, WorkerStates
<1>3. InHand = 1 /\ InHand' = 0 /\ Waiting' = Waiting /\ worker' \in WorkerStates
  BY <1>1, <1>2 DEF InHand, Waiting, WorkerStates
<1>4. Len(ended) \in Nat /\ Len(queue) \in Nat /\ Waiting \in {0, 1}
  BY <1>0, Lengths
<1>5. Len(pending) = Len(ended) + 1 + Len(queue) + Waiting
  BY <1>0, <1>3 DEF LoadsInLine
<1>6. pending[Len(ended) + 1] = worker.slot /\ worker.slot \in Slots
  <2>1. Len(ended) + 1 \in 1 .. Len(pending)
    BY <1>4, <1>5
  <2>2. pending[Len(ended) + 1] \in Slots
    BY <1>0, <2>1, Lengths
  <2>3. QED
    BY <1>0, <1>3, <2>2 DEF LoadsInLine
<1>7. PICK c \in [slot : Slots, image : BOOLEAN] :
         c = [slot |-> worker.slot, image |-> worker.image]
  BY <1>2, <1>6 DEF WorkerStates
<1>8. /\ ended' \in Seq([slot : Slots, image : BOOLEAN]) /\ Len(ended') = Len(ended) + 1
      /\ ended'[Len(ended) + 1] = c /\ \A i \in 1 .. Len(ended) : ended'[i] = ended[i]
  BY <1>1, <1>2, <1>7
<1>9. \A i \in 1 .. Len(ended') : pending[i] = ended'[i].slot
  <2>1. \A i \in 1 .. Len(ended') : i \in 1 .. Len(ended) \/ i = Len(ended) + 1
    BY <1>4, <1>8
  <2>2. \A i \in 1 .. Len(ended) : pending[i] = ended[i].slot
    BY <1>0 DEF LoadsInLine
  <2>3. c.slot = worker.slot
    BY <1>7
  <2>4. QED
    BY <1>6, <1>8, <2>1, <2>2, <2>3
<1>10. Len(pending) = Len(ended') + 0 + Len(queue) + Waiting
  BY <1>4, <1>5, <1>8
<1>11. \A i \in 1 .. Len(queue) : pending[Len(ended') + 0 + i] = queue[i]
  <2>1. \A i \in 1 .. Len(queue) : pending[Len(ended) + 1 + i] = queue[i]
    BY <1>0, <1>3 DEF LoadsInLine
  <2>2. QED
    BY <1>4, <1>8, <2>1
<1>12. LoadsInLine'
  BY <1>0, <1>1, <1>3, <1>9, <1>10, <1>11 DEF LoadsInLine
<1>13. delayed' \subseteq delayed /\ queue' \in Seq(Slots)
  BY <1>0, <1>1 DEF TypeOK
<1>14. QED
  BY <1>1, <1>3, <1>8, <1>12, <1>13, LineStep

-----------------------------------------------------------------------------
(* imageLoaded() and its dialog.                                             *)

\* The end callback finds the first entry of the list: its own.
LEMMA FindsItsOwn == ASSUME LoadsInv PROVE CallbackFindsItsOwn
<1> USE DEF LoadsInv
<1>1. SUFFICES ASSUME ended # <<>>
               PROVE  /\ \E i \in DOMAIN pending : photo[pending[i]] = photo[Head(ended).slot]
                      /\ EntryOf(Head(ended)) = Head(ended).slot
  BY DEF CallbackFindsItsOwn
<1>2. ended \in Seq([slot : Slots, image : BOOLEAN])
  BY DEF TypeOK
<1>3. Head(ended) = ended[1] /\ Len(ended) > 0 /\ Len(ended) \in Nat
  BY <1>1, <1>2
<1>4. pending[1] = Head(ended).slot /\ Len(pending) > 0 /\ 1 \in DOMAIN pending
  BY <1>3, Lengths DEF LoadsInLine
<1> DEFINE P(i) == /\ photo[pending[i]] = photo[Head(ended).slot]
                   /\ \A j \in 1 .. i - 1 : photo[pending[j]] # photo[Head(ended).slot]
<1>5. P(1)
  BY <1>4
<1>6. ASSUME NEW i \in DOMAIN pending, P(i) PROVE i = 1
  <2>1. i \in Nat /\ i >= 1
    BY Lengths
  <2>2. CASE i # 1
    <3>1. 1 \in 1 .. i - 1
      BY <2>1, <2>2
    <3>2. QED
      BY <1>4, <1>6, <3>1
  <2>3. QED
    BY <2>2
<1>7. (CHOOSE i \in DOMAIN pending : P(i)) = 1
  <2> HIDE DEF P
  <2>1. QED
    BY <1>4, <1>5, <1>6
<1>8. EntryOf(Head(ended)) = pending[CHOOSE i \in DOMAIN pending : P(i)]
  BY DEF EntryOf
<1>9. QED
  BY <1>4, <1>7, <1>8

\* What a callback leaves of the list and of its marks.
LEMMA Forgets ==
    ASSUME LoadsInv, ended # <<>>, ended' = Tail(ended), UNCHANGED <<queue, worker>>,
           Forget(EntryOf(Head(ended)))
    PROVE  LET e == EntryOf(Head(ended)) IN
           /\ e \in Slots /\ photo[e] \in Photos /\ e = pending[1] /\ e \notin Elements(dialogs)
           /\ pending' = Tail(pending) /\ Elements(pending') = Elements(pending) \ {e}
           /\ pending' \in Seq(Slots) /\ Len(pending') = Len(pending) - 1
           /\ \A i \in 1 .. Len(pending') :
                 pending'[i] = pending[i + 1] /\ i + 1 \in 1 .. Len(pending)
           /\ ended' \in Seq([slot : Slots, image : BOOLEAN]) /\ LoadsInLine'
           /\ delayed' = delayed /\ e \notin delayed
<1> USE DEF LoadsInv
<1> DEFINE e == EntryOf(Head(ended))
<1>1. ended \in Seq([slot : Slots, image : BOOLEAN]) /\ pending \in Seq(Slots)
  BY DEF TypeOK
<1>2. /\ Head(ended) = ended[1] /\ Len(ended) > 0 /\ Len(ended) \in Nat
      /\ Len(ended') = Len(ended) - 1 /\ ended' \in Seq([slot : Slots, image : BOOLEAN])
      /\ \A i \in 1 .. Len(ended') : ended'[i] = ended[i + 1]
  BY <1>1, HeadTailProperties
<1>3. /\ Len(pending) \in Nat /\ Len(queue) \in Nat /\ InHand \in {0, 1} /\ Waiting \in {0, 1}
      /\ Len(pending) = Len(ended) + InHand + Len(queue) + Waiting
  BY Lengths DEF LoadsInLine
<1>4. Len(pending) > 0 /\ e = pending[1]
  <2>1. EntryOf(Head(ended)) = Head(ended).slot
    BY FindsItsOwn DEF CallbackFindsItsOwn
  <2>2. pending[1] = ended[1].slot
    BY <1>2 DEF LoadsInLine
  <2>3. QED
    BY <1>2, <1>3, <2>1, <2>2
<1>5. e \in Slots /\ photo[e] \in Photos /\ e \in Elements(pending)
  BY <1>3, <1>4, Lengths DEF NewestIsAccepted
<1>6. e \notin Elements(dialogs)
  BY <1>5 DEF DialogsHold, Elements
<1>7. pending # <<>> /\ \A i \in 2 .. Len(pending) : pending[i] # e
  BY <1>1, <1>3, <1>4, Lengths
<1>8. pending' = Tail(pending)
  <2>1. pending' = Without(pending, {e})
    BY DEF Forget
  <2> HIDE DEF e
  <2>2. pending[1] \in {e} /\ \A i \in 2 .. Len(pending) : pending[i] \notin {e}
    BY <1>4, <1>7
  <2>3. Without(pending, {e}) = Tail(pending)
    BY <1>1, <1>7, <2>2, WithoutFirst
  <2>4. QED
    BY <2>1, <2>3
<1>9. /\ pending' \in Seq(Slots) /\ Len(pending') = Len(pending) - 1
      /\ \A i \in 1 .. Len(pending') : pending'[i] = pending[i + 1]
  BY <1>1, <1>7, <1>8, HeadTailProperties
<1>10. \A i \in 1 .. Len(pending') : i + 1 \in 1 .. Len(pending)
  BY <1>3, <1>9
<1>11. Elements(pending') = Elements(pending) \ {e}
  <2>1. DOMAIN pending' = 1 .. Len(pending')
    BY <1>9
  <2>2. ASSUME NEW t \in Elements(pending') PROVE t \in Elements(pending) /\ t # e
    <3>1. PICK i \in 1 .. Len(pending') : t = pending'[i]
      BY <2>1 DEF Elements
    <3>2. i + 1 \in 2 .. Len(pending) /\ t = pending[i + 1]
      BY <1>3, <1>9, <1>10, <3>1
    <3>3. QED
      BY <1>7, <1>10, <3>2, Lengths
  <2>3. ASSUME NEW t \in Elements(pending), t # e PROVE t \in Elements(pending')
    <3>1. PICK i \in 1 .. Len(pending) : t = pending[i]
      BY Lengths
    <3>2. i # 1
      BY <1>4, <2>3, <3>1
    <3>3. i - 1 \in 1 .. Len(pending') /\ i - 1 + 1 = i
      BY <1>3, <1>9, <3>2
    <3>4. pending'[i - 1] = t
      BY <1>9, <3>1, <3>3
    <3>5. QED
      BY <2>1, <3>3, <3>4 DEF Elements
  <2>4. QED
    BY <2>2, <2>3
<1>12. delayed' = delayed /\ Waiting' = Waiting /\ InHand' = InHand
  BY DEF Forget, Waiting, InHand
<1>13. e \notin delayed /\ (delayed # {} => Len(pending) > 1)
  <2>1. CASE delayed = {}
    BY <2>1
  <2>2. CASE delayed # {}
    <3>1. Waiting = 1 /\ delayed = {pending[Len(pending)]}
      BY <2>2 DEF Waiting, LoadsInLine
    <3>2. Len(pending) > 1
      BY <1>2, <1>3, <3>1
    <3>3. Len(pending) \in 2 .. Len(pending)
      BY <1>3, <3>2
    <3>4. QED
      BY <1>7, <3>1, <3>2, <3>3
  <2>3. QED
    BY <2>1, <2>2
<1>14. LoadsInLine'
  <2> HIDE DEF e
  <2>1. Len(pending') = Len(ended') + InHand + Len(queue) + Waiting
    <3>1. /\ Len(ended) \in Nat /\ Len(queue) \in Nat /\ InHand \in Nat /\ Waiting \in Nat
          /\ Len(pending) = Len(ended) + InHand + Len(queue) + Waiting
      BY <1>2, <1>3
    <3>2. Len(ended') = Len(ended) - 1 /\ Len(pending') = Len(pending) - 1
      BY <1>2, <1>9
    <3>3. QED
      BY <3>1, <3>2
  <2>2. ASSUME NEW i \in 1 .. Len(ended') PROVE pending'[i] = ended'[i].slot
    <3>1. i + 1 \in 1 .. Len(ended) /\ i \in 1 .. Len(pending')
      BY <1>2, <1>3, <1>9
    <3>2. pending[i + 1] = ended[i + 1].slot
      BY <3>1 DEF LoadsInLine
    <3>3. QED
      BY <1>2, <1>9, <3>1, <3>2
  <2>3. InHand = 1 => pending'[Len(ended') + 1] = worker.slot
    <3>1. InHand = 1 => /\ Len(ended') + 1 \in 1 .. Len(pending')
                        /\ Len(ended') + 1 + 1 = Len(ended) + 1
      BY <1>2, <1>3, <1>9
    <3>2. InHand = 1 => pending[Len(ended) + 1] = worker.slot
      BY DEF LoadsInLine
    <3>3. QED
      BY <1>9, <3>1, <3>2
  <2>4. ASSUME NEW i \in 1 .. Len(queue) PROVE pending'[Len(ended') + InHand + i] = queue[i]
    <3>1. /\ Len(ended') + InHand + i \in 1 .. Len(pending')
          /\ Len(ended') + InHand + i + 1 = Len(ended) + InHand + i
      BY <1>2, <1>3, <1>9
    <3>2. pending[Len(ended) + InHand + i] = queue[i]
      BY DEF LoadsInLine
    <3>3. QED
      BY <1>9, <3>1, <3>2
  <2>5. delayed # {} => delayed = {pending'[Len(pending')]}
    <3>1. delayed # {} => Len(pending') \in 1 .. Len(pending') /\ Len(pending') + 1 = Len(pending)
      BY <1>3, <1>9, <1>13
    <3>2. delayed # {} => delayed = {pending[Len(pending)]}
      BY DEF LoadsInLine
    <3>3. QED
      BY <1>9, <3>1, <3>2
  <2>6. QED
    BY <1>12, <2>1, <2>2, <2>3, <2>4, <2>5 DEF LoadsInLine
<1>15. QED
  BY <1>2, <1>4, <1>5, <1>6, <1>8, <1>9, <1>10, <1>11, <1>12, <1>13, <1>14

LEMMA CallbackStep == ASSUME OpeningInv, ImageLoaded PROVE OpeningInv'
<1> USE DEF OpeningInv, LoadsInv
<1> DEFINE c == Head(ended)
           e == EntryOf(c)
<1>1. /\ ended # <<>> /\ ended' = Tail(ended) /\ Forget(e)
      /\ DiscardImage(e) \/ OpenImage(e, c) \/ ShowError(e, c)
      /\ UNCHANGED <<queue, worker, wanted, accepted, clicks>>
  BY DEF ImageLoaded
<1>2. /\ e \in Slots /\ photo[e] \in Photos /\ e = pending[1] /\ e \notin Elements(dialogs)
      /\ Elements(pending') = Elements(pending) \ {e}
      /\ pending' \in Seq(Slots) /\ Len(pending') = Len(pending) - 1
      /\ \A i \in 1 .. Len(pending') : pending'[i] = pending[i + 1] /\ i + 1 \in 1 .. Len(pending)
      /\ ended' \in Seq([slot : Slots, image : BOOLEAN]) /\ LoadsInLine'
      /\ delayed' = delayed /\ e \notin delayed
  BY <1>1, Forgets
<1>3. superseded' = superseded \ {e} /\ skipped' = skipped \ {e} /\ asked' = asked \ {e}
  BY <1>1 DEF Forget
<1> HIDE DEF e, c
<1>4. /\ photo \in Shots /\ dialogs \in Seq(Slots) /\ editor \in Photos \cup {None}
      /\ Enough(photo, editor, None, refs) /\ ScreenOK
  BY StaysEnough DEF TypeOK, Shots
<1>5. \/ photo' = photo /\ dialogs' = Append(dialogs, e) /\ UNCHANGED loading
      \/ /\ photo' = [photo EXCEPT ![e] = None] /\ UNCHANGED dialogs
         /\ loading' = loading \ {photo[e]}
  BY <1>1 DEF DiscardImage, OpenImage, ShowError
<1>6. photo' \in Shots /\ \A s \in Slots \ {e} : photo'[s] = photo[s]
  BY <1>2, <1>4, <1>5 DEF Shots
<1>7. \A i \in 1 .. Len(pending') : pending'[i] \in Elements(pending') /\ pending'[i] \in Slots \ {e}
  <2>1. DOMAIN pending' = 1 .. Len(pending')
    BY <1>2
  <2>2. \A i \in 1 .. Len(pending') : pending'[i] \in Elements(pending') /\ pending'[i] \in Slots
    BY <1>2, <2>1 DEF Elements
  <2>3. QED
    BY <1>2, <2>2
<1>8. NewestIsAccepted'
  <2>1. ASSUME NEW i \in 1 .. Len(pending')
        PROVE  /\ photo'[pending'[i]] \in Photos
               /\ i < Len(pending') => pending'[i] \in superseded'
               /\ pending'[i] \notin superseded' => photo'[pending'[i]] = accepted'
    <3>1. pending'[i] = pending[i + 1] /\ i + 1 \in 1 .. Len(pending) /\ pending'[i] \in Slots \ {e}
      BY <1>2, <1>7
    <3>2. i < Len(pending') => i + 1 < Len(pending)
      BY <1>2, Lengths
    <3>3. /\ photo[pending[i + 1]] \in Photos
          /\ i + 1 < Len(pending) => pending[i + 1] \in superseded
          /\ pending[i + 1] \notin superseded => photo[pending[i + 1]] = accepted
      BY <3>1 DEF NewestIsAccepted
    <3>4. QED
      BY <1>1, <1>3, <1>6, <3>1, <3>2, <3>3
  <2>2. /\ skipped' \subseteq superseded' /\ superseded' \cup asked' \subseteq Elements(pending')
        /\ delayed' \cap superseded' = {}
    BY <1>2, <1>3 DEF NewestIsAccepted
  <2>3. QED
    BY <2>1, <2>2 DEF NewestIsAccepted
<1>9. DialogsHold'
  <2>1. \A i \in DOMAIN dialogs : dialogs[i] \in Slots \ {e} /\ dialogs[i] \in Elements(dialogs)
    BY <1>2, <1>4 DEF Elements
  <2>2. \A i \in DOMAIN dialogs :
           photo'[dialogs[i]] \in Photos /\ dialogs[i] \notin Elements(pending')
    BY <1>2, <1>6, <2>1 DEF DialogsHold
  <2>3. CASE UNCHANGED dialogs
    BY <2>2, <2>3 DEF DialogsHold
  <2>4. CASE dialogs' = Append(dialogs, e) /\ photo' = photo
    <3>1. /\ Len(dialogs) \in Nat /\ DOMAIN dialogs = 1 .. Len(dialogs)
          /\ DOMAIN dialogs' = 1 .. Len(dialogs) + 1 /\ dialogs'[Len(dialogs) + 1] = e
          /\ \A i \in 1 .. Len(dialogs) : dialogs'[i] = dialogs[i]
      BY <1>2, <1>4, <2>4
    <3>2. \A i \in DOMAIN dialogs' : i \in 1 .. Len(dialogs) \/ i = Len(dialogs) + 1
      BY <3>1
    <3>3. \A i \in DOMAIN dialogs' :
             photo'[dialogs'[i]] \in Photos /\ dialogs'[i] \notin Elements(pending')
      BY <1>2, <2>2, <2>4, <3>1, <3>2
    <3>4. \A i, j \in 1 .. Len(dialogs) : dialogs[i] = dialogs[j] => i = j
      BY <3>1 DEF DialogsHold, IsInjective
    <3>5. IsInjective(dialogs')
      BY <2>1, <3>1, <3>2, <3>4 DEF IsInjective
    <3>6. QED
      BY <3>3, <3>5 DEF DialogsHold
  <2>5. QED
    BY <1>5, <2>3, <2>4
<1>10. MarkIsCleared'
  <2>1. ASSUME NEW q \in loading' PROVE \E s \in (Current \cup Elements(dialogs))' : photo'[s] = q
    <3>1. q \in loading
      BY <1>5, <2>1
    <3>2. PICK s \in Current \cup Elements(dialogs) : photo[s] = q
      BY <3>1 DEF MarkIsCleared
    <3>3. Elements(dialogs) \subseteq Elements(dialogs)' /\ Elements(dialogs) \subseteq Slots
      <4>1. CASE UNCHANGED dialogs
        BY <1>4, <4>1 DEF Elements
      <4>2. CASE dialogs' = Append(dialogs, e)
        <5>1. /\ Len(dialogs) \in Nat /\ DOMAIN dialogs = 1 .. Len(dialogs)
              /\ DOMAIN dialogs' = 1 .. Len(dialogs) + 1
              /\ \A i \in 1 .. Len(dialogs) : dialogs'[i] = dialogs[i]
          BY <1>2, <1>4, <4>2
        <5>2. QED
          BY <1>4, <5>1 DEF Elements
      <4>3. QED
        BY <1>5, <4>1, <4>2
    <3>4. s \in Slots
      BY <3>2, <3>3, Lengths DEF Current
    <3>5. CASE s = e
      <4>1. dialogs' = Append(dialogs, e) /\ photo' = photo
        BY <1>5, <2>1, <3>2, <3>5
      <4>2. e \in Elements(dialogs)'
        <5>1. Len(dialogs) + 1 \in DOMAIN dialogs' /\ dialogs'[Len(dialogs) + 1] = e
          BY <1>2, <1>4, <4>1
        <5>2. QED
          BY <5>1 DEF Elements
      <4>3. QED
        BY <3>2, <3>5, <4>1, <4>2
    <3>6. CASE s # e
      <4>1. s \in (Current \cup Elements(dialogs))'
        BY <1>2, <1>3, <3>2, <3>3, <3>6 DEF Current
      <4>2. QED
        BY <1>6, <3>2, <3>4, <3>6, <4>1
    <3>7. QED
      BY <3>5, <3>6
  <2>2. QED
    BY <2>1 DEF MarkIsCleared
<1>11. PauseHasAReason'
  <2>1. CASE dialogs' = Append(dialogs, e)
    <3>1. dialogs' # <<>>
      BY <1>2, <1>4, <2>1
    <3>2. QED
      BY <3>1 DEF PauseHasAReason
  <2>2. CASE UNCHANGED dialogs
    <3>1. paused' = (pending' # <<>>)
      <4>1. CASE ShowError(e, c)
        <5>1. dialogs' = Append(dialogs, e)
          BY <4>1 DEF ShowError
        <5>2. Len(Append(dialogs, e)) = Len(dialogs) + 1 /\ Len(dialogs) \in Nat
          BY <1>2, <1>4
        <5>3. QED
          BY <2>2, <5>1, <5>2
      <4>2. QED
        BY <1>1, <4>1 DEF DiscardImage, OpenImage
    <3>2. QED
      BY <3>1 DEF PauseHasAReason
  <2>3. QED
    BY <1>5, <2>1, <2>2
<1>12. Enough(photo', editor', None, refs')
  <2>1. CASE DiscardImage(e)
    BY <1>2, <1>4, <2>1, EnoughForgotten DEF DiscardImage
  <2>2. CASE OpenImage(e, c)
    <3>1. /\ photo' = [photo EXCEPT ![e] = None] /\ editor' = photo[e]
          /\ refs' = IF editor = None THEN refs ELSE Drop(refs, editor, 1)
      BY <2>2 DEF OpenImage, OpenInEditor
    <3>2. Enough([photo EXCEPT ![e] = None], editor, photo[e], refs)
      BY <1>2, <1>4, EnoughKept
    <3>3. Enough([photo EXCEPT ![e] = None], photo[e], None,
                 IF editor = None THEN refs ELSE Drop(refs, editor, 1))
      BY <1>2, <1>4, <3>2, EnoughOpened
    <3>4. QED
      BY <3>1, <3>3
  <2>3. CASE ShowError(e, c)
    BY <1>4, <2>3 DEF ShowError
  <2>4. QED
    BY <1>1, <2>1, <2>2, <2>3
<1>13. ScreenOK' /\ SomeWanted' /\ editor' \in Photos \cup {None} /\ paused' \in BOOLEAN
  <2>1. CASE DiscardImage(e)
    BY <1>1, <1>3, <1>4, <2>1 DEF DiscardImage, screen, ScreenOK, SomeWanted
  <2>2. CASE OpenImage(e, c)
    <3>1. /\ editor' = photo[e] /\ setup' = "deferred" /\ attached' = TRUE /\ cover' = TRUE
          /\ coverOf' = None /\ attempts' = None /\ paused' = (pending' # <<>>)
      BY <2>2 DEF OpenImage, OpenInEditor
    <3>2. QED
      BY <1>1, <1>2, <1>3, <3>1 DEF ScreenOK, SomeWanted
  <2>3. CASE ShowError(e, c)
    BY <1>1, <1>3, <1>4, <2>3 DEF ShowError, screen, ScreenOK, SomeWanted, TypeOK
  <2>4. QED
    BY <1>1, <2>1, <2>2, <2>3
<1>14. TypeOK'
  <2>1. IsInjective(pending')
    <3>1. \A i, j \in 1 .. Len(pending') : pending'[i] = pending'[j] => i = j
      BY <1>2, Lengths
    <3>2. DOMAIN pending' = 1 .. Len(pending')
      BY <1>2
    <3>3. QED
      BY <3>1, <3>2 DEF IsInjective
  <2>2. refs' \in [Photos -> 0 .. MaxRefs]
    BY <1>12 DEF Enough
  <2>3. \A t \in Elements(pending') : t \in Slots /\ photo'[t] # None
    <3>1. ASSUME NEW t \in Elements(pending') PROVE t \in Slots /\ photo'[t] # None
      <4>1. PICK i \in 1 .. Len(pending') : t = pending'[i]
        BY <1>2 DEF Elements
      <4>2. QED
        BY <1>7, <1>8, <4>1, PhotosAssumption DEF NewestIsAccepted
    <3>2. QED
      BY <3>1
  <2>4. delayed' \subseteq Current' /\ delayed' \subseteq Elements(pending')
    BY <1>2, <1>3 DEF TypeOK, Current
  <2>5. superseded' \cup skipped' \cup asked' \subseteq Elements(pending')
    BY <1>8 DEF NewestIsAccepted
  <2>6. loading' \subseteq Photos
    BY <1>5 DEF TypeOK
  <2>7. /\ worker' \in [at : {"idle", "decoding", "done", "posted"}, slot : Slots \cup {None},
                        image : BOOLEAN]
        /\ queue' \in Seq(Slots) /\ {wanted', accepted'} \subseteq Photos \cup {None}
        /\ clicks' \in 0 .. MaxClicks
    BY <1>1 DEF TypeOK
  <2>8. dialogs' \in Seq(Slots)
    <3>1. CASE dialogs' = Append(dialogs, e)
      BY <1>2, <1>4, <3>1
    <3>2. CASE UNCHANGED dialogs
      BY <1>4, <3>2
    <3>3. QED
      BY <1>5, <3>1, <3>2
  <2>9. photo' \in [Slots -> Photos \cup {None}]
    BY <1>6 DEF Shots
  <2>10. QED
    BY <1>2, <1>13, <2>1, <2>2, <2>3, <2>4, <2>5, <2>6, <2>7, <2>8, <2>9 DEF TypeOK, ScreenOK
<1>15. QED
  BY <1>2, <1>8, <1>9, <1>10, <1>11, <1>12, <1>13, <1>14, EnoughIsHeldNext

LEMMA CloseStep == ASSUME OpeningInv, CloseDialog PROVE OpeningInv'
<1> USE DEF OpeningInv, LoadsInv
<1>0. dialogs \in Seq(Slots) /\ dialogs # <<>> /\ photo \in Shots /\ TypeOK
  BY DEF TypeOK, Shots, CloseDialog
<1>1. PICK e : e = Last(dialogs)
  OBVIOUS
<1>2. /\ dialogs' = Front(dialogs) /\ photo' = [photo EXCEPT ![e] = None]
      /\ loading' = loading \ {photo[e]} /\ refs' = Drop(refs, photo[e], 1)
      /\ paused' = (pending # <<>>)
      /\ UNCHANGED <<pending, superseded, skipped, asked, delayed, queue, worker, ended, editor,
                     setup, attached, cover, coverOf, attempts, wanted, accepted, clicks>>
  BY <1>1 DEF CloseDialog, thread, screen
<1>3. /\ dialogs' \in Seq(Slots) /\ Len(dialogs') = Len(dialogs) - 1
      /\ \A i \in 1 .. Len(dialogs) - 1 : dialogs'[i] = dialogs[i]
      /\ e \in Slots /\ e = dialogs[Len(dialogs)] /\ Len(dialogs) \in Nat /\ Len(dialogs) > 0
      /\ DOMAIN dialogs = 1 .. Len(dialogs) /\ DOMAIN dialogs' = 1 .. Len(dialogs) - 1
  <2>1. dialogs' \in Seq(Slots) /\ Len(dialogs') = Len(dialogs) - 1
    BY <1>0, <1>2, FrontOf
  <2>2. /\ \A i \in 1 .. Len(dialogs) - 1 : dialogs'[i] = dialogs[i]
        /\ e \in Slots /\ e = dialogs[Len(dialogs)]
    BY <1>0, <1>1, <1>2, FrontOf
  <2>3. Len(dialogs) \in Nat /\ Len(dialogs) > 0 /\ DOMAIN dialogs = 1 .. Len(dialogs)
    BY <1>0
  <2>4. QED
    BY <2>1, <2>2, <2>3
<1>4. photo[e] \in Photos /\ e \notin Elements(pending)
  BY <1>3 DEF DialogsHold
<1>5. \A i \in 1 .. Len(dialogs) - 1 : dialogs[i] # e /\ dialogs[i] \in Slots
  BY <1>0, <1>3 DEF DialogsHold, IsInjective
<1>6. photo' \in Shots /\ \A s \in Slots \ {e} : photo'[s] = photo[s]
  BY <1>0, <1>2 DEF Shots
<1>7. \A i \in 1 .. Len(pending) : pending[i] \in Slots \ {e}
  BY <1>4, Lengths
<1>8. /\ Elements(pending)' = Elements(pending) /\ Current' = Current /\ Waiting' = Waiting
      /\ InHand' = InHand
  BY <1>2 DEF Elements, Current, Waiting, InHand
<1>9. LoadsInLine'
  BY <1>2, <1>8 DEF LoadsInLine
<1>10. NewestIsAccepted'
  BY <1>2, <1>6, <1>7, <1>8 DEF NewestIsAccepted
<1>11. DialogsHold'
  <2>1. \A i \in 1 .. Len(dialogs) - 1 : i \in DOMAIN dialogs
    BY <1>3
  <2>2. \A i \in DOMAIN dialogs' :
           photo'[dialogs'[i]] \in Photos /\ dialogs'[i] \notin Elements(pending)'
    BY <1>3, <1>5, <1>6, <1>8, <2>1 DEF DialogsHold
  <2>3. IsInjective(dialogs')
    BY <1>3, <2>1 DEF DialogsHold, IsInjective
  <2>4. QED
    BY <2>2, <2>3 DEF DialogsHold
<1>12. SomeWanted'
  BY <1>2 DEF SomeWanted
<1>13. MarkIsCleared'
  <2>1. ASSUME NEW q \in loading' PROVE \E s \in (Current \cup Elements(dialogs))' : photo'[s] = q
    <3>1. q \in loading /\ q # photo[e]
      BY <1>2, <2>1
    <3>2. PICK s \in Current \cup Elements(dialogs) : photo[s] = q
      BY <3>1 DEF MarkIsCleared
    <3>3. s # e
      BY <3>1, <3>2
    <3>4. CASE s \in Current
      <4>1. s \in Slots
        BY <3>4, Lengths DEF Current
      <4>2. QED
        BY <1>6, <1>8, <3>2, <3>3, <3>4, <4>1
    <3>5. CASE s \in Elements(dialogs)
      <4>1. PICK i \in 1 .. Len(dialogs) : s = dialogs[i]
        BY <1>3, <3>5 DEF Elements
      <4>2. i \in 1 .. Len(dialogs) - 1
        BY <1>3, <3>3, <4>1
      <4>3. s \in Elements(dialogs)'
        BY <1>3, <4>1, <4>2 DEF Elements
      <4>4. QED
        BY <1>5, <1>6, <3>2, <3>3, <4>1, <4>2, <4>3
    <3>6. QED
      BY <3>2, <3>4, <3>5
  <2>2. QED
    BY <2>1 DEF MarkIsCleared
<1>14. PauseHasAReason'
  BY <1>2 DEF PauseHasAReason
<1>15. Enough(photo', editor', None, refs')
  BY <1>0, <1>2, <1>3, <1>4, StaysEnough, EnoughReleased
<1>16. TypeOK'
  <2>1. refs' \in [Photos -> 0 .. MaxRefs]
    BY <1>15 DEF Enough
  <2>2. superseded \cup skipped \cup asked \cup delayed \subseteq Elements(pending)
    BY DEF NewestIsAccepted, TypeOK, Current
  <2>3. \A t \in Elements(pending) : t \in Slots /\ photo'[t] # None
    BY <1>4, <1>6, <1>7, Lengths, PhotosAssumption DEF NewestIsAccepted
  <2>4. paused' \in BOOLEAN /\ loading' \subseteq Photos
    BY <1>2 DEF TypeOK
  <2>5. photo' \in [Slots -> Photos \cup {None}]
    BY <1>6 DEF Shots
  <2>6. superseded' \cup skipped' \cup asked' \cup delayed' \subseteq {s \in Slots : photo'[s] # None}
    BY <1>2, <2>2, <2>3
  <2>7. delayed' \subseteq Current' /\ IsInjective(pending)' /\ pending' \in Seq(Slots)
    BY <1>2, <1>8 DEF TypeOK, IsInjective
  <2>8. /\ queue' \in Seq(Slots)
        /\ worker' \in [at : {"idle", "decoding", "done", "posted"}, slot : Slots \cup {None},
                        image : BOOLEAN]
        /\ ended' \in Seq([slot : Slots, image : BOOLEAN])
    BY <1>2, Zenon DEF TypeOK
  <2>9. /\ editor' \in Photos \cup {None} /\ attached' \in BOOLEAN /\ cover' \in BOOLEAN
        /\ setup' \in {"none", "deferred", "waiting", "enabled", "painted", "cancelled"}
        /\ coverOf' \in Photos \cup {None} /\ attempts' \in 0 .. 3 \cup {None}
    BY <1>2, Zenon DEF TypeOK
  <2>10. {wanted', accepted'} \subseteq Photos \cup {None} /\ clicks' \in 0 .. MaxClicks
    <3>1. {wanted, accepted} \subseteq Photos \cup {None} /\ clicks \in 0 .. MaxClicks
      BY DEF TypeOK
    <3>2. wanted' = wanted /\ accepted' = accepted /\ clicks' = clicks
      BY <1>2
    <3>3. QED
      BY <3>1, <3>2
  <2>11. dialogs' \in Seq(Slots)
    BY <1>3
  <2>12. QED
    BY <2>1, <2>4, <2>5, <2>6, <2>7, <2>8, <2>9, <2>10, <2>11 DEF TypeOK
<1>17. QED
  BY <1>9, <1>10, <1>11, <1>12, <1>13, <1>14, <1>15, <1>16, EnoughIsHeldNext

-----------------------------------------------------------------------------
(* What the specification promises.                                          *)

LEMMA OpeningStep == ASSUME OpeningInv, [Next]_vars PROVE OpeningInv'
<1>1. ASSUME NEW p \in Photos, Click(p) PROVE OpeningInv'
  BY <1>1, ClickStep
<1>2. ASSUME NEW s \in Slots, DelayedStart(s) \/ LateCover(s) PROVE OpeningInv'
  BY <1>2, DelayedStep, LateCoverStep
<1>3. CASE ThreadStep
  BY <1>3, TakeStep, DecodeStep, PostEndStep, FinishStep DEF ThreadStep
<1>4. CASE ImageLoaded
  BY <1>4, CallbackStep
<1>5. CASE CloseDialog
  BY <1>5, CloseStep
<1>6. CASE SetupStep \/ Watchdog
  BY <1>6, ScreenStep, RetryStep DEF SetupStep, Watchdog
<1>7. CASE UNCHANGED vars
  <2>1. /\ UNCHANGED <<pending, photo, superseded, skipped, asked, delayed, queue, worker, ended,
                       loading, refs, editor, setup, attached, cover, coverOf, attempts, dialogs,
                       paused, wanted, accepted, clicks>>
    BY <1>7 DEF vars
  <2>2. ScreenOK' /\ SomeWanted' /\ InHand' = InHand
    BY <2>1, StaysEnough DEF ScreenOK, SomeWanted, InHand
  <2>3. /\ Enough(photo, editor, None, refs') /\ wanted' \in Photos \cup {None}
        /\ clicks' \in 0 .. MaxClicks /\ asked' \subseteq asked /\ skipped' \subseteq superseded
        /\ worker' \in WorkerStates
    BY <2>1, StaysEnough
  <2>4. QED
    BY <2>1, <2>2, <2>3, QuietStep
<1>8. QED
  BY <1>1, <1>2, <1>3, <1>4, <1>5, <1>6, <1>7 DEF Next

\* A step that opens a photo in the editor opens the one accepted last.
LEMMA OpensTheAccepted ==
    ASSUME OpeningInv, [Next]_vars PROVE editor' # editor => editor' = accepted'
<1>1. SUFFICES ASSUME editor' # editor PROVE editor' = accepted'
  OBVIOUS
<1>2. ASSUME NEW p, NEW r, NEW n, NEW delays, FileSelected(p, r, n, delays)
      PROVE  editor' = accepted'
  <2>1. ~StaysAsItIs(p) /\ accepted' = p
    BY <1>1, <1>2 DEF FileSelected
  <2>2. OpenCached(p, Take(r, p, 1))
    BY <1>1, <1>2, <2>1 DEF FileSelected, StartLoad
  <2>3. QED
    BY <2>1, <2>2 DEF OpenCached, OpenInEditor
<1>3. ASSUME NEW p \in Photos, Click(p) PROVE editor' = accepted'
  BY <1>2, <1>3 DEF Click
<1>4. CASE WatchdogRetries
  BY <1>2, <1>4 DEF WatchdogRetries
<1>5. CASE ImageLoaded
  <2>1. PICK e : /\ e = EntryOf(Head(ended)) /\ OpenImage(e, Head(ended))
                 /\ ended # <<>> /\ Forget(e) /\ ended' = Tail(ended)
                 /\ UNCHANGED <<queue, worker, accepted>>
    BY <1>1, <1>5 DEF ImageLoaded, DiscardImage, ShowError
  <2>2. e \notin superseded /\ editor' = photo[e]
    BY <2>1 DEF OpenImage, OpenInEditor
  <2>3. e = pending[1] /\ pending' = Tail(pending) /\ Len(pending') = Len(pending) - 1
        /\ pending' \in Seq(Slots)
    BY <2>1, Forgets DEF OpeningInv
  <2>4. 1 \in 1 .. Len(pending)
    <3>1. Len(pending) \in Nat /\ Len(pending') \in Nat
      BY <2>3, Lengths, LenProperties DEF OpeningInv, LoadsInv
    <3>2. QED
      BY <2>3, <3>1
  <2>5. photo[e] = accepted
    BY <2>2, <2>3, <2>4 DEF OpeningInv, LoadsInv, NewestIsAccepted
  <2>6. QED
    BY <2>1, <2>2, <2>5
<1>6. ASSUME NEW s \in Slots, DelayedStart(s) \/ LateCover(s) PROVE FALSE
  BY <1>1, <1>6 DEF DelayedStart, LateCover
<1>7. CASE ThreadStep \/ CloseDialog \/ SetupStep \/ WatchdogEnds \/ WatchdogGivesUp
  BY <1>1, <1>7 DEF ThreadStep, TakeLoad, Decode, PostEnd, FinishConnector, CloseDialog,
     SetupStep, OpenPhaseB, EnableCrop, InitialImageArrived, WatchdogEnds, WatchdogGivesUp
<1>8. CASE UNCHANGED vars
  BY <1>1, <1>8 DEF vars
<1>9. QED
  BY <1>3, <1>4, <1>5, <1>6, <1>7, <1>8 DEF Next, Watchdog

\* Whichever acts, the photos are opened by the steps of PhotoOpening.
LEMMA BothAct == [BothNext]_<<acts, vars, gateVars>> => [Next]_vars
BY DEF BothNext

LEMMA OpeningHolds == BothSpec => []OpeningInv
<1>1. BothInit => OpeningInv
  BY OpeningStarts DEF BothInit
<1>2. OpeningInv /\ [BothNext]_<<acts, vars, gateVars>> => OpeningInv'
  BY BothAct, OpeningStep
<1>3. QED
  BY <1>1, <1>2, PTL DEF BothSpec

\* A thumbnail is held as long as a load, a dialog or the editor needs it,
\* whatever was superseded, failed or was opened again.
THEOREM PhotosAreHeld == BothSpec => []HeldWhileNeeded
<1>1. OpeningInv => HeldWhileNeeded
  BY DEF OpeningInv
<1>2. QED
  BY <1>1, OpeningHolds, PTL

\* The editor opens no photo but the one accepted last.
THEOREM OnlyTheAcceptedOpens == BothSpec => OldLoadNeverOpens
<1>1. OpeningInv /\ [BothNext]_<<acts, vars, gateVars>> => [editor' # editor => editor' = accepted']_vars
  BY BothAct, OpensTheAccepted
<1>2. QED
  BY <1>1, OpeningHolds, PTL DEF BothSpec, OldLoadNeverOpens

\* imageLoaded() looks its entry up by the photo, and finds its own; at most the
\* newest load is not superseded.
THEOREM CallbacksFindTheirOwn == BothSpec => [](CallbackFindsItsOwn /\ OnlyNewestIsLive)
<1>1. OpeningInv => CallbackFindsItsOwn
  BY FindsItsOwn DEF OpeningInv
<1>2. OpeningInv => OnlyNewestIsLive
  <2>1. SUFFICES ASSUME OpeningInv, NEW s \in Current
                 PROVE  s \in IF pending = <<>> THEN {} ELSE {Last(pending)}
    BY DEF OnlyNewestIsLive
  <2>2. PICK i \in 1 .. Len(pending) : s = pending[i]
    BY <2>1, Lengths DEF Current, OpeningInv, LoadsInv
  <2>3. i = Len(pending)
    <3>1. s \notin superseded /\ Len(pending) \in Nat
      BY <2>1, Lengths DEF Current, OpeningInv, LoadsInv
    <3>2. ~(i < Len(pending))
      BY <2>1, <2>2, <3>1 DEF OpeningInv, LoadsInv, NewestIsAccepted
    <3>3. QED
      BY <3>1, <3>2
  <2>4. pending # <<>>
    BY <2>2
  <2>5. QED
    BY <2>2, <2>3, <2>4 DEF Last
<1>3. QED
  BY <1>1, <1>2, OpeningHolds, PTL

\* A mark or a pause left by a click has a load or a dialog that will take it
\* away.
THEOREM NothingIsLeftMarked == BothSpec => [](MarkIsCleared /\ PauseHasAReason)
<1>1. OpeningInv => MarkIsCleared /\ PauseHasAReason
  BY DEF OpeningInv
<1>2. QED
  BY <1>1, OpeningHolds, PTL
=============================================================================
