--------------------------- MODULE ThumbnailCacheProofs ---------------------------
(***************************************************************************)
(* Proofs about the table of open thumbnails and their counts              *)
(* (ThumbnailCache).                                                       *)
(*                                                                         *)
(* What makes the counts right is not one fact: the count of an object     *)
(* that nothing has spoiled is the number of its users; who is about to    *)
(* publish an object is its only user and the table does not know it; who  *)
(* closes one is the last, and takes it out of the table before deleting   *)
(* it; what is held is in the table under its own name.  Each of these     *)
(* needs the others, and together they are inductive (CacheInv).           *)
(***************************************************************************)
EXTENDS ThumbnailCache, FiniteSetTheorems, TLAPS

\* Where a user is says what it has.
Places ==
    \A u \in Users :
        /\ user[u].pc \in {"out", "load", "drop", "unlink"} <=> user[u].object = None
        /\ user[u].pc \in {"load", "publish", "erase", "drop", "unlink", "rename"}
               => user[u].file \in Files
        /\ user[u].pc \in {"drop", "unlink"} => u = Deleter
        /\ u = Deleter => user[u].object = None

\* What is alive has a name.
Named == \A o \in Objects : thumbnail[o].alive => thumbnail[o].fname \in Files

\* The users whose reference is counted.
Counted(o) == {u \in Users : user[u].object = o /\ user[u].pc \in {"in", "rename", "publish"}}

\* The count of a sound object is their number.
Counts == \A o \in Objects : Sound(o) => thumbnail[o].ref = Cardinality(Counted(o))

\* Nobody but the publisher knows what is about to be published.
Unpublished ==
    \A u \in Users : user[u].pc = "publish" =>
        LET o == user[u].object IN
        /\ Sound(o)
        /\ thumbnail[o].fname = user[u].file
        /\ \A v \in Users : user[v].object = o => v = u
        /\ \A f \in Files : openEntries[f] # o

\* Who closes a thumbnail is the last one, and takes it out of the table first.
Closing ==
    \A u \in Users : user[u].object # None /\ Sound(user[u].object) =>
        /\ user[u].pc \in {"close", "erase", "delete"} => thumbnail[user[u].object].ref = 0
        /\ user[u].pc = "erase" => user[u].file = thumbnail[user[u].object].fname
        /\ user[u].pc = "delete" => \A f \in Files : openEntries[f] # user[u].object

\* What is held is in the table, under its name.
Listed ==
    \A u \in Users : user[u].pc \in {"in", "rename"} /\ user[u].object # None /\ Sound(user[u].object) =>
        openEntries[thumbnail[user[u].object].fname] = user[u].object

\* What is held is alive, or was spoiled.
HeldAlive ==
    \A u \in Users : user[u].pc \in {"in", "rename"} =>
        thumbnail[user[u].object].alive \/ user[u].object \in spoiled

CacheInv ==
    TypeOK /\ Places /\ Named /\ Counts /\ Unpublished /\ Closing /\ Listed /\ HeldAlive /\ TableIsSound

\* At first nobody uses anything.
LEMMA CacheInit == ASSUME Init PROVE CacheInv
<1> USE DEF Init, Out, Freed
<1>1. TypeOK
  BY DEF TypeOK, PCs
<1>2. Places /\ Named /\ Unpublished /\ Closing /\ Listed /\ HeldAlive
  BY DEF Places, Named, Unpublished, Closing, Listed, HeldAlive, Sound
<1>3. Counts /\ TableIsSound
  BY DEF Counts, TableIsSound, Sound
<1>4. QED
  BY <1>1, <1>2, <1>3 DEF CacheInv

\* Who uses a thumbnail are finitely many.
LEMMA CountedIsFinite == ASSUME NEW o PROVE IsFiniteSet(Counted(o))
BY CacheAssumption, FS_Subset DEF Counted

\* One more user counts one more.
LEMMA OneMore ==
    ASSUME NEW o, NEW u, u \notin Counted(o), Counted(o)' = Counted(o) \cup {u}
    PROVE  Cardinality(Counted(o)') = Cardinality(Counted(o)) + 1
BY CountedIsFinite, FS_AddElement

\* One user less counts one less.
LEMMA OneLess ==
    ASSUME NEW o, NEW u, u \in Counted(o), Counted(o)' = Counted(o) \ {u}
    PROVE  /\ Cardinality(Counted(o)') = Cardinality(Counted(o)) - 1
           /\ Cardinality(Counted(o)) \in Nat \ {0}
BY CountedIsFinite, FS_RemoveElement, FS_CardinalityType, FS_EmptySet

\* Counts stay right when neither they nor the users change.
LEMMA SameCount ==
    ASSUME CacheInv, UNCHANGED <<thumbnail, spoiled>>,
           \A o \in Objects : Counted(o)' = Counted(o)
    PROVE  Counts'
BY DEF CacheInv, Counts, Sound

\* What a user moves to, as a record.
LEMMA Moved ==
    ASSUME TypeOK, NEW u \in Users, NEW a
    PROVE  [user EXCEPT ![u].pc = a]
             = [user EXCEPT ![u] = [pc |-> a, file |-> user[u].file, object |-> user[u].object]]
<1>1. user \in [Users -> [pc : PCs, file : Files \cup {None}, object : Objects \cup {None}]]
  BY DEF TypeOK
<1>2. user[u] = [pc |-> user[u].pc, file |-> user[u].file, object |-> user[u].object]
  BY <1>1
<1>3. [user[u] EXCEPT !.pc = a] = [pc |-> a, file |-> user[u].file, object |-> user[u].object]
  BY <1>2
<1>4. [user EXCEPT ![u].pc = a] = [user EXCEPT ![u] = [user[u] EXCEPT !.pc = a]]
  BY <1>1
<1>5. QED
  BY <1>3, <1>4

\* A count and a name can change.
LEMMA Recounted ==
    ASSUME TypeOK, NEW o \in Objects, NEW n \in Nat, NEW f \in Files
    PROVE  /\ [thumbnail EXCEPT ![o].ref = n] \in [Objects -> [alive : BOOLEAN, ref : Nat, fname : Files \cup {None}]]
           /\ [thumbnail EXCEPT ![o].fname = f] \in [Objects -> [alive : BOOLEAN, ref : Nat, fname : Files \cup {None}]]
           /\ thumbnail[o].ref + 1 \in Nat
           /\ thumbnail[o].ref > 1 => thumbnail[o].ref - 1 \in Nat
BY DEF TypeOK

\* The new user of a thumbnail is counted.
LEMMA JoinCounts ==
    ASSUME CacheInv, NEW u \in Users, NEW o \in Objects, user[u].object = None,
           user' = [user EXCEPT ![u] = [pc |-> "in", file |-> None, object |-> o]],
           thumbnail' = [thumbnail EXCEPT ![o].ref = @ + 1],
           spoiled' = spoiled \cup Revived(o)
    PROVE  Counts'
<1>1. ASSUME NEW q \in Objects, Sound(q)' PROVE thumbnail'[q].ref = Cardinality(Counted(q)')
  <2>1. Sound(q) /\ u \notin Counted(q) /\ thumbnail[q].ref = Cardinality(Counted(q))
    BY <1>1, CacheAssumption DEF CacheInv, TypeOK, Counts, Counted, Sound, Revived
  <2>2. CASE q = o
    <3>1. Counted(q)' = Counted(q) \cup {u}
      BY <2>2 DEF CacheInv, TypeOK, Counted
    <3>2. thumbnail'[q].ref = thumbnail[q].ref + 1
      BY <2>2 DEF CacheInv, TypeOK
    <3>3. QED
      BY <2>1, <3>1, <3>2, OneMore
  <2>3. CASE q # o
    <3>1. Counted(q)' = Counted(q)
      BY <2>3, CacheAssumption DEF CacheInv, TypeOK, Counted
    <3>2. thumbnail'[q] = thumbnail[q]
      BY <2>3 DEF CacheInv, TypeOK
    <3>3. QED
      BY <2>1, <3>1, <3>2
  <2>4. QED
    BY <2>2, <2>3
<1>2. QED
  BY <1>1 DEF Counts

\* Who closes a sound thumbnail is the only one who has it.
LEMMA LastOneCloses ==
    ASSUME CacheInv, NEW u \in Users, user[u].pc \in {"close", "erase", "delete"},
           user[u].object \in Objects, Sound(user[u].object)
    PROVE  Counted(user[u].object) = {}
<1>1. Cardinality(Counted(user[u].object)) = 0
  BY CacheAssumption DEF CacheInv, Closing, Counts
<1>2. QED
  BY <1>1, CountedIsFinite, FS_EmptySet

\* A user gets the thumbnail that the table has.
LEMMA GetOpenKeeps ==
    ASSUME CacheInv, NEW u \in Users \ {Deleter}, NEW f \in Files, GetOpen(u, f)
    PROVE  CacheInv'
<1> DEFINE o == openEntries[f]
<1>1. /\ o \in Objects /\ thumbnail[o].alive
      /\ user[u].pc = "out" /\ user[u].object = None
      /\ user' = [user EXCEPT ![u] = [pc |-> "in", file |-> None, object |-> o]]
      /\ thumbnail' = [thumbnail EXCEPT ![o].ref = @ + 1]
      /\ spoiled' = spoiled \cup Revived(o)
      /\ UNCHANGED <<openEntries, onDisk>>
  BY Moved, CacheAssumption DEF CacheInv, TypeOK, Places, At, GetOpen, IncreaseRef, In
<1>2. TypeOK'
  <2>1. user' \in [Users -> [pc : PCs, file : Files \cup {None}, object : Objects \cup {None}]]
    BY <1>1 DEF CacheInv, TypeOK, PCs
  <2>2. thumbnail' \in [Objects -> [alive : BOOLEAN, ref : Nat, fname : Files \cup {None}]]
    BY <1>1, Recounted DEF CacheInv
  <2>3. QED
    BY <1>1, <2>1, <2>2 DEF CacheInv, TypeOK, Revived
<1>3. Places'
  BY <1>1, CacheAssumption DEF CacheInv, TypeOK, Places
<1>4. Named'
  BY <1>1, CacheAssumption DEF CacheInv, TypeOK, Named
<1>5. Counts'
  BY <1>1, JoinCounts
<1>6. Unpublished'
  BY <1>1, CacheAssumption DEF CacheInv, TypeOK, Places, Unpublished, Sound, Revived
<1>7. Closing'
  BY <1>1, CacheAssumption DEF CacheInv, TypeOK, Places, Closing, Sound, Revived
<1>8. Listed'
  BY <1>1, CacheAssumption DEF CacheInv, TypeOK, Places, Named, Listed, TableIsSound, Sound
<1>9. HeldAlive'
  BY <1>1, CacheAssumption DEF CacheInv, TypeOK, Places, HeldAlive, Revived
<1>10. TableIsSound'
  BY <1>1, CacheAssumption DEF CacheInv, TypeOK, TableIsSound, Sound, Revived
<1>11. QED
  BY <1>2, <1>3, <1>4, <1>5, <1>6, <1>7, <1>8, <1>9, <1>10 DEF CacheInv

\* A user finds nothing, and sets out to load.
LEMMA GetMissingKeeps ==
    ASSUME CacheInv, NEW u \in Users \ {Deleter}, NEW f \in Files, GetMissing(u, f)
    PROVE  CacheInv'
<1>1. /\ user[u].pc = "out" /\ user[u].object = None
      /\ user' = [user EXCEPT ![u] = [pc |-> "load", file |-> f, object |-> None]]
      /\ UNCHANGED <<openEntries, thumbnail, onDisk, spoiled>>
  BY Moved, CacheAssumption DEF CacheInv, TypeOK, Places, At, GetMissing
<1>2. TypeOK'
  BY <1>1, CacheAssumption DEF CacheInv, TypeOK, PCs
<1>3. Places'
  BY <1>1, CacheAssumption DEF CacheInv, TypeOK, Places
<1>4. Named'
  BY <1>1, CacheAssumption DEF CacheInv, TypeOK, Named
<1>5. Counts'
  <2>1. \A q \in Objects : Counted(q)' = Counted(q)
    BY <1>1 DEF CacheInv, TypeOK, Counted
  <2>2. QED
    BY <1>1, <2>1, SameCount
<1>6. Unpublished'
  BY <1>1, CacheAssumption DEF CacheInv, TypeOK, Places, Unpublished, Sound
<1>7. Closing'
  BY <1>1, CacheAssumption DEF CacheInv, TypeOK, Places, Closing, Sound
<1>8. Listed'
  BY <1>1, CacheAssumption DEF CacheInv, TypeOK, Places, Named, Listed, TableIsSound, Sound
<1>9. HeldAlive'
  BY <1>1, CacheAssumption DEF CacheInv, TypeOK, Places, HeldAlive
<1>10. TableIsSound'
  BY <1>1, CacheAssumption DEF CacheInv, TypeOK, TableIsSound, Sound
<1>11. QED
  BY <1>2, <1>3, <1>4, <1>5, <1>6, <1>7, <1>8, <1>9, <1>10 DEF CacheInv

\* The file is not supported.
LEMMA ConstructFailsKeeps ==
    ASSUME CacheInv, NEW u \in Users \ {Deleter}, ConstructFails(u) PROVE CacheInv'
<1>1. /\ user[u].pc = "load" /\ user[u].object = None
      /\ user' = [user EXCEPT ![u] = [pc |-> "out", file |-> None, object |-> None]]
      /\ UNCHANGED <<openEntries, thumbnail, onDisk, spoiled>>
  BY Moved, CacheAssumption DEF CacheInv, TypeOK, Places, At, ConstructFails, Out
<1>2. TypeOK'
  BY <1>1, CacheAssumption DEF CacheInv, TypeOK, PCs
<1>3. Places'
  BY <1>1, CacheAssumption DEF CacheInv, TypeOK, Places
<1>4. Named'
  BY <1>1, CacheAssumption DEF CacheInv, TypeOK, Named
<1>5. Counts'
  <2>1. \A q \in Objects : Counted(q)' = Counted(q)
    BY <1>1 DEF CacheInv, TypeOK, Counted
  <2>2. QED
    BY <1>1, <2>1, SameCount
<1>6. Unpublished'
  BY <1>1, CacheAssumption DEF CacheInv, TypeOK, Places, Unpublished, Sound
<1>7. Closing'
  BY <1>1, CacheAssumption DEF CacheInv, TypeOK, Places, Closing, Sound
<1>8. Listed'
  BY <1>1, CacheAssumption DEF CacheInv, TypeOK, Places, Named, Listed, TableIsSound, Sound
<1>9. HeldAlive'
  BY <1>1, CacheAssumption DEF CacheInv, TypeOK, Places, HeldAlive
<1>10. TableIsSound'
  BY <1>1, CacheAssumption DEF CacheInv, TypeOK, TableIsSound, Sound
<1>11. QED
  BY <1>2, <1>3, <1>4, <1>5, <1>6, <1>7, <1>8, <1>9, <1>10 DEF CacheInv

\* A user takes a reference of its own from another one.
LEMMA ShareKeeps ==
    ASSUME CacheInv, NEW u \in Users \ {Deleter}, NEW v \in Users, Share(u, v)
    PROVE  CacheInv'
<1> DEFINE o == user[v].object
<1>1. /\ o \in Objects /\ thumbnail[o].alive
      /\ user[u].pc = "out" /\ user[u].object = None /\ user[v].pc = "in"
      /\ user' = [user EXCEPT ![u] = [pc |-> "in", file |-> None, object |-> o]]
      /\ thumbnail' = [thumbnail EXCEPT ![o].ref = @ + 1]
      /\ spoiled' = spoiled \cup Revived(o)
      /\ UNCHANGED <<openEntries, onDisk>>
  BY Moved, CacheAssumption DEF CacheInv, TypeOK, Places, At, Share, IncreaseRef, In
<1>2. TypeOK'
  <2>1. user' \in [Users -> [pc : PCs, file : Files \cup {None}, object : Objects \cup {None}]]
    BY <1>1 DEF CacheInv, TypeOK, PCs
  <2>2. thumbnail' \in [Objects -> [alive : BOOLEAN, ref : Nat, fname : Files \cup {None}]]
    <3>1. thumbnail \in [Objects -> [alive : BOOLEAN, ref : Nat, fname : Files \cup {None}]]
      BY DEF CacheInv, TypeOK
    <3>2. thumbnail[o].ref \in Nat
      BY <1>1, <3>1
    <3>3. thumbnail[o].ref + 1 \in Nat
      BY <3>2
    <3>4. QED
      BY <1>1, <3>1, <3>3
  <2>3. QED
    BY <1>1, <2>1, <2>2 DEF CacheInv, TypeOK, Revived
<1>3. Places'
  BY <1>1, CacheAssumption DEF CacheInv, TypeOK, Places
<1>4. Named'
  BY <1>1, CacheAssumption DEF CacheInv, TypeOK, Named
<1>5. Counts'
  BY <1>1, JoinCounts
<1>6. Unpublished'
  BY <1>1, CacheAssumption DEF CacheInv, TypeOK, Places, Unpublished, Sound, Revived
<1>7. Closing'
  BY <1>1, CacheAssumption DEF CacheInv, TypeOK, Places, Closing, Sound, Revived
<1>8. Listed'
  BY <1>1, CacheAssumption DEF CacheInv, TypeOK, Places, Named, Listed, TableIsSound, Sound
<1>9. HeldAlive'
  BY <1>1, CacheAssumption DEF CacheInv, TypeOK, Places, HeldAlive, Revived
<1>10. TableIsSound'
  BY <1>1, CacheAssumption DEF CacheInv, TypeOK, TableIsSound, Sound, Revived
<1>11. QED
  BY <1>2, <1>3, <1>4, <1>5, <1>6, <1>7, <1>8, <1>9, <1>10 DEF CacheInv

\* The last user reads the name under which the table has the thumbnail.
LEMMA CloseReadKeeps ==
    ASSUME CacheInv, NEW u \in Users \ {Deleter}, CloseRead(u) PROVE CacheInv'
<1>1. /\ user[u].pc = "close" /\ user[u].object \in Objects /\ thumbnail[user[u].object].alive
      /\ thumbnail[user[u].object].fname \in Files
      /\ user' = [user EXCEPT ![u] = [pc |-> "erase", file |-> thumbnail[user[u].object].fname, object |-> user[u].object]]
      /\ UNCHANGED <<openEntries, thumbnail, onDisk, spoiled>>
  BY Moved, CacheAssumption DEF CacheInv, TypeOK, Places, At, Named, CloseRead
<1>2. TypeOK'
  BY <1>1, CacheAssumption DEF CacheInv, TypeOK, PCs
<1>3. Places'
  BY <1>1, CacheAssumption DEF CacheInv, TypeOK, Places
<1>4. Named'
  BY <1>1, CacheAssumption DEF CacheInv, TypeOK, Named
<1>5. Counts'
  <2>1. \A q \in Objects : Counted(q)' = Counted(q)
    BY <1>1 DEF CacheInv, TypeOK, Counted
  <2>2. QED
    BY <1>1, <2>1, SameCount
<1>6. Unpublished'
  BY <1>1, CacheAssumption DEF CacheInv, TypeOK, Places, Unpublished, Sound
<1>7. Closing'
  BY <1>1, CacheAssumption DEF CacheInv, TypeOK, Places, Closing, Sound
<1>8. Listed'
  BY <1>1, CacheAssumption DEF CacheInv, TypeOK, Places, Named, Listed, TableIsSound, Sound
<1>9. HeldAlive'
  BY <1>1, CacheAssumption DEF CacheInv, TypeOK, Places, HeldAlive
<1>10. TableIsSound'
  BY <1>1, CacheAssumption DEF CacheInv, TypeOK, TableIsSound, Sound
<1>11. QED
  BY <1>2, <1>3, <1>4, <1>5, <1>6, <1>7, <1>8, <1>9, <1>10 DEF CacheInv

\* The entry of that name is erased; another object there is spoiled.
LEMMA CloseEraseKeeps ==
    ASSUME CacheInv, NEW u \in Users \ {Deleter}, CloseErase(u) PROVE CacheInv'
<1>1. /\ user[u].pc = "erase" /\ user[u].object \in Objects /\ thumbnail[user[u].object].alive
      /\ user[u].file \in Files
      /\ spoiled' = spoiled \cup ({openEntries[user[u].file]} \ {None, user[u].object})
      /\ openEntries' = [openEntries EXCEPT ![user[u].file] = None]
      /\ user' = [user EXCEPT ![u] = [pc |-> "delete", file |-> user[u].file, object |-> user[u].object]]
      /\ UNCHANGED <<thumbnail, onDisk>>
  BY Moved, CacheAssumption DEF CacheInv, TypeOK, Places, At, CloseErase
<1>2. TypeOK'
  BY <1>1, CacheAssumption DEF CacheInv, TypeOK, PCs
<1>3. Places'
  BY <1>1, CacheAssumption DEF CacheInv, TypeOK, Places
<1>4. Named'
  BY <1>1, CacheAssumption DEF CacheInv, TypeOK, Named
<1>5. Counts'
  <2>1. \A q \in Objects : Counted(q)' = Counted(q)
    BY <1>1 DEF CacheInv, TypeOK, Counted
  <2>2. QED
    BY <1>1, <2>1 DEF CacheInv, Counts, Sound
<1>6. Unpublished'
  BY <1>1, CacheAssumption DEF CacheInv, TypeOK, Places, Unpublished, Sound
<1>7. Closing'
  BY <1>1, CacheAssumption DEF CacheInv, TypeOK, Places, Closing, TableIsSound, Sound
<1>8. Listed'
  <2>1. ASSUME NEW v \in Users, user'[v].pc \in {"in", "rename"}, thumbnail'[user'[v].object].alive, user'[v].object \notin spoiled'
        PROVE  openEntries'[thumbnail[user'[v].object].fname] = user'[v].object
    <3>1. v # u /\ user'[v] = user[v] /\ user[v].object \in Objects /\ Sound(user[v].object)
      BY <1>1, <2>1 DEF CacheInv, TypeOK, Places, Sound
    <3>2. /\ openEntries[thumbnail[user[v].object].fname] = user[v].object
          /\ thumbnail[user[v].object].fname \in Files
      <4>1. user[v].pc \in {"in", "rename"}
        BY <2>1, <3>1
      <4>2. QED
        BY <3>1, <4>1, CacheAssumption DEF CacheInv, Listed, Named, Sound
    <3>3. user[v].object # user[u].object
      <4>1. v \in Counted(user[v].object)
        BY <2>1, <3>1 DEF Counted
      <4>2. CASE user[v].object = user[u].object
        <5>1. Sound(user[u].object)
          BY <3>1, <4>2
        <5>2. Counted(user[u].object) = {}
          BY <1>1, <5>1, LastOneCloses
        <5>3. QED
          BY <4>1, <4>2, <5>2
      <4>3. QED
        BY <4>2
    <3>4. user[v].object # openEntries[user[u].file]
      BY <1>1, <2>1, <3>1, <3>3, CacheAssumption DEF Sound
    <3>5. QED
      BY <1>1, <3>1, <3>2, <3>4 DEF CacheInv, TypeOK
  <2>2. QED
    BY <1>1, <2>1 DEF Listed, Sound
<1>9. HeldAlive'
  BY <1>1, CacheAssumption DEF CacheInv, TypeOK, Places, HeldAlive
<1>10. TableIsSound'
  BY <1>1, CacheAssumption DEF CacheInv, TypeOK, TableIsSound, Sound
<1>11. QED
  BY <1>2, <1>3, <1>4, <1>5, <1>6, <1>7, <1>8, <1>9, <1>10 DEF CacheInv

\* The object is deleted: nobody else has it, or it was spoiled.
LEMMA CloseDeleteKeeps ==
    ASSUME CacheInv, NEW u \in Users \ {Deleter}, CloseDelete(u) PROVE CacheInv'
<1>1. /\ user[u].pc = "delete" /\ user[u].object \in Objects /\ thumbnail[user[u].object].alive
      /\ thumbnail' = [thumbnail EXCEPT ![user[u].object] = [alive |-> FALSE, ref |-> 0, fname |-> None]]
      /\ user' = [user EXCEPT ![u] = [pc |-> "out", file |-> None, object |-> None]]
      /\ UNCHANGED <<openEntries, onDisk, spoiled>>
  BY Moved, CacheAssumption DEF CacheInv, TypeOK, Places, At, CloseDelete, Out, Freed
<1>2. TypeOK'
  BY <1>1, CacheAssumption DEF CacheInv, TypeOK, PCs
<1>3. Places'
  BY <1>1, CacheAssumption DEF CacheInv, TypeOK, Places
<1>4. Named'
  BY <1>1, CacheAssumption DEF CacheInv, TypeOK, Named
<1>5. Counts'
  <2>1. \A q \in Objects : Counted(q)' = Counted(q)
    BY <1>1 DEF CacheInv, TypeOK, Counted
  <2>2. \A q \in Objects : Sound(q)' => Sound(q) /\ thumbnail'[q] = thumbnail[q]
    BY <1>1 DEF CacheInv, TypeOK, Sound
  <2>3. QED
    BY <2>1, <2>2 DEF CacheInv, Counts
<1>6. Unpublished'
  BY <1>1, CacheAssumption DEF CacheInv, TypeOK, Places, Unpublished, Sound
<1>7. Closing'
  BY <1>1, CacheAssumption DEF CacheInv, TypeOK, Places, Closing, Sound
<1>8. Listed'
  <2>1. ASSUME NEW v \in Users, user'[v].pc \in {"in", "rename"}, thumbnail'[user'[v].object].alive, user'[v].object \notin spoiled'
        PROVE  openEntries[thumbnail'[user'[v].object].fname] = user'[v].object
    <3>1. v # u /\ user'[v] = user[v]
      BY <1>1, <2>1 DEF CacheInv, TypeOK
    <3>2. user[v].object \in Objects
      BY <2>1, <3>1 DEF CacheInv, TypeOK, Places
    <3>3. user[v].object # user[u].object
      BY <1>1, <2>1, <3>1 DEF CacheInv, TypeOK, Sound
    <3>4. thumbnail'[user[v].object] = thumbnail[user[v].object] /\ Sound(user[v].object)
      BY <1>1, <2>1, <3>1, <3>2, <3>3 DEF CacheInv, TypeOK, Sound
    <3>5. user[v].pc \in {"in", "rename"}
      BY <2>1, <3>1
    <3>6. openEntries[thumbnail[user[v].object].fname] = user[v].object
      BY <3>2, <3>4, <3>5, CacheAssumption DEF CacheInv, Listed
    <3>7. QED
      BY <3>1, <3>4, <3>6
  <2>2. QED
    BY <1>1, <2>1 DEF Listed, Sound
<1>9. HeldAlive'
  <2>1. ASSUME NEW v \in Users, user'[v].pc \in {"in", "rename"}
        PROVE  thumbnail'[user'[v].object].alive \/ user'[v].object \in spoiled
    <3>1. v # u /\ user'[v] = user[v]
      BY <1>1, <2>1 DEF CacheInv, TypeOK
    <3>2. CASE user[v].object = user[u].object
      <4>1. v \in Counted(user[u].object)
        BY <2>1, <3>1, <3>2 DEF Counted
      <4>2. ~Sound(user[u].object)
        BY <1>1, <4>1, LastOneCloses
      <4>3. QED
        BY <1>1, <3>1, <3>2, <4>2 DEF Sound
    <3>3. CASE user[v].object # user[u].object
      BY <1>1, <2>1, <3>1, <3>3 DEF CacheInv, TypeOK, Places, HeldAlive
    <3>4. QED
      BY <3>2, <3>3
  <2>2. QED
    BY <1>1, <2>1 DEF HeldAlive
<1>10. TableIsSound'
  BY <1>1, CacheAssumption DEF CacheInv, TypeOK, Closing, TableIsSound, Sound
<1>11. QED
  BY <1>2, <1>3, <1>4, <1>5, <1>6, <1>7, <1>8, <1>9, <1>10 DEF CacheInv

\* The deleter has a file to delete.
LEMMA RequestDeleteKeeps ==
    ASSUME CacheInv, NEW f \in Files, RequestDelete(f) PROVE CacheInv'
<1>1. /\ user[Deleter].pc = "out" /\ user[Deleter].object = None /\ Deleter \in Users
      /\ user' = [user EXCEPT ![Deleter] = [pc |-> "drop", file |-> f, object |-> None]]
      /\ UNCHANGED <<openEntries, thumbnail, onDisk, spoiled>>
  BY Moved, CacheAssumption DEF CacheInv, TypeOK, Places, At, RequestDelete
<1>2. TypeOK'
  BY <1>1, CacheAssumption DEF CacheInv, TypeOK, PCs
<1>3. Places'
  BY <1>1, CacheAssumption DEF CacheInv, TypeOK, Places
<1>4. Named'
  BY <1>1, CacheAssumption DEF CacheInv, TypeOK, Named
<1>5. Counts'
  <2>1. \A q \in Objects : Counted(q)' = Counted(q)
    BY <1>1 DEF CacheInv, TypeOK, Counted
  <2>2. QED
    BY <1>1, <2>1, SameCount
<1>6. Unpublished'
  BY <1>1, CacheAssumption DEF CacheInv, TypeOK, Places, Unpublished, Sound
<1>7. Closing'
  BY <1>1, CacheAssumption DEF CacheInv, TypeOK, Places, Closing, Sound
<1>8. Listed'
  BY <1>1, CacheAssumption DEF CacheInv, TypeOK, Places, Named, Listed, TableIsSound, Sound
<1>9. HeldAlive'
  BY <1>1, CacheAssumption DEF CacheInv, TypeOK, Places, HeldAlive
<1>10. TableIsSound'
  BY <1>1, CacheAssumption DEF CacheInv, TypeOK, TableIsSound, Sound
<1>11. QED
  BY <1>2, <1>3, <1>4, <1>5, <1>6, <1>7, <1>8, <1>9, <1>10 DEF CacheInv

\* deleteEntry() takes a reference away, which spoils the object.
LEMMA DeleteEntryKeeps ==
    ASSUME CacheInv, DeleteEntry PROVE CacheInv'
<1> DEFINE f == user[Deleter].file
<1>1. /\ user[Deleter].pc = "drop" /\ user[Deleter].object = None /\ Deleter \in Users /\ f \in Files
      /\ user' = [user EXCEPT ![Deleter] = [pc |-> "unlink", file |-> f, object |-> None]]
      /\ UNCHANGED onDisk
      /\ \/ openEntries[f] = None /\ UNCHANGED <<openEntries, thumbnail, spoiled>>
         \/ /\ openEntries[f] \in Objects /\ thumbnail[openEntries[f]].alive
            /\ spoiled' = spoiled \cup {openEntries[f]}
            /\ \/ /\ openEntries' = [openEntries EXCEPT ![f] = None]
                  /\ thumbnail' = [thumbnail EXCEPT ![openEntries[f]] = [alive |-> FALSE, ref |-> 0, fname |-> None]]
               \/ /\ thumbnail[openEntries[f]].ref > 1
                  /\ thumbnail' = [thumbnail EXCEPT ![openEntries[f]].ref = @ - 1]
                  /\ UNCHANGED openEntries
  <2>1. /\ user[Deleter].pc = "drop" /\ user[Deleter].object = None /\ Deleter \in Users /\ f \in Files
        /\ UNCHANGED onDisk
    BY CacheAssumption DEF CacheInv, Places, At, DeleteEntry
  <2>2. user' = [user EXCEPT ![Deleter] = [pc |-> "unlink", file |-> f, object |-> None]]
    BY <2>1, Moved DEF CacheInv, DeleteEntry
  <2>3. openEntries[f] \in Objects \cup {None}
    BY <2>1 DEF CacheInv, TypeOK
  <2>4. CASE openEntries[f] = None
    BY <2>1, <2>2, <2>4 DEF DeleteEntry
  <2>5. CASE openEntries[f] # None
    <3>1. CASE thumbnail[openEntries[f]].ref <= 1
      BY <2>1, <2>2, <2>3, <2>5, <3>1 DEF DeleteEntry, Freed
    <3>2. CASE thumbnail[openEntries[f]].ref > 1
      <4>1. ~(thumbnail[openEntries[f]].ref <= 1)
        BY <2>3, <2>5, <3>2 DEF CacheInv, TypeOK
      <4>2. QED
        BY <2>1, <2>2, <2>3, <2>5, <3>2, <4>1 DEF DeleteEntry
    <3>3. QED
      BY <2>3, <2>5, <3>1, <3>2 DEF CacheInv, TypeOK
  <2>6. QED
    BY <2>4, <2>5
<1>2. TypeOK'
  <2>1. user' \in [Users -> [pc : PCs, file : Files \cup {None}, object : Objects \cup {None}]]
    BY <1>1 DEF CacheInv, TypeOK, PCs
  <2>2. thumbnail' \in [Objects -> [alive : BOOLEAN, ref : Nat, fname : Files \cup {None}]]
    <3>1. thumbnail \in [Objects -> [alive : BOOLEAN, ref : Nat, fname : Files \cup {None}]]
      BY DEF CacheInv, TypeOK
    <3>2. CASE UNCHANGED thumbnail
      BY <3>1, <3>2
    <3>3. CASE openEntries[f] \in Objects /\ thumbnail' = [thumbnail EXCEPT ![openEntries[f]] = [alive |-> FALSE, ref |-> 0, fname |-> None]]
      BY <3>1, <3>3
    <3>4. CASE openEntries[f] \in Objects /\ thumbnail[openEntries[f]].ref > 1 /\ thumbnail' = [thumbnail EXCEPT ![openEntries[f]].ref = @ - 1]
      <4>1. thumbnail[openEntries[f]].ref \in Nat
        BY <3>1, <3>4
      <4>2. thumbnail[openEntries[f]].ref - 1 \in Nat
        BY <3>4, <4>1
      <4>3. QED
        BY <3>1, <3>4, <4>2
    <3>5. QED
      BY <1>1, <3>2, <3>3, <3>4
  <2>3. openEntries' \in [Files -> Objects \cup {None}] /\ spoiled' \subseteq Objects
    BY <1>1 DEF CacheInv, TypeOK
  <2>4. QED
    BY <1>1, <2>1, <2>2, <2>3 DEF CacheInv, TypeOK
<1>3. Places'
  BY <1>1, CacheAssumption DEF CacheInv, TypeOK, Places
<1>4. Named'
  BY <1>1, CacheAssumption DEF CacheInv, TypeOK, Named
<1>5. Counts'
  <2>1. \A q \in Objects : Counted(q)' = Counted(q)
    BY <1>1 DEF CacheInv, TypeOK, Counted
  <2>2. \A q \in Objects : Sound(q)' => Sound(q) /\ thumbnail'[q] = thumbnail[q]
    BY <1>1 DEF CacheInv, TypeOK, Sound
  <2>3. QED
    BY <2>1, <2>2 DEF CacheInv, Counts
<1>6. Unpublished'
  BY <1>1, CacheAssumption DEF CacheInv, TypeOK, Places, Unpublished, Sound
<1>7. Closing'
  BY <1>1, CacheAssumption DEF CacheInv, TypeOK, Places, Closing, Sound
<1>8. Listed'
  BY <1>1, CacheAssumption DEF CacheInv, TypeOK, Places, Named, Listed, TableIsSound, Sound
<1>9. HeldAlive'
  BY <1>1, CacheAssumption DEF CacheInv, TypeOK, Places, HeldAlive
<1>10. TableIsSound'
  BY <1>1, CacheAssumption DEF CacheInv, TypeOK, TableIsSound, Sound
<1>11. QED
  BY <1>2, <1>3, <1>4, <1>5, <1>6, <1>7, <1>8, <1>9, <1>10 DEF CacheInv

\* The file is deleted.
LEMMA UnlinkKeeps ==
    ASSUME CacheInv, Unlink PROVE CacheInv'
<1>1. /\ user[Deleter].pc = "unlink" /\ user[Deleter].object = None /\ Deleter \in Users
      /\ user' = [user EXCEPT ![Deleter] = [pc |-> "out", file |-> None, object |-> None]]
      /\ onDisk' \subseteq onDisk
      /\ UNCHANGED <<openEntries, thumbnail, spoiled>>
  BY Moved, CacheAssumption DEF CacheInv, TypeOK, Places, At, Unlink, Out
<1>2. TypeOK'
  BY <1>1, CacheAssumption DEF CacheInv, TypeOK, PCs
<1>3. Places'
  BY <1>1, CacheAssumption DEF CacheInv, TypeOK, Places
<1>4. Named'
  BY <1>1, CacheAssumption DEF CacheInv, TypeOK, Named
<1>5. Counts'
  <2>1. \A q \in Objects : Counted(q)' = Counted(q)
    BY <1>1 DEF CacheInv, TypeOK, Counted
  <2>2. QED
    BY <1>1, <2>1, SameCount
<1>6. Unpublished'
  BY <1>1, CacheAssumption DEF CacheInv, TypeOK, Places, Unpublished, Sound
<1>7. Closing'
  BY <1>1, CacheAssumption DEF CacheInv, TypeOK, Places, Closing, Sound
<1>8. Listed'
  BY <1>1, CacheAssumption DEF CacheInv, TypeOK, Places, Named, Listed, TableIsSound, Sound
<1>9. HeldAlive'
  BY <1>1, CacheAssumption DEF CacheInv, TypeOK, Places, HeldAlive
<1>10. TableIsSound'
  BY <1>1, CacheAssumption DEF CacheInv, TypeOK, TableIsSound, Sound
<1>11. QED
  BY <1>2, <1>3, <1>4, <1>5, <1>6, <1>7, <1>8, <1>9, <1>10 DEF CacheInv

\* The file is renamed, the entry is not yet.
LEMMA RenameFileKeeps ==
    ASSUME CacheInv, NEW g \in Files, RenameFile(g) PROVE CacheInv'
<1>1. /\ user[Browser].pc = "in" /\ user[Browser].object \in Objects /\ Browser \in Users
      /\ user' = [user EXCEPT ![Browser] = [pc |-> "rename", file |-> g, object |-> user[Browser].object]]
      /\ onDisk' \subseteq Files
      /\ UNCHANGED <<openEntries, thumbnail, spoiled>>
  BY Moved, CacheAssumption DEF CacheInv, TypeOK, Places, At, RenameFile
<1>2. TypeOK'
  BY <1>1, CacheAssumption DEF CacheInv, TypeOK, PCs
<1>3. Places'
  BY <1>1, CacheAssumption DEF CacheInv, TypeOK, Places
<1>4. Named'
  BY <1>1, CacheAssumption DEF CacheInv, TypeOK, Named
<1>5. Counts'
  <2>1. \A q \in Objects : Counted(q)' = Counted(q)
    BY <1>1 DEF CacheInv, TypeOK, Counted
  <2>2. QED
    BY <1>1, <2>1, SameCount
<1>6. Unpublished'
  BY <1>1, CacheAssumption DEF CacheInv, TypeOK, Places, Unpublished, Sound
<1>7. Closing'
  BY <1>1, CacheAssumption DEF CacheInv, TypeOK, Places, Closing, Sound
<1>8. Listed'
  BY <1>1, CacheAssumption DEF CacheInv, TypeOK, Places, Named, Listed, TableIsSound, Sound
<1>9. HeldAlive'
  BY <1>1, CacheAssumption DEF CacheInv, TypeOK, Places, HeldAlive
<1>10. TableIsSound'
  BY <1>1, CacheAssumption, Zenon DEF CacheInv, TypeOK, TableIsSound, Sound
<1>11. QED
  BY <1>2, <1>3, <1>4, <1>5, <1>6, <1>7, <1>8, <1>9, <1>10 DEF CacheInv

\* renameEntry() moves the entry to the new name, or finds that taken.
LEMMA RenameEntryKeeps ==
    ASSUME CacheInv, RenameEntry PROVE CacheInv'
<1> DEFINE b == user[Browser].object
           f == thumbnail[b].fname
           g == user[Browser].file
           o == openEntries[f]
           taken == openEntries[g]
           SoundNext(q) == thumbnail'[q].alive /\ q \notin spoiled'
<1>1. /\ user[Browser].pc = "rename" /\ b \in Objects /\ Browser \in Users /\ thumbnail[b].alive
      /\ g \in Files /\ f \in Files /\ o \in Objects \cup {None} /\ taken \in Objects \cup {None}
      /\ None \notin Objects
  BY CacheAssumption DEF CacheInv, TypeOK, Places, Named, At, RenameEntry
<1>2. /\ user' = [user EXCEPT ![Browser] = [pc |-> "in", file |-> None, object |-> b]]
      /\ UNCHANGED onDisk
  BY DEF RenameEntry, In
<1>3. /\ user'[Browser] = [pc |-> "in", file |-> None, object |-> b]
      /\ \A w \in Users \ {Browser} : user'[w] = user[w]
      /\ \A w \in Users : user'[w].object = user[w].object
      /\ user' \in [Users -> [pc : PCs, file : Files \cup {None}, object : Objects \cup {None}]]
  BY <1>1, <1>2 DEF CacheInv, TypeOK, PCs
<1>4. \A q \in Objects : Counted(q)' = Counted(q)
  BY <1>1, <1>3 DEF Counted
<1>5. Places'
  BY <1>1, <1>3 DEF CacheInv, Places
<1>6. CASE UNCHANGED <<openEntries, thumbnail, spoiled>>
  <2>1. TypeOK' /\ Named' /\ TableIsSound'
    BY <1>2, <1>3, <1>6 DEF CacheInv, TypeOK, Named, TableIsSound
  <2>2. Counts'
    BY <1>4, <1>6, SameCount
  <2>3. Unpublished'
    BY <1>3, <1>6 DEF CacheInv, Unpublished, Sound
  <2>4. Closing'
    BY <1>3, <1>6 DEF CacheInv, Closing, Sound
  <2>5. Listed' /\ HeldAlive'
    BY <1>1, <1>3, <1>6, SMTT(20), ZenonT(20) DEF CacheInv, Listed, HeldAlive, Sound
  <2>6. QED
    BY <1>5, <2>1, <2>2, <2>3, <2>4, <2>5 DEF CacheInv
<1>7. CASE /\ o # None /\ thumbnail[o].alive
           /\ openEntries' = [openEntries EXCEPT ![f] = None, ![g] = IF taken = None THEN o ELSE taken]
           /\ thumbnail' = [thumbnail EXCEPT ![o].fname = g]
           /\ spoiled' = spoiled \cup (IF taken = None THEN {} ELSE {o, taken}) \cup ({o} \ {b})
  <2>1. /\ \A x \in Files \ {f, g} : openEntries'[x] = openEntries[x]
        /\ openEntries'[g] = IF taken = None THEN o ELSE taken
        /\ f # g => openEntries'[f] = None
        /\ openEntries' \in [Files -> Objects \cup {None}]
    BY <1>1, <1>7 DEF CacheInv, TypeOK
  <2>2. /\ \A q \in Objects \ {o} : thumbnail'[q] = thumbnail[q]
        /\ thumbnail'[o].alive = thumbnail[o].alive /\ thumbnail'[o].ref = thumbnail[o].ref
        /\ thumbnail'[o].fname = g
    BY <1>1, <1>7 DEF CacheInv, TypeOK
  <2>3. /\ \A q \in Objects : SoundNext(q) => Sound(q) /\ (q = o => o = b /\ taken = None) /\ q # taken
        /\ f = g => taken = o
    BY <1>1, <1>7, <2>2 DEF Sound
  <2>4. TypeOK'
    <3>1. thumbnail' \in [Objects -> [alive : BOOLEAN, ref : Nat, fname : Files \cup {None}]]
      BY <1>1, <1>7, Recounted DEF CacheInv
    <3>2. spoiled' \subseteq Objects
      BY <1>1, <1>7, Zenon DEF CacheInv, TypeOK
    <3>3. QED
      BY <1>2, <1>3, <2>1, <3>1, <3>2 DEF CacheInv, TypeOK
  <2>5. Named' /\ Counts'
    <3>1. Named'
      <4>1. g \in Files
        BY <1>1
      <4>2. ASSUME NEW q \in Objects, thumbnail'[q].alive PROVE thumbnail'[q].fname \in Files
        <5>1. CASE q = o
          BY <2>2, <4>1, <5>1, Zenon
        <5>2. CASE q # o
          <6>1. thumbnail'[q] = thumbnail[q]
            BY <2>2, <5>2, Zenon
          <6>2. QED
            BY <4>2, <6>1, Zenon DEF CacheInv, Named
        <5>3. QED
          BY <5>1, <5>2
      <4>3. QED
        BY <4>2, Zenon DEF Named
    <3>2. Counts'
      BY <1>4, <2>2, <2>3, ZenonT(30) DEF CacheInv, Counts, Sound
    <3>3. QED
      BY <3>1, <3>2, Zenon
  <2>6. Unpublished'
    <3>1. ASSUME NEW v \in Users, user'[v].pc = "publish"
          PROVE  LET m == user'[v].object IN
                 /\ SoundNext(user'[v].object)
                 /\ thumbnail'[m].fname = user'[v].file
                 /\ \A w \in Users : user'[w].object = m => w = v
                 /\ \A x \in Files : openEntries'[x] # m
      <4>1. v # Browser /\ user'[v] = user[v] /\ user[v].object \in Objects
        BY <1>3, <3>1 DEF CacheInv, TypeOK, Places
      <4>2. user[v].object # o /\ user[v].object # taken /\ Sound(user[v].object)
        BY <1>1, <1>7, <3>1, <4>1 DEF CacheInv, Unpublished
      <4> DEFINE m == user[v].object
      <4>3. thumbnail'[m] = thumbnail[m]
        BY <2>2, <4>1, <4>2, Zenon
      <4>4. m \notin spoiled'
        BY <1>7, <4>2 DEF Sound
      <4>5. SoundNext(m)
        BY <4>2, <4>3, <4>4 DEF Sound
      <4>6. /\ thumbnail[m].fname = user[v].file
            /\ \A w \in Users : user[w].object = m => w = v
            /\ \A x \in Files : openEntries[x] # m
        BY <3>1, <4>1 DEF CacheInv, Unpublished
      <4>7. \A x \in Files : openEntries'[x] # m
        BY <1>1, <2>1, <4>1, <4>2, <4>6
      <4>8. \A w \in Users : user'[w].object = m => w = v
        BY <1>3, <4>6
      <4>9. QED
        BY <4>1, <4>3, <4>5, <4>6, <4>7, <4>8
    <3>2. QED
      BY <1>3, <3>1 DEF Unpublished, Sound
  <2>7. Closing'
    <3>1. ASSUME NEW v \in Users, user[v].object # None, SoundNext(user[v].object), user[v].pc \in {"close", "erase", "delete"}
          PROVE  user[v].object # o /\ Sound(user[v].object) /\ v # Browser /\ user[v].object \in Objects
      <4>1. user[v].object \in Objects /\ Sound(user[v].object) /\ v # Browser
        BY <1>1, <1>3, <2>3, <3>1 DEF CacheInv, TypeOK
      <4>2. b # user[v].object
        <5>1. Browser \in Counted(b)
          BY <1>1 DEF Counted
        <5>2. QED
          BY <3>1, <4>1, <5>1, LastOneCloses
      <4>3. QED
        BY <2>3, <3>1, <4>1, <4>2
    <3>2. ASSUME NEW v \in Users, user'[v].object # None, SoundNext(user'[v].object)
          PROVE  /\ user'[v].pc \in {"close", "erase", "delete"} => thumbnail'[user'[v].object].ref = 0
                 /\ user'[v].pc = "erase" => user'[v].file = thumbnail'[user'[v].object].fname
                 /\ user'[v].pc = "delete" => \A x \in Files : openEntries'[x] # user'[v].object
      <4>1. CASE v = Browser
        BY <1>3, <4>1
      <4>2. CASE v # Browser /\ user[v].pc \in {"close", "erase", "delete"}
        <5>1. /\ user'[v] = user[v]
              /\ user[v].object # o
              /\ Sound(user[v].object)
              /\ user[v].object \in Objects
              /\ user[v].object # None
          BY <1>3, <3>1, <3>2, <4>2
        <5>2. user[v].object # taken
          BY <2>3, <3>2, <5>1
        <5>3. /\ thumbnail[user[v].object].ref = 0
              /\ user[v].pc = "erase" => user[v].file = thumbnail[user[v].object].fname
              /\ user[v].pc = "delete" => \A x \in Files : openEntries[x] # user[v].object
          BY <4>2, <5>1, Zenon DEF CacheInv, Closing
        <5>4. thumbnail'[user[v].object] = thumbnail[user[v].object]
          BY <2>2, <5>1
        <5>5. user[v].pc = "delete" => \A x \in Files : openEntries'[x] # user[v].object
          BY <1>1, <2>1, <5>1, <5>2, <5>3
        <5>6. QED
          BY <5>1, <5>3, <5>4, <5>5
      <4>3. CASE v # Browser /\ user[v].pc \notin {"close", "erase", "delete"}
        BY <1>3, <4>3
      <4>4. QED
        BY <4>1, <4>2, <4>3
    <3>3. QED
      BY <1>3, <3>2 DEF Closing, Sound
  <2>8. Listed'
    <3>1. ASSUME NEW v \in Users, user'[v].pc \in {"in", "rename"}, SoundNext(user'[v].object)
          PROVE  openEntries'[thumbnail'[user'[v].object].fname] = user'[v].object
      <4> DEFINE q == user[v].object
      <4>1. /\ user[v].pc \in {"in", "rename"}
            /\ user'[v].object = q
            /\ q \in Objects
            /\ SoundNext(q)
        BY <1>1, <1>3, <3>1 DEF CacheInv, TypeOK, Places
      <4>2. Sound(q) /\ (q = o => taken = None) /\ q # taken
        BY <2>3, <3>1, <4>1
      <4>3. openEntries[thumbnail[q].fname] = q /\ thumbnail[q].fname \in Files
        BY <1>1, <4>1, <4>2 DEF CacheInv, Listed, Named, Sound
      <4>4. CASE q = o
        <5>1. openEntries'[g] = o /\ thumbnail'[q].fname = g
          BY <2>1, <2>2, <4>2, <4>4
        <5>2. QED
          BY <4>1, <4>4, <5>1, Zenon
      <4>5. CASE q # o
        <5>1. thumbnail'[q] = thumbnail[q]
          BY <2>2, <4>1, <4>5
        <5>2. thumbnail[q].fname \notin {f, g}
          BY <4>2, <4>3, <4>5
        <5>3. openEntries'[thumbnail[q].fname] = q
          BY <2>1, <4>3, <5>2
        <5>4. QED
          BY <4>1, <5>1, <5>3, Zenon
      <4>6. QED
        BY <4>4, <4>5
    <3>2. QED
      BY <1>3, <3>1 DEF Listed, Sound
  <2>9. HeldAlive'
    <3>1. ASSUME NEW v \in Users, user'[v].pc \in {"in", "rename"}
          PROVE  thumbnail'[user'[v].object].alive \/ user'[v].object \in spoiled'
      <4>1. /\ user[v].pc \in {"in", "rename"}
            /\ user'[v].object = user[v].object
            /\ user[v].object \in Objects
        BY <1>1, <1>3, <3>1 DEF CacheInv, TypeOK, Places
      <4>2. thumbnail[user[v].object].alive \/ user[v].object \in spoiled
        BY <4>1 DEF CacheInv, HeldAlive
      <4>3. QED
        BY <1>7, <2>2, <4>1, <4>2, ZenonT(30)
    <3>2. QED
      BY <3>1, Zenon DEF HeldAlive
  <2>10. TableIsSound'
    <3>1. ASSUME NEW x \in Files, openEntries'[x] # None, openEntries'[x] \notin spoiled'
          PROVE  thumbnail'[openEntries'[x]].alive /\ thumbnail'[openEntries'[x]].fname = x
      <4>1. CASE x = g
        BY <1>1, <1>7, <2>1, <2>2, <3>1, <4>1
      <4>2. CASE x # g
        <5>1. x # f /\ openEntries'[x] = openEntries[x]
          BY <1>1, <2>1, <3>1, <4>2, Zenon
        <5>2. openEntries[x] \in Objects /\ openEntries[x] \notin spoiled
          BY <1>7, <3>1, <5>1 DEF CacheInv, TypeOK
        <5>3. thumbnail[openEntries[x]].alive /\ thumbnail[openEntries[x]].fname = x
          BY <5>2, CacheAssumption DEF CacheInv, TableIsSound
        <5>4. openEntries[x] # o
          BY <1>1, <1>7, <5>1, <5>2, <5>3 DEF CacheInv, TableIsSound
        <5>5. QED
          BY <2>2, <5>1, <5>2, <5>3, <5>4
      <4>3. QED
        BY <4>1, <4>2
    <3>2. QED
      BY <3>1 DEF TableIsSound
  <2>11. QED
    BY <1>5, <2>4, <2>5, <2>6, <2>7, <2>8, <2>9, <2>10 DEF CacheInv
<1>8. QED
  BY <1>1, <1>6, <1>7 DEF RenameEntry

\* A file appears on the disk.
LEMMA FileAppearsKeeps ==
    ASSUME CacheInv, NEW f \in Files, FileAppears(f) PROVE CacheInv'
<1>1. /\ onDisk' \subseteq Files
      /\ UNCHANGED <<openEntries, thumbnail, user, spoiled>>
  BY Moved, CacheAssumption DEF CacheInv, TypeOK, FileAppears
<1>2. TypeOK'
  BY <1>1, CacheAssumption DEF CacheInv, TypeOK, PCs
<1>3. Places'
  BY <1>1, CacheAssumption DEF CacheInv, TypeOK, Places
<1>4. Named'
  BY <1>1, CacheAssumption DEF CacheInv, TypeOK, Named
<1>5. Counts'
  <2>1. \A q \in Objects : Counted(q)' = Counted(q)
    BY <1>1 DEF CacheInv, TypeOK, Counted
  <2>2. QED
    BY <1>1, <2>1, SameCount
<1>6. Unpublished'
  BY <1>1, CacheAssumption DEF CacheInv, TypeOK, Places, Unpublished, Sound
<1>7. Closing'
  BY <1>1, CacheAssumption DEF CacheInv, TypeOK, Places, Closing, Sound
<1>8. Listed'
  BY <1>1, CacheAssumption DEF CacheInv, TypeOK, Places, Named, Listed, TableIsSound, Sound
<1>9. HeldAlive'
  BY <1>1, CacheAssumption DEF CacheInv, TypeOK, Places, HeldAlive
<1>10. TableIsSound'
  BY <1>1, CacheAssumption DEF CacheInv, TypeOK, TableIsSound, Sound
<1>11. QED
  BY <1>2, <1>3, <1>4, <1>5, <1>6, <1>7, <1>8, <1>9, <1>10 DEF CacheInv

\* A fresh object is known to its maker only.
LEMMA ConstructKeeps ==
    ASSUME CacheInv, NEW u \in Users \ {Deleter}, Construct(u) PROVE CacheInv'
<1> DEFINE f == user[u].file
<1>1. /\ user[u].pc = "load" /\ user[u].object = None /\ f \in Files
      /\ UNCHANGED <<openEntries, onDisk>>
  BY DEF CacheInv, Places, At, Construct
<1>2. PICK o \in Objects :
        /\ ~thumbnail[o].alive
        /\ Referrers(o) = {}
        /\ \A x \in Files : openEntries[x] # o
        /\ thumbnail' = [thumbnail EXCEPT ![o] = [alive |-> TRUE, ref |-> 1, fname |-> f]]
        /\ user' = [user EXCEPT ![u] = [pc |-> "publish", file |-> user[u].file, object |-> o]]
        /\ spoiled' = spoiled \ {o}
  BY DEF Construct
<1>3. /\ user'[u] = [pc |-> "publish", file |-> f, object |-> o]
      /\ \A v \in Users \ {u} : user'[v] = user[v]
      /\ \A v \in Users : user[v].object # o
      /\ user' \in [Users -> [pc : PCs, file : Files \cup {None}, object : Objects \cup {None}]]
  BY <1>1, <1>2 DEF CacheInv, TypeOK, PCs, Referrers
<1>4. /\ thumbnail'[o] = [alive |-> TRUE, ref |-> 1, fname |-> f]
      /\ \A q \in Objects \ {o} : thumbnail'[q] = thumbnail[q]
      /\ thumbnail' \in [Objects -> [alive : BOOLEAN, ref : Nat, fname : Files \cup {None}]]
  BY <1>1, <1>2 DEF CacheInv, TypeOK
<1>5. TypeOK'
  BY <1>1, <1>2, <1>3, <1>4 DEF CacheInv, TypeOK
<1>6. Places'
  BY <1>1, <1>2, <1>3, CacheAssumption DEF CacheInv, Places
<1>7. Named'
  BY <1>1, <1>4 DEF CacheInv, Named
<1>8. Counts'
  <2>1. ASSUME NEW q \in Objects, Sound(q)'
        PROVE  thumbnail'[q].ref = Cardinality(Counted(q)')
    <3>1. CASE q = o
      <4>1. Counted(q)' = {u}
        BY <1>3, <3>1 DEF Counted
      <4>2. Cardinality({u}) = 1
        BY FS_Singleton
      <4>3. thumbnail'[q].ref = 1
        BY <1>4, <3>1
      <4>4. QED
        BY <4>1, <4>2, <4>3
    <3>2. CASE q # o
      <4>1. Counted(q)' = Counted(q)
        BY <1>1, <1>3, <3>2 DEF Counted
      <4>2. Sound(q) /\ thumbnail'[q] = thumbnail[q]
        BY <1>2, <1>4, <2>1, <3>2 DEF Sound
      <4>3. QED
        BY <4>1, <4>2 DEF CacheInv, Counts
    <3>3. QED
      BY <3>1, <3>2
  <2>2. QED
    BY <2>1 DEF Counts
<1>9. Unpublished'
  BY <1>1, <1>2, <1>3, <1>4 DEF CacheInv, TypeOK, Places, Unpublished, Sound
<1>10. Closing'
  BY <1>1, <1>2, <1>3, <1>4 DEF CacheInv, TypeOK, Closing, Sound
<1>11. Listed'
  BY <1>1, <1>2, <1>3, <1>4 DEF CacheInv, TypeOK, Listed, Sound
<1>12. HeldAlive'
  BY <1>1, <1>2, <1>3, <1>4 DEF CacheInv, TypeOK, Places, HeldAlive
<1>13. TableIsSound'
  BY <1>1, <1>2, <1>4 DEF CacheInv, TypeOK, TableIsSound
<1>14. QED
  BY <1>5, <1>6, <1>7, <1>8, <1>9, <1>10, <1>11, <1>12, <1>13 DEF CacheInv

\* The thumbnail enters the table.
LEMMA PublishMineKeeps ==
    ASSUME CacheInv, NEW u \in Users \ {Deleter}, Publish(u),
           openEntries[user[u].file] = None
    PROVE  CacheInv'
<1> DEFINE f == user[u].file
           mine == user[u].object
<1>1. /\ user[u].pc = "publish" /\ mine \in Objects /\ f \in Files /\ None \notin Objects
      /\ openEntries' = [openEntries EXCEPT ![f] = mine]
      /\ user' = [user EXCEPT ![u] = [pc |-> "in", file |-> None, object |-> mine]]
      /\ UNCHANGED <<thumbnail, spoiled, onDisk>>
  BY CacheAssumption DEF CacheInv, TypeOK, Places, At, Publish, In
<1>2. /\ Sound(mine) /\ thumbnail[mine].fname = f
      /\ \A v \in Users \ {u} : user[v].object # mine
  BY <1>1 DEF CacheInv, Unpublished
<1>3. /\ user'[u] = [pc |-> "in", file |-> None, object |-> mine]
      /\ \A v \in Users \ {u} : user'[v] = user[v]
      /\ user' \in [Users -> [pc : PCs, file : Files \cup {None}, object : Objects \cup {None}]]
  BY <1>1 DEF CacheInv, TypeOK, PCs
<1>4. /\ openEntries'[f] = mine
      /\ \A x \in Files \ {f} : openEntries'[x] = openEntries[x]
      /\ openEntries' \in [Files -> Objects \cup {None}]
  BY <1>1 DEF CacheInv, TypeOK
<1>5. TypeOK'
  BY <1>1, <1>3, <1>4 DEF CacheInv, TypeOK
<1>6. Places'
  BY <1>1, <1>3 DEF CacheInv, Places
<1>7. Named'
  BY <1>1 DEF CacheInv, Named
<1>8. Counts'
  <2>1. \A q \in Objects : Counted(q)' = Counted(q)
    BY <1>1, <1>3 DEF Counted
  <2>2. QED
    BY <1>1, <2>1, SameCount
<1>9. Unpublished'
  BY <1>1, <1>2, <1>3, <1>4 DEF CacheInv, Unpublished, Sound
<1>10. Closing'
  BY <1>1, <1>2, <1>3, <1>4 DEF CacheInv, TypeOK, Closing, Sound
<1>11. Listed'
  <2>1. ASSUME NEW v \in Users, user'[v].pc \in {"in", "rename"}, user'[v].object # None,
               Sound(user'[v].object)
        PROVE  openEntries'[thumbnail[user'[v].object].fname] = user'[v].object
    <3>1. CASE v = u
      BY <1>2, <1>3, <1>4, <3>1
    <3>2. CASE v # u
      <4>1. user[v].object \in Objects /\ user'[v] = user[v]
        BY <1>3, <2>1, <3>2 DEF CacheInv, TypeOK
      <4>2. openEntries[thumbnail[user[v].object].fname] = user[v].object
            /\ thumbnail[user[v].object].fname \in Files
        BY <1>1, <2>1, <4>1 DEF CacheInv, Listed, Named, Sound
      <4>3. QED
        BY <1>1, <1>4, <4>1, <4>2
    <3>3. QED
      BY <3>1, <3>2
  <2>2. QED
    BY <1>1, <2>1 DEF Listed, Sound
<1>12. HeldAlive'
  BY <1>1, <1>2, <1>3 DEF CacheInv, HeldAlive, Sound
<1>13. TableIsSound'
  BY <1>1, <1>2, <1>4 DEF CacheInv, TypeOK, TableIsSound, Sound
<1>14. QED
  BY <1>5, <1>6, <1>7, <1>8, <1>9, <1>10, <1>11, <1>12, <1>13 DEF CacheInv

\* The thumbnail gives way to the one the table has.
LEMMA PublishOtherKeeps ==
    ASSUME CacheInv, NEW u \in Users \ {Deleter}, Publish(u),
           openEntries[user[u].file] # None
    PROVE  CacheInv'
<1> DEFINE f == user[u].file
           mine == user[u].object
           o == openEntries[f]
           SoundNext(q) == thumbnail'[q].alive /\ q \notin spoiled'
<1>1. /\ user[u].pc = "publish" /\ mine \in Objects /\ f \in Files /\ None \notin Objects
      /\ o \in Objects /\ thumbnail[o].alive
      /\ thumbnail' = [[thumbnail EXCEPT ![o].ref = @ + 1] EXCEPT ![mine] = Freed]
      /\ user' = [user EXCEPT ![u] = [pc |-> "in", file |-> None, object |-> o]]
      /\ spoiled' = spoiled \cup Revived(o)
      /\ UNCHANGED <<openEntries, onDisk>>
  BY CacheAssumption DEF CacheInv, TypeOK, Places, At, Publish, In, IncreaseRef
<1>2. /\ \A v \in Users \ {u} : user[v].object # mine
      /\ \A x \in Files : openEntries[x] # mine
      /\ mine # o
  BY <1>1 DEF CacheInv, Unpublished
<1>3. /\ user'[u] = [pc |-> "in", file |-> None, object |-> o]
      /\ \A v \in Users \ {u} : user'[v] = user[v]
      /\ user' \in [Users -> [pc : PCs, file : Files \cup {None}, object : Objects \cup {None}]]
  BY <1>1, Zenon DEF CacheInv, TypeOK, PCs
<1>4. /\ ~thumbnail'[mine].alive
      /\ thumbnail'[mine] = [alive |-> FALSE, ref |-> 0, fname |-> None]
      /\ thumbnail'[o].alive /\ thumbnail'[o].fname = thumbnail[o].fname
      /\ thumbnail'[o].ref = thumbnail[o].ref + 1
      /\ \A q \in Objects \ {o, mine} : thumbnail'[q] = thumbnail[q]
      /\ thumbnail' \in [Objects -> [alive : BOOLEAN, ref : Nat, fname : Files \cup {None}]]
  <2>1. thumbnail \in [Objects -> [alive : BOOLEAN, ref : Nat, fname : Files \cup {None}]]
    BY DEF CacheInv, TypeOK
  <2>2. thumbnail[o].ref \in Nat
    BY <1>1, <2>1
  <2>3. thumbnail[o].ref + 1 \in Nat
    BY <2>2
  <2>4. QED
    BY <1>1, <1>2, <2>1, <2>3, ZenonT(30) DEF Freed
<1>5. \A q \in Objects : SoundNext(q) =>
          /\ Sound(q) /\ q # mine
          /\ q = o => thumbnail[q].ref # 0
  <2>1. ASSUME NEW q \in Objects, SoundNext(q) PROVE Sound(q) /\ q # mine
    <3>1. q # mine /\ q \notin spoiled
      BY <1>1, <1>4, <2>1
    <3>2. thumbnail[q].alive
      BY <1>1, <1>4, <2>1, <3>1
    <3>3. QED
      BY <3>1, <3>2 DEF Sound
  <2>2. ASSUME SoundNext(o) PROVE thumbnail[o].ref # 0
    BY <1>1, <2>2, Zenon DEF Revived
  <2>3. QED
    BY <2>1, <2>2
<1>6. TypeOK'
  BY <1>1, <1>3, <1>4, ZenonT(30) DEF CacheInv, TypeOK, Revived
<1>7. Places'
  BY <1>1, <1>3 DEF CacheInv, Places
<1>8. Named'
  <2>1. ASSUME NEW q \in Objects, thumbnail'[q].alive PROVE thumbnail'[q].fname \in Files
    <3>1. q # mine
      BY <1>4, <2>1
    <3>2. CASE q = o
      BY <1>1, <1>4, <3>2 DEF CacheInv, Named
    <3>3. CASE q # o
      <4>1. thumbnail'[q] = thumbnail[q]
        BY <1>4, <3>1, <3>3
      <4>2. QED
        BY <2>1, <4>1 DEF CacheInv, Named
    <3>4. QED
      BY <3>2, <3>3
  <2>2. QED
    BY <2>1 DEF Named
<1>9. Counts'
  <2>1. ASSUME NEW q \in Objects, SoundNext(q)
        PROVE  thumbnail'[q].ref = Cardinality(Counted(q)')
    <3>1. q # mine /\ thumbnail[q].ref = Cardinality(Counted(q))
      BY <1>5, <2>1 DEF CacheInv, Counts
    <3>2. CASE q = o
      <4>1. Counted(q)' = Counted(q) \cup {u} /\ u \notin Counted(q)
        BY <1>1, <1>2, <1>3, <3>2 DEF Counted
      <4>2. thumbnail'[q].ref = thumbnail[q].ref + 1
        BY <1>4, <3>2
      <4>3. QED
        BY <3>1, <4>1, <4>2, OneMore
    <3>3. CASE q # o
      <4>1. Counted(q)' = Counted(q)
        BY <1>1, <1>2, <1>3, <3>1, <3>3 DEF Counted
      <4>2. thumbnail'[q] = thumbnail[q]
        BY <1>4, <3>1, <3>3
      <4>3. QED
        BY <3>1, <4>1, <4>2
    <3>4. QED
      BY <3>2, <3>3
  <2>2. QED
    BY <2>1 DEF Counts, Sound
<1>10. Unpublished'
  <2>1. ASSUME NEW v \in Users, user'[v].pc = "publish"
        PROVE  /\ SoundNext(user'[v].object)
               /\ thumbnail'[user'[v].object].fname = user'[v].file
               /\ \A w \in Users : user'[w].object = user'[v].object => w = v
               /\ \A x \in Files : openEntries'[x] # user'[v].object
    <3>1. v # u /\ user'[v] = user[v] /\ user[v].object \in Objects
      BY <1>3, <2>1 DEF CacheInv, TypeOK, Places
    <3>2. /\ Sound(user[v].object) /\ thumbnail[user[v].object].fname = user[v].file
          /\ \A w \in Users : user[w].object = user[v].object => w = v
          /\ \A x \in Files : openEntries[x] # user[v].object
      BY <2>1, <3>1 DEF CacheInv, Unpublished
    <3>3. user[v].object \notin {o, mine}
      BY <1>1, <1>2, <3>1, <3>2
    <3>4. thumbnail'[user[v].object] = thumbnail[user[v].object]
      BY <1>4, <3>1, <3>3, Zenon
    <3>5. SoundNext(user[v].object)
      BY <1>1, <3>2, <3>3, <3>4 DEF Sound, Revived
    <3>6. \A w \in Users : user'[w].object = user[v].object => w = v
      BY <1>3, <3>2, <3>3
    <3>7. QED
      BY <1>1, <3>1, <3>2, <3>4, <3>5, <3>6
  <2>2. QED
    BY <2>1, Zenon DEF Unpublished, Sound
<1>11. Closing'
  <2>1. ASSUME NEW v \in Users, user'[v].object # None, SoundNext(user'[v].object)
        PROVE  /\ user'[v].pc \in {"close", "erase", "delete"} => thumbnail'[user'[v].object].ref = 0
               /\ user'[v].pc = "erase" => user'[v].file = thumbnail'[user'[v].object].fname
               /\ user'[v].pc = "delete" => \A x \in Files : openEntries'[x] # user'[v].object
    <3>1. CASE v = u
      BY <1>3, <3>1
    <3>2. CASE v # u
      <4>1. user'[v] = user[v] /\ user[v].object \in Objects
        BY <1>3, <2>1, <3>2 DEF CacheInv, TypeOK
      <4>2. /\ Sound(user[v].object) /\ user[v].object # mine
            /\ user[v].object = o => thumbnail[user[v].object].ref # 0
        BY <1>5, <2>1, <4>1
      <4>3. /\ user[v].pc \in {"close", "erase", "delete"} => thumbnail[user[v].object].ref = 0
            /\ user[v].pc = "erase" => user[v].file = thumbnail[user[v].object].fname
            /\ user[v].pc = "delete" => \A x \in Files : openEntries[x] # user[v].object
        BY <2>1, <4>1, <4>2 DEF CacheInv, Closing
      <4>4. CASE user[v].object = o
        BY <4>1, <4>2, <4>3, <4>4, Zenon
      <4>5. CASE user[v].object # o
        <5>1. thumbnail'[user[v].object] = thumbnail[user[v].object]
          BY <1>4, <4>1, <4>2, <4>5
        <5>2. QED
          BY <1>1, <4>1, <4>3, <5>1, ZenonT(30)
      <4>6. QED
        BY <4>4, <4>5
    <3>3. QED
      BY <3>1, <3>2
  <2>2. QED
    BY <2>1 DEF Closing, Sound
<1>12. Listed'
  <2>1. ASSUME NEW v \in Users, user'[v].pc \in {"in", "rename"}, user'[v].object # None,
               SoundNext(user'[v].object)
        PROVE  openEntries[thumbnail'[user'[v].object].fname] = user'[v].object
    <3>1. CASE v = u
      <4>1. user'[v].object = o /\ Sound(o)
        BY <1>1, <1>3, <1>5, <2>1, <3>1
      <4>2. thumbnail[o].fname = f
        BY <1>1, <4>1 DEF CacheInv, TableIsSound, Sound
      <4>3. QED
        BY <1>4, <4>1, <4>2
    <3>2. CASE v # u
      <4>1. user'[v] = user[v] /\ user[v].object \in Objects
        BY <1>3, <2>1, <3>2 DEF CacheInv, TypeOK
      <4>2. Sound(user[v].object) /\ user[v].object # mine
        BY <1>5, <2>1, <4>1
      <4>3. openEntries[thumbnail[user[v].object].fname] = user[v].object
        BY <2>1, <4>1, <4>2 DEF CacheInv, Listed
      <4>4. thumbnail'[user[v].object].fname = thumbnail[user[v].object].fname
        BY <1>4, <4>1, <4>2
      <4>5. QED
        BY <4>1, <4>3, <4>4
    <3>3. QED
      BY <3>1, <3>2
  <2>2. QED
    BY <1>1, <2>1 DEF Listed, Sound
<1>13. HeldAlive'
  <2>1. ASSUME NEW v \in Users, user'[v].pc \in {"in", "rename"}
        PROVE  thumbnail'[user'[v].object].alive \/ user'[v].object \in spoiled'
    <3>1. CASE v = u
      BY <1>3, <1>4, <3>1
    <3>2. CASE v # u
      <4>1. user'[v] = user[v] /\ user[v].object \in Objects \ {mine}
        BY <1>2, <1>3, <2>1, <3>2 DEF CacheInv, TypeOK, Places
      <4>2. thumbnail[user[v].object].alive \/ user[v].object \in spoiled
        BY <2>1, <4>1 DEF CacheInv, HeldAlive
      <4>3. CASE user[v].object = o
        BY <1>4, <4>1, <4>3
      <4>4. CASE user[v].object # o
        <5>1. thumbnail'[user[v].object] = thumbnail[user[v].object]
          BY <1>4, <4>1, <4>4
        <5>2. user[v].object \in spoiled => user[v].object \in spoiled'
          BY <1>1
        <5>3. thumbnail'[user[v].object].alive \/ user[v].object \in spoiled'
          BY <4>2, <5>1, <5>2
        <5>4. user'[v].object = user[v].object
          BY <4>1, Zenon
        <5>5. QED
          BY <5>3, <5>4
      <4>5. QED
        BY <4>3, <4>4
    <3>3. QED
      BY <3>1, <3>2
  <2>2. QED
    BY <2>1 DEF HeldAlive
<1>14. TableIsSound'
  <2>1. ASSUME NEW x \in Files, openEntries[x] # None, openEntries[x] \notin spoiled'
        PROVE  thumbnail'[openEntries[x]].alive /\ thumbnail'[openEntries[x]].fname = x
    <3>1. openEntries[x] \in Objects \ {mine} /\ openEntries[x] \notin spoiled
      BY <1>1, <1>2, <2>1 DEF CacheInv, TypeOK
    <3>2. thumbnail[openEntries[x]].alive /\ thumbnail[openEntries[x]].fname = x
      BY <2>1, <3>1 DEF CacheInv, TableIsSound
    <3>3. CASE openEntries[x] = o
      BY <1>4, <3>2, <3>3
    <3>4. CASE openEntries[x] # o
      <4>1. thumbnail'[openEntries[x]] = thumbnail[openEntries[x]]
        BY <1>4, <3>1, <3>4
      <4>2. QED
        BY <3>2, <4>1
    <3>5. QED
      BY <3>3, <3>4
  <2>2. QED
    BY <1>1, <2>1 DEF TableIsSound
<1>15. QED
  BY <1>6, <1>7, <1>8, <1>9, <1>10, <1>11, <1>12, <1>13, <1>14 DEF CacheInv

\* A reference is given up; the last user closes the thumbnail.
LEMMA DecreaseRefKeeps ==
    ASSUME CacheInv, NEW u \in Users \ {Deleter}, DecreaseRef(u) PROVE CacheInv'
<1> DEFINE o == user[u].object
           n == thumbnail[o].ref
           SoundNext(q) == thumbnail'[q].alive /\ q \notin spoiled'
<1>1. /\ user[u].pc = "in" /\ o \in Objects /\ thumbnail[o].alive /\ None \notin Objects
      /\ n \in Nat
      /\ UNCHANGED <<openEntries, onDisk, spoiled>>
  BY CacheAssumption DEF CacheInv, TypeOK, Places, At, DecreaseRef
<1>2. /\ \/ user'[u] = [pc |-> "out", file |-> None, object |-> None] /\ n # 1
         \/ user'[u] = [pc |-> "close", file |-> user[u].file, object |-> o] /\ n = 1
      /\ \A v \in Users \ {u} : user'[v] = user[v]
      /\ user' \in [Users -> [pc : PCs, file : Files \cup {None}, object : Objects \cup {None}]]
  <2>1. CASE n = 1
    <3>1. user' = [user EXCEPT ![u].pc = "close"]
      BY <1>1, <2>1 DEF DecreaseRef
    <3>2. user' = [user EXCEPT ![u] = [pc |-> "close", file |-> user[u].file, object |-> o]]
      BY <3>1, Moved DEF CacheInv
    <3>3. QED
      BY <1>1, <2>1, <3>2 DEF CacheInv, TypeOK, PCs
  <2>2. CASE n # 1
    <3>1. user' = [user EXCEPT ![u] = [pc |-> "out", file |-> None, object |-> None]]
      BY <1>1, <2>2 DEF DecreaseRef, Out
    <3>2. QED
      BY <1>1, <2>2, <3>1 DEF CacheInv, TypeOK, PCs
  <2>3. QED
    BY <2>1, <2>2
<1>3. /\ \A q \in Objects \ {o} : thumbnail'[q] = thumbnail[q]
      /\ thumbnail'[o].alive = thumbnail[o].alive
      /\ thumbnail'[o].fname = thumbnail[o].fname
      /\ thumbnail'[o].ref = IF n = 0 THEN 0 ELSE n - 1
      /\ thumbnail' \in [Objects -> [alive : BOOLEAN, ref : Nat, fname : Files \cup {None}]]
  <2>1. thumbnail \in [Objects -> [alive : BOOLEAN, ref : Nat, fname : Files \cup {None}]]
    BY DEF CacheInv, TypeOK
  <2>2. CASE n = 0
    <3>1. thumbnail' = thumbnail
      BY <1>1, <2>2 DEF DecreaseRef
    <3>2. QED
      BY <1>1, <2>1, <2>2, <3>1
  <2>3. CASE n > 0
    <3>1. thumbnail' = [thumbnail EXCEPT ![o].ref = @ - 1]
      BY <1>1, <2>3 DEF DecreaseRef
    <3>2. n - 1 \in Nat
      BY <1>1, <2>3
    <3>3. /\ thumbnail'[o].ref = n - 1
          /\ thumbnail'[o].alive = thumbnail[o].alive
          /\ thumbnail'[o].fname = thumbnail[o].fname
          /\ \A q \in Objects \ {o} : thumbnail'[q] = thumbnail[q]
      BY <1>1, <2>1, <3>1
    <3>4. thumbnail' \in [Objects -> [alive : BOOLEAN, ref : Nat, fname : Files \cup {None}]]
      BY <1>1, <2>1, <3>1, <3>2
    <3>5. QED
      BY <2>3, <3>3, <3>4
  <2>4. n = 0 \/ n > 0
    BY <1>1
  <2>5. QED
    BY <2>2, <2>3, <2>4
<1>4. \A q \in Objects : SoundNext(q) => Sound(q)
  BY <1>1, <1>3 DEF Sound
<1>5. Sound(o) => n = Cardinality(Counted(o))
  BY <1>1 DEF CacheInv, Counts
<1>6. u \in Counted(o)
  BY <1>1 DEF Counted
<1>7. \A q \in Objects : Counted(q)' = IF q = o THEN Counted(q) \ {u} ELSE Counted(q)
  BY <1>1, <1>2 DEF Counted
<1>8. TypeOK'
  BY <1>1, <1>2, <1>3 DEF CacheInv, TypeOK
<1>9. Places'
  BY <1>1, <1>2 DEF CacheInv, Places
<1>10. Named'
  BY <1>1, <1>3 DEF CacheInv, Named
<1>11. Counts'
  <2>1. ASSUME NEW q \in Objects, SoundNext(q)
        PROVE  thumbnail'[q].ref = Cardinality(Counted(q)')
    <3>1. CASE q = o
      <4>1. Counted(q)' = Counted(q) \ {u} /\ u \in Counted(q)
        BY <1>6, <1>7, <3>1
      <4>2. /\ Cardinality(Counted(q)') = Cardinality(Counted(q)) - 1
            /\ Cardinality(Counted(q)) \in Nat \ {0}
        BY <4>1, OneLess
      <4>3. n = Cardinality(Counted(q))
        BY <1>4, <1>5, <2>1, <3>1
      <4>4. thumbnail'[q].ref = n - 1
        BY <1>3, <3>1, <4>2, <4>3
      <4>5. QED
        BY <4>2, <4>3, <4>4
    <3>2. CASE q # o
      BY <1>3, <1>4, <1>7, <2>1, <3>2 DEF CacheInv, Counts
    <3>3. QED
      BY <3>1, <3>2
  <2>2. QED
    BY <2>1 DEF Counts, Sound
<1>12. Unpublished'
  <2>1. ASSUME NEW v \in Users, user'[v].pc = "publish"
        PROVE  /\ SoundNext(user'[v].object)
               /\ thumbnail'[user'[v].object].fname = user'[v].file
               /\ \A w \in Users : user'[w].object = user'[v].object => w = v
               /\ \A x \in Files : openEntries'[x] # user'[v].object
    <3>1. v # u /\ user'[v] = user[v] /\ user[v].object \in Objects
      BY <1>2, <2>1 DEF CacheInv, TypeOK, Places
    <3>2. /\ Sound(user[v].object) /\ thumbnail[user[v].object].fname = user[v].file
          /\ \A w \in Users : user[w].object = user[v].object => w = v
          /\ \A x \in Files : openEntries[x] # user[v].object
      BY <2>1, <3>1 DEF CacheInv, Unpublished
    <3>3. user[v].object # o
      BY <3>1, <3>2
    <3>4. thumbnail'[user[v].object] = thumbnail[user[v].object]
      BY <1>3, <3>1, <3>3
    <3>5. \A w \in Users : user'[w].object = user[v].object => w = v
      BY <1>1, <1>2, <3>1, <3>2, <3>3
    <3>6. QED
      BY <1>1, <3>1, <3>2, <3>4, <3>5 DEF Sound
  <2>2. QED
    BY <2>1 DEF Unpublished, Sound
<1>13. Closing'
  <2>1. ASSUME NEW v \in Users, user'[v].object # None, SoundNext(user'[v].object)
        PROVE  /\ user'[v].pc \in {"close", "erase", "delete"} => thumbnail'[user'[v].object].ref = 0
               /\ user'[v].pc = "erase" => user'[v].file = thumbnail'[user'[v].object].fname
               /\ user'[v].pc = "delete" => \A x \in Files : openEntries'[x] # user'[v].object
    <3>1. CASE v = u
      BY <1>2, <1>3, <2>1, <3>1
    <3>2. CASE v # u
      <4>1. user'[v] = user[v] /\ user[v].object \in Objects
        BY <1>2, <2>1, <3>2 DEF CacheInv, TypeOK
      <4>2. Sound(user[v].object)
        BY <1>4, <2>1, <4>1
      <4>3. /\ user[v].pc \in {"close", "erase", "delete"} => thumbnail[user[v].object].ref = 0
            /\ user[v].pc = "erase" => user[v].file = thumbnail[user[v].object].fname
            /\ user[v].pc = "delete" => \A x \in Files : openEntries[x] # user[v].object
        BY <2>1, <4>1, <4>2 DEF CacheInv, Closing
      <4>4. CASE user[v].object = o
        BY <1>1, <1>3, <4>1, <4>3, <4>4
      <4>5. CASE user[v].object # o
        <5>1. thumbnail'[user[v].object] = thumbnail[user[v].object]
          BY <1>3, <4>1, <4>5
        <5>2. QED
          BY <1>1, <4>1, <4>3, <5>1
      <4>6. QED
        BY <4>4, <4>5
    <3>3. QED
      BY <3>1, <3>2
  <2>2. QED
    BY <2>1 DEF Closing, Sound
<1>14. Listed'
  BY <1>1, <1>2, <1>3 DEF CacheInv, TypeOK, Listed, Sound
<1>15. HeldAlive'
  <2>1. ASSUME NEW v \in Users, user'[v].pc \in {"in", "rename"}
        PROVE  thumbnail'[user'[v].object].alive \/ user'[v].object \in spoiled
    <3>1. user'[v] = user[v] /\ user[v].object \in Objects
      BY <1>2, <2>1 DEF CacheInv, TypeOK, Places
    <3>2. thumbnail'[user[v].object].alive = thumbnail[user[v].object].alive
      BY <1>3, <3>1
    <3>3. QED
      BY <2>1, <3>1, <3>2 DEF CacheInv, HeldAlive
  <2>2. QED
    BY <1>1, <2>1 DEF HeldAlive
<1>16. TableIsSound'
  <2>1. \A q \in Objects : /\ thumbnail'[q].alive = thumbnail[q].alive
                           /\ thumbnail'[q].fname = thumbnail[q].fname
    BY <1>3
  <2>2. QED
    BY <1>1, <2>1 DEF CacheInv, TypeOK, TableIsSound
<1>17. QED
  BY <1>8, <1>9, <1>10, <1>11, <1>12, <1>13, <1>14, <1>15, <1>16 DEF CacheInv

\* A stuttering step.
LEMMA NothingKeeps == ASSUME CacheInv, UNCHANGED vars PROVE CacheInv'
<1>1. TypeOK' /\ Places' /\ Named' /\ HeldAlive' /\ TableIsSound'
  BY DEF vars, CacheInv, TypeOK, Places, Named, HeldAlive, TableIsSound
<1>2. Unpublished' /\ Closing' /\ Listed'
  BY DEF vars, CacheInv, Unpublished, Closing, Listed, Sound
<1>3. Counts'
  <2>1. \A q \in Objects : Counted(q)' = Counted(q)
    BY DEF vars, Counted
  <2>2. QED
    BY <2>1, SameCount DEF vars
<1>4. QED
  BY <1>1, <1>2, <1>3 DEF CacheInv

\* Every step of the cache keeps the invariant.
LEMMA CacheStep == ASSUME CacheInv, [Next]_vars PROVE CacheInv'
<1>1. ASSUME NEW u \in Users \ {Deleter}, UserStep(u) PROVE CacheInv'
  <2>1. CASE Construct(u)
    BY <2>1, ConstructKeeps
  <2>2. CASE ConstructFails(u)
    BY <2>2, ConstructFailsKeeps
  <2>3. CASE Publish(u)
    BY <2>3, PublishMineKeeps, PublishOtherKeeps
  <2>4. CASE CloseRead(u)
    BY <2>4, CloseReadKeeps
  <2>5. CASE CloseErase(u)
    BY <2>5, CloseEraseKeeps
  <2>6. CASE CloseDelete(u)
    BY <2>6, CloseDeleteKeeps
  <2>7. QED
    BY <1>1, <2>1, <2>2, <2>3, <2>4, <2>5, <2>6 DEF UserStep
<1>2. ASSUME NEW u \in Users \ {Deleter}, DecreaseRef(u) PROVE CacheInv'
  BY <1>2, DecreaseRefKeeps
<1>3. ASSUME NEW u \in Users \ {Deleter}, NEW f \in Files, GetOpen(u, f) \/ GetMissing(u, f)
      PROVE  CacheInv'
  BY <1>3, GetOpenKeeps, GetMissingKeeps
<1>4. ASSUME NEW u \in Users \ {Deleter}, NEW v \in Users, Share(u, v) PROVE CacheInv'
  BY <1>4, ShareKeeps
<1>5. ASSUME NEW f \in Files, RequestDelete(f) \/ RenameFile(f) \/ FileAppears(f)
      PROVE  CacheInv'
  BY <1>5, RequestDeleteKeeps, RenameFileKeeps, FileAppearsKeeps
<1>6. CASE DeleteEntry \/ Unlink \/ RenameEntry
  BY <1>6, DeleteEntryKeeps, UnlinkKeeps, RenameEntryKeeps
<1>7. CASE UNCHANGED vars
  BY <1>7, NothingKeeps
<1>8. QED
  BY <1>1, <1>2, <1>3, <1>4, <1>5, <1>6, <1>7 DEF Next

\* The table, the counts and the users agree, for any users, files and objects.
THEOREM CacheIsConsistent == Spec => []CacheInv
BY CacheInit, CacheStep, PTL DEF Spec

\* A thumbnail somebody holds is not deleted under them, whatever the order of
\* getEntry, increaseRef, decreaseRef, closeThumbnail, deleteEntry and renameEntry,
\* unless one of the last three has spoiled its count or its name.
THEOREM HeldStaysAlive == Spec => []HeldIsAlive
<1>1. CacheInv => HeldIsAlive
  <2>1. SUFFICES ASSUME CacheInv, NEW o \in Objects, NEW u \in Holders(o)
                 PROVE  thumbnail[o].alive \/ o \in spoiled
    BY DEF HeldIsAlive
  <2>2. u \in Users /\ user[u].pc \in {"in", "rename"} /\ user[u].object = o
    BY <2>1 DEF Holders
  <2>3. QED
    BY <2>1, <2>2 DEF CacheInv, HeldAlive
<1>2. QED
  BY <1>1, CacheIsConsistent, PTL

\* getEntry looks twice: two users of one file have one thumbnail, however many
\* load it at a time.
THEOREM FilesHaveOneThumbnail == Spec => []OnePerFile
<1>1. CacheInv => OnePerFile
  <2>1. ASSUME CacheInv, NEW o \in Objects, Sound(o), Holders(o) # {}
        PROVE  openEntries[thumbnail[o].fname] = o
    <3>1. PICK u \in Users : user[u].pc \in {"in", "rename"} /\ user[u].object = o
      BY <2>1 DEF Holders
    <3>2. QED
      BY <2>1, <3>1, CacheAssumption DEF CacheInv, Listed
  <2>2. QED
    BY <2>1 DEF OnePerFile
<1>2. QED
  BY <1>1, CacheIsConsistent, PTL

==============================================================================
