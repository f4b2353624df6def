---------------------------- MODULE ThumbnailCache ----------------------------
(***************************************************************************)
(* The table of open thumbnails (rtgui/cachemanager) and the reference     *)
(* counts of the thumbnails in it (rtgui/thumbnail).                       *)
(*                                                                         *)
(* A user is a thread that works with one thumbnail at a time: the file    *)
(* browser, which also renames files, a preview loader, a thumbnail        *)
(* worker, the editor's cleanup.  It gets the thumbnail from the table or  *)
(* shares that of another user, and releases it.  Files are deleted by a   *)
(* thread of their own, when the browser has dropped what it showed.       *)
(*                                                                         *)
(* One action is one section under the manager's mutex or the mutex of the *)
(* count.  Abstracted: the cache files, of which deleteEntry and           *)
(* renameEntry take care, and the checksums.                               *)
(***************************************************************************)
EXTENDS Naturals, FiniteSets

CONSTANTS
    Users,
    Browser,        \* the user that renames files and has them deleted
    Deleter,        \* the thread that deletes them
    Files,
    Objects         \* addresses of Thumbnail objects

None == "none"

ASSUME CacheAssumption ==
    /\ IsFiniteSet(Users)
    /\ Browser \in Users
    /\ Deleter \in Users \ {Browser}
    /\ None \notin Objects \cup Files

VARIABLES
    openEntries,    \* the table: the object of a file, or None
    thumbnail,      \* of each address: [alive, ref, fname]
    user,           \* [pc, file, object]
    onDisk,         \* files that exist
    spoiled         \* history: objects whose count no longer says who uses them

vars == <<openEntries, thumbnail, user, onDisk, spoiled>>

PCs == {"out", "load", "publish", "in", "close", "erase", "delete",
        "rename", "drop", "unlink"}

TypeOK ==
    /\ openEntries \in [Files -> Objects \cup {None}]
    /\ thumbnail \in [Objects -> [alive : BOOLEAN, ref : Nat,
                                  fname : Files \cup {None}]]
    /\ user \in [Users -> [pc : PCs, file : Files \cup {None},
                           object : Objects \cup {None}]]
    /\ onDisk \subseteq Files
    /\ spoiled \subseteq Objects

Freed == [alive |-> FALSE, ref |-> 0, fname |-> None]

Out == [pc |-> "out", file |-> None, object |-> None]

In(o) == [pc |-> "in", file |-> None, object |-> o]

Init ==
    /\ openEntries = [f \in Files |-> None]
    /\ thumbnail = [o \in Objects |-> Freed]
    /\ user = [u \in Users |-> Out]
    /\ onDisk = Files
    /\ spoiled = {}

-----------------------------------------------------------------------------

Holders(o) == {u \in Users : user[u].pc \in {"in", "rename"}
                             /\ user[u].object = o}

\* Anybody's pointer to it: holders and those that destroy it.
Referrers(o) == {u \in Users : user[u].object = o}

\* What a user does with freed memory is undefined; the model follows it no
\* further.
At(u, pc) ==
    /\ user[u].pc = pc
    /\ user[u].object # None => thumbnail[user[u].object].alive

IncreaseRef(o) == [thumbnail EXCEPT ![o].ref = @ + 1]

\* Counting up from 0 brings back what somebody is about to destroy.
Revived(o) == IF thumbnail[o].ref = 0 THEN {o} ELSE {}

\* getEntry: "if it is open, return it".
GetOpen(u, f) ==
    /\ At(u, "out")
    /\ openEntries[f] # None
    /\ LET o == openEntries[f] IN
        /\ thumbnail[o].alive
        /\ thumbnail' = IncreaseRef(o)
        /\ user' = [user EXCEPT ![u] = In(o)]
        /\ spoiled' = spoiled \cup Revived(o)
    /\ UNCHANGED <<openEntries, onDisk>>

\* getEntry: not open; the lock is released.  Without a file there is no
\* checksum, and getEntry returns nothing.
GetMissing(u, f) ==
    /\ At(u, "out")
    /\ openEntries[f] = None
    /\ f \in onDisk
    /\ user' = [user EXCEPT ![u] = [pc |-> "load", file |-> f, object |-> None]]
    /\ UNCHANGED <<openEntries, thumbnail, onDisk, spoiled>>

\* The thumbnail is created without the lock, from the cache or the file.
Construct(u) ==
    /\ At(u, "load")
    /\ \E o \in Objects :
        /\ ~thumbnail[o].alive
        /\ Referrers(o) = {}
        /\ \A f \in Files : openEntries[f] # o
        /\ thumbnail' = [thumbnail EXCEPT ![o] =
                [alive |-> TRUE, ref |-> 1, fname |-> user[u].file]]
        /\ user' = [user EXCEPT ![u] =
                [pc |-> "publish", file |-> @.file, object |-> o]]
        /\ spoiled' = spoiled \ {o}
    /\ UNCHANGED <<openEntries, onDisk>>

\* The file is not supported.
ConstructFails(u) ==
    /\ At(u, "load")
    /\ user' = [user EXCEPT ![u] = Out]
    /\ UNCHANGED <<openEntries, thumbnail, onDisk, spoiled>>

\* Mutant: the second look-up is left out.
Publish_Blind(u) ==
    /\ At(u, "publish")
    /\ openEntries' = [openEntries EXCEPT ![user[u].file] = user[u].object]
    /\ user' = [user EXCEPT ![u] = In(user[u].object)]
    /\ UNCHANGED <<thumbnail, onDisk, spoiled>>

\* getEntry with the lock again: the thumbnail enters the table, or gives way
\* to one that has entered it meanwhile.
Publish(u) ==
    /\ At(u, "publish")
    /\ LET mine == user[u].object
           f == user[u].file
           o == openEntries[f]
       IN
        \/ /\ o = None
           /\ openEntries' = [openEntries EXCEPT ![f] = mine]
           /\ user' = [user EXCEPT ![u] = In(mine)]
           /\ UNCHANGED <<thumbnail, spoiled>>
        \/ /\ o # None
           /\ thumbnail[o].alive
           /\ thumbnail' = [IncreaseRef(o) EXCEPT ![mine] = Freed]
           /\ user' = [user EXCEPT ![u] = In(o)]
           /\ spoiled' = spoiled \cup Revived(o)
           /\ UNCHANGED openEntries
    /\ UNCHANGED onDisk

\* increaseRef() through another user, who holds the thumbnail meanwhile.
Share(u, v) ==
    /\ At(u, "out")
    /\ At(v, "in")
    /\ thumbnail' = IncreaseRef(user[v].object)
    /\ user' = [user EXCEPT ![u] = In(user[v].object)]
    /\ spoiled' = spoiled \cup Revived(user[v].object)
    /\ UNCHANGED <<openEntries, onDisk>>

-----------------------------------------------------------------------------

\* Mutant: the count is not tested, and may go below 0.
DecreaseRef_Always(u) ==
    /\ At(u, "in")
    /\ thumbnail' = [thumbnail EXCEPT ![user[u].object].ref = @ - 1]
    /\ user' = [user EXCEPT ![u].pc = "close"]
    /\ UNCHANGED <<openEntries, onDisk, spoiled>>

\* decreaseRef(): the last one closes the thumbnail, after the count's lock.
DecreaseRef(u) ==
    /\ At(u, "in")
    /\ LET o == user[u].object IN
        \/ /\ thumbnail[o].ref = 0
           /\ user' = [user EXCEPT ![u] = Out]
           /\ UNCHANGED thumbnail
        \/ /\ thumbnail[o].ref > 0
           /\ thumbnail' = [thumbnail EXCEPT ![o].ref = @ - 1]
           /\ user' = [user EXCEPT ![u] =
                IF thumbnail[o].ref = 1 THEN [@ EXCEPT !.pc = "close"] ELSE Out]
    /\ UNCHANGED <<openEntries, onDisk, spoiled>>

\* closeThumbnail() reads the name without a lock, ...
CloseRead(u) ==
    /\ At(u, "close")
    /\ user' = [user EXCEPT ![u] =
            [pc |-> "erase", file |-> thumbnail[@.object].fname, object |-> @.object]]
    /\ UNCHANGED <<openEntries, thumbnail, onDisk, spoiled>>

\* ... erases what the table has under it, whatever that is, ...
CloseErase(u) ==
    /\ At(u, "erase")
    /\ LET erased == openEntries[user[u].file] IN
        spoiled' = spoiled \cup ({erased} \ {None, user[u].object})
    /\ openEntries' = [openEntries EXCEPT ![user[u].file] = None]
    /\ user' = [user EXCEPT ![u].pc = "delete"]
    /\ UNCHANGED <<thumbnail, onDisk>>

\* ... and deletes the thumbnail outside the lock.
CloseDelete(u) ==
    /\ At(u, "delete")
    /\ thumbnail' = [thumbnail EXCEPT ![user[u].object] = Freed]
    /\ user' = [user EXCEPT ![u] = Out]
    /\ UNCHANGED <<openEntries, onDisk, spoiled>>

-----------------------------------------------------------------------------

\* The browser has dropped the file; a thread sets out to delete it.
RequestDelete(f) ==
    /\ At(Deleter, "out")
    /\ \A o \in Objects : Browser \in Referrers(o) => thumbnail[o].fname # f
    /\ user' = [user EXCEPT ![Deleter] = [pc |-> "drop", file |-> f, object |-> None]]
    /\ UNCHANGED <<openEntries, thumbnail, onDisk, spoiled>>

\* deleteEntry(): the count goes down although no user has given a reference
\* up, and at 0 the thumbnail goes.
DeleteEntry ==
    /\ At(Deleter, "drop")
    /\ LET f == user[Deleter].file
           o == openEntries[f]
       IN
        \/ /\ o = None
           /\ UNCHANGED <<openEntries, thumbnail, spoiled>>
        \/ /\ o # None
           /\ thumbnail[o].alive
           /\ spoiled' = spoiled \cup {o}
           /\ IF thumbnail[o].ref <= 1
              THEN /\ openEntries' = [openEntries EXCEPT ![f] = None]
                   /\ thumbnail' = [thumbnail EXCEPT ![o] = Freed]
              ELSE /\ thumbnail' = [thumbnail EXCEPT ![o].ref = @ - 1]
                   /\ UNCHANGED openEntries
    /\ user' = [user EXCEPT ![Deleter].pc = "unlink"]
    /\ UNCHANGED onDisk

\* g_remove(), if the file has not gone before.
Unlink ==
    /\ At(Deleter, "unlink")
    /\ onDisk' = onDisk \ {user[Deleter].file}
    /\ user' = [user EXCEPT ![Deleter] = Out]
    /\ UNCHANGED <<openEntries, thumbnail, spoiled>>

\* g_rename() of the file the browser holds, to a name that no file has.
RenameFile(g) ==
    /\ At(Browser, "in")
    /\ LET f == thumbnail[user[Browser].object].fname IN
        /\ f \in onDisk
        /\ g \notin onDisk
        /\ onDisk' = (onDisk \ {f}) \cup {g}
        /\ user' = [user EXCEPT ![Browser] =
                [pc |-> "rename", file |-> g, object |-> @.object]]
    /\ UNCHANGED <<openEntries, thumbnail, spoiled>>

\* renameEntry(): the table is looked up by the old name; emplace() leaves an
\* entry that the new name has already.
RenameEntry ==
    /\ At(Browser, "rename")
    /\ LET f == thumbnail[user[Browser].object].fname
           g == user[Browser].file
           o == openEntries[f]
           taken == openEntries[g]
       IN
        \/ /\ o = None
           /\ UNCHANGED <<openEntries, thumbnail, spoiled>>
        \/ /\ o # None
           /\ thumbnail[o].alive
           /\ openEntries' = [openEntries EXCEPT
                ![f] = None, ![g] = IF taken = None THEN o ELSE taken]
           /\ thumbnail' = [thumbnail EXCEPT ![o].fname = g]
           /\ spoiled' = spoiled
                \cup (IF taken = None THEN {} ELSE {o, taken})
                \cup ({o} \ {user[Browser].object})
    /\ user' = [user EXCEPT ![Browser] = In(user[Browser].object)]
    /\ UNCHANGED onDisk

\* A file is written by somebody else.
FileAppears(f) ==
    /\ onDisk' = onDisk \cup {f}
    /\ UNCHANGED <<openEntries, thumbnail, user, spoiled>>

UserStep(u) ==
    \/ Construct(u) \/ ConstructFails(u) \/ Publish(u)
    \/ CloseRead(u) \/ CloseErase(u) \/ CloseDelete(u)

Next ==
    \/ \E u \in Users \ {Deleter} :
        \/ UserStep(u)
        \/ DecreaseRef(u)
        \/ \E f \in Files : GetOpen(u, f) \/ GetMissing(u, f)
        \/ \E v \in Users : Share(u, v)
    \/ \E f \in Files : RequestDelete(f) \/ RenameFile(f) \/ FileAppears(f)
    \/ DeleteEntry
    \/ Unlink
    \/ RenameEntry

Spec == Init /\ [][Next]_vars

-----------------------------------------------------------------------------
(* Properties *)

Sound(o) == thumbnail[o].alive /\ o \notin spoiled

\* The count of a thumbnail is the number of its users, those that are about
\* to publish it included (increaseRef, decreaseRef against getEntry).
CountsUsers ==
    \A o \in Objects : Sound(o) =>
        thumbnail[o].ref =
            Cardinality({u \in Referrers(o) :
                            user[u].pc \in {"in", "rename", "publish"}})

\* A thumbnail somebody holds is not deleted, as long as nobody revived it,
\* took a reference away or crossed its name.
HeldIsAlive ==
    \A o \in Objects : Holders(o) # {} => thumbnail[o].alive \/ o \in spoiled

\* Two users of one file have one thumbnail: what one of them edits, the other
\* one sees and saves (getEntry looks twice).
OnePerFile ==
    \A o, p \in Objects :
        /\ Sound(o) /\ Holders(o) # {}
        /\ Sound(p) /\ Holders(p) # {}
        /\ thumbnail[o].fname = thumbnail[p].fname
        => o = p

\* No thumbnail is left behind: one that is alive has somebody to release it.
NoneLeft == \A o \in Objects : Sound(o) => Referrers(o) # {}

\* What the table knows can be used, and is found under its own name, except
\* while its file is being renamed.
TableIsSound ==
    \A f \in Files :
        LET o == openEntries[f] IN
        o # None /\ o \notin spoiled =>
            thumbnail[o].alive /\ thumbnail[o].fname = f

\* getEntry, "if it is open, return it": what is found open stays open while
\* it is held.
FoundStaysOpen ==
    [][\A o \in Objects :
        Holders(o) # {} /\ thumbnail[o].alive => thumbnail'[o].alive
            \/ user[Deleter].pc = "drop"]_vars

\* deleteEntry, "if the ref count is not zero, it is open in the editor and
\* the thumbnail can not be deleted".
OpenIsNotDeleted ==
    [][\A o \in Objects :
        Holders(o) # {} /\ thumbnail[o].alive /\ user[Deleter].pc = "drop"
            => thumbnail'[o].alive]_vars

=============================================================================
