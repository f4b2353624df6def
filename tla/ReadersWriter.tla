---------------------------- MODULE ReadersWriter ----------------------------
(***************************************************************************)
(* What a reader/writer lock promises: any number of readers, or one       *)
(* writer.                                                                 *)
(***************************************************************************)

CONSTANT Locks

VARIABLES
    reading,    \* lock objects that hold the lock for reading
    writing     \* lock objects that hold it for writing

vars == <<reading, writing>>

Init == reading = {} /\ writing = {}

StartReading(l) ==
    /\ writing = {}
    /\ reading' = reading \cup {l}
    /\ UNCHANGED writing

StopReading(l) ==
    /\ l \in reading
    /\ reading' = reading \ {l}
    /\ UNCHANGED writing

StartWriting(l) ==
    /\ reading = {} /\ writing = {}
    /\ writing' = {l}
    /\ UNCHANGED reading

StopWriting(l) ==
    /\ l \in writing
    /\ writing' = writing \ {l}
    /\ UNCHANGED reading

Next ==
    \E l \in Locks :
        \/ StartReading(l) \/ StopReading(l)
        \/ StartWriting(l) \/ StopWriting(l)

Spec == Init /\ [][Next]_vars

=============================================================================
