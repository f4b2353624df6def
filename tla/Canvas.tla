------------------------------- MODULE Canvas -------------------------------
(***************************************************************************)
(* What the preview pipeline promises to the person looking at the canvas, *)
(* without threads, locks or queues: the newest edit wins.                 *)
(*                                                                         *)
(* A canvas may skip edits but never goes back; what it accepts is a frame *)
(* of the window asked for last; once the photo is closed at most the      *)
(* frame already on its way reaches it; and a visible canvas ends up with  *)
(* the newest edit in the newest window, unless work on it is broken off.  *)
(***************************************************************************)
EXTENDS Naturals

CONSTANTS Coords, Crops, CoordOf, Last

VARIABLES
    requested,  \* newest edit of each photo
    closed,     \* photos that are being closed
    visible,    \* is the canvas shown?
    window,     \* newest window asked for, per canvas
    painted,    \* window of the frame on the canvas, 0 when it is blank
    shown,      \* edit of the last frame
    coming,     \* is a frame on its way to the canvas?
    spoiled     \* has work on its picture been broken off?  No action says
                \* when: the promise of a refresh is made where it has not.

vars == <<requested, closed, visible, window, painted, shown, coming>>

Init ==
    /\ requested = [c \in Coords |-> 0]
    /\ closed = [c \in Coords |-> FALSE]
    /\ visible = [k \in Crops |-> TRUE]
    /\ window = [k \in Crops |-> 1]
    /\ painted = [k \in Crops |-> 1]
    /\ shown = [k \in Crops |-> 0]
    /\ coming = [k \in Crops |-> FALSE]

Edit(c) ==
    /\ \E v \in 0 .. Last :
          /\ v > requested[c]
          /\ requested' = [requested EXCEPT ![c] = v]
    /\ UNCHANGED <<closed, visible, window, painted, shown, coming>>

\* Another window is asked for; a visible canvas is blanked meanwhile.
Move(k) ==
    /\ \E w \in 1 .. Last : window' = [window EXCEPT ![k] = w]
    /\ painted' = [painted EXCEPT ![k] = IF visible[k] THEN 0 ELSE @]
    /\ UNCHANGED <<requested, closed, visible, shown, coming>>

Toggle(k) ==
    /\ visible' = [visible EXCEPT ![k] = ~ @]
    /\ painted' = [painted EXCEPT ![k] = 0]
    /\ UNCHANGED <<requested, closed, window, shown, coming>>

\* A frame is sent to a canvas somebody looks at ...
Send(k) ==
    /\ visible[k] /\ ~ closed[CoordOf[k]] /\ ~ coming[k]
    /\ coming' = [coming EXCEPT ![k] = TRUE]
    /\ UNCHANGED <<requested, closed, visible, window, painted, shown>>

\* ... and is a frame of some edit at least as new as the one there, ...
Paint(k, v) ==
    /\ coming[k]
    /\ visible[k] \/ closed[CoordOf[k]]
    /\ v \in shown[k] .. requested[CoordOf[k]]
    /\ coming' = [coming EXCEPT ![k] = FALSE]
    /\ painted' = [painted EXCEPT ![k] = window[k]]
    /\ shown' = [shown EXCEPT ![k] = v]
    /\ UNCHANGED <<requested, closed, visible, window>>

\* ... or is dropped because the window has moved.
Drop(k) ==
    /\ coming[k]
    /\ coming' = [coming EXCEPT ![k] = FALSE]
    /\ UNCHANGED <<requested, closed, visible, window, painted, shown>>

Close(c) ==
    /\ closed' = [closed EXCEPT ![c] = TRUE]
    /\ UNCHANGED <<requested, visible, window, painted, shown, coming>>

\* The canvas is taken off the closed photo.
Detach(c) ==
    /\ closed[c]
    /\ visible' = [k \in Crops |-> visible[k] /\ CoordOf[k] # c]
    /\ UNCHANGED <<requested, closed, window, painted, shown, coming>>

Next ==
    \/ \E c \in Coords : Edit(c) \/ Close(c) \/ Detach(c)
    \/ \E k \in Crops : \/ Move(k) \/ Toggle(k) \/ Send(k) \/ Drop(k)
                        \/ \E v \in 0 .. Last : Paint(k, v)

Behaviour == Init /\ [][Next]_vars

UpToDate(k) == shown[k] = requested[CoordOf[k]] /\ painted[k] = window[k]

\* A visible canvas of an open photo is brought up to date, again and again,
\* unless work on its picture has been broken off and not been made good.
Refreshed(k) ==
    []<>(UpToDate(k) \/ ~ visible[k] \/ closed[CoordOf[k]] \/ spoiled[k])

Spec == Behaviour /\ \A k \in Crops : Refreshed(k)

=============================================================================
