------------------------------- MODULE MCLocks -------------------------------
(***************************************************************************)
(* Two disciplines of locking: the reader/writer lock of RWMutex, and the  *)
(* mutexes under which DetailWindows opens and closes crops while the      *)
(* worker walks them.  The two share nothing; a behaviour is one of the    *)
(* one or of the other, so that their states add up and are not            *)
(* multiplied.  The photo of the windows may come to rest.                 *)
(***************************************************************************)
EXTENDS RWMutex, TLC

CONSTANTS outer, inner, peek, write, edit, sweep, scan, late

\* The GTK thread draws (outer, and inner below it), looks without waiting
\* (peek) and edits the list; one worker thread writes, or sweeps without
\* waiting; two more read.
MCThreadOf == [l \in Locks |->
    IF l \in {outer, inner, peek, edit} THEN "gtk"
    ELSE IF l \in {write, sweep} THEN "worker"
    ELSE IF l = scan THEN "scanner" ELSE "latecomer"]

CONSTANTS Canvas, Windows, Full, Sidecar, Overlap, MaxEdits, MaxPans

VARIABLES
    slots, size, updaterThreadStart, mProcessing, nextParams, params,
    changeSinceLast, updaterRunning, destroying, cropMutex, listening,
    pending, running, life, shown, tasks, worker, gui, pans, cutShort,
    acts                \* which of the two acts

detailVars ==
    <<slots, size, updaterThreadStart, mProcessing, nextParams, params,
      changeSinceLast, updaterRunning, destroying, cropMutex, listening,
      pending, running, life, shown, tasks, worker, gui, pans,
      cutShort>>

Detail == INSTANCE DetailWindows

\* Windows are alike; no property of the lock, liveness included, is about them.
WindowsAlike == Permutations(Windows)

\* The properties of the windows say nothing of what follows a walk cut short.
NotCutShort == ~ cutShort

ASSUME DetailAssumed == Detail!DetailAssumption

LocksInit == Init /\ Detail!Init /\ acts \in {"lock", "windows"}

LocksNext ==
    \/ acts = "lock" /\ Next /\ UNCHANGED <<acts, detailVars>>
    \/ acts = "windows" /\ Detail!Next /\ UNCHANGED <<acts, vars>>
    \/ acts = "windows" /\ UNCHANGED <<acts, vars, detailVars>>

LocksSpec == LocksInit /\ [][LocksNext]_<<acts, vars, detailVars>> /\ Fairness

\* A pass leaves out no window that was open all along.
PassReachesAll == Detail!PassReachesAll

\* At rest every detail window shows the last edit.
WindowsAreCurrent == Detail!WindowsAreCurrent

=============================================================================
