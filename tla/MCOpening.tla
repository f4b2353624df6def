------------------------------ MODULE MCOpening ------------------------------
(***************************************************************************)
(* A click on a photo: PhotoOpening, which opens it, and BackgroundGate,   *)
(* which keeps the work in the background waiting meanwhile.  The two      *)
(* share nothing; a behaviour is one of the one or of the other, so that   *)
(* their states add up and are not multiplied.                             *)
(***************************************************************************)
EXTENDS PhotoOpening

CONSTANTS Processors, Races, Failing, MaxLoads, MaxEdits

VARIABLES
    foreground, active, background, thumbnails, timer, gLoading, open, gSetup,
    listener, pc, told, change, queued, idle, opened, edits,
    acts                \* which of the two acts

gateVars ==
    <<foreground, active, background, thumbnails, timer, gLoading, open, gSetup,
      listener, pc, told, change, queued, idle, opened, edits>>

Gate == INSTANCE BackgroundGate WITH loading <- gLoading, setup <- gSetup

ASSUME GateAssumption ==
    Gate!SwitchAssumption /\ Gate!BoundsAssumption /\ Gate!NoneAssumption

BothInit ==
    /\ Init /\ Gate!Init
    /\ acts \in {"opening", "gate"}

BothNext ==
    \/ acts = "opening" /\ Next /\ UNCHANGED <<acts, gateVars>>
    \/ acts = "gate" /\ Gate!Next /\ UNCHANGED <<acts, vars>>
    \/ UNCHANGED <<acts, vars, gateVars>>

\* The fairness of the photos that are opened.
BothSpec == BothInit /\ [][BothNext]_<<acts, vars, gateVars>> /\ Fairness

\* Nothing waits for ever behind the gate.
NoStrandedPause == Gate!NoStrandedPause

=============================================================================
