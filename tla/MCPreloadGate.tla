----------------------------- MODULE MCPreloadGate -----------------------------
(***************************************************************************)
(* Instances of PreloadGate for TLC: photos of one folder, and what may be *)
(* planned around each.  In one the user only clicks, and everybody is     *)
(* fair; in one there are more clicks; in one there are edits and a load   *)
(* for a comparison.  A behaviour is one of one of them, so that their     *)
(* states add up and are not multiplied.                                   *)
(***************************************************************************)
EXTENDS PreloadGate, TLC

CONSTANTS a, b, c, CrowdedPlans, MoreClicks, TwoPhotos,
          BusyPlans, BusyBroken, BusyEdits, BusyAux

VARIABLE acts           \* which of them acts

all == <<acts, vars>>

PlanOf(wanted, hot, scrub) ==
    [wanted |-> wanted, hot |-> ToSet(hot), entries |-> hot, stride |-> scrub, bypass |-> scrub]

\* Photo b is decoded ahead when a is open, then nothing is.
OneHot == a :> {PlanOf(<<b, c>>, <<b>>, FALSE)} @@ b :> {NoPlan} @@ c :> {NoPlan}

\* Photo a is decoded ahead when b is open.
OtherHot == a :> {NoPlan} @@ b :> {PlanOf(<<a, c>>, <<a>>, FALSE)} @@ c :> {NoPlan}

\* The same as the first in a scrub through RAW photos.
OneScrub == a :> {PlanOf(<<b>>, <<b>>, TRUE)} @@ b :> {NoPlan}

Crowded == INSTANCE PreloadGate WITH
    Plans <- CrowdedPlans, Broken <- {}, Keeps <- {FALSE}, Delays <- {FALSE},
    MaxClicks <- MoreClicks

Busy == INSTANCE PreloadGate WITH
    Photos <- TwoPhotos, Plans <- BusyPlans, Broken <- BusyBroken, Oversize <- {},
    Delays <- {FALSE}, MaxEdits <- BusyEdits, MaxAux <- BusyAux

AllInit ==
    \/ acts = "clicks" /\ Init
    \/ acts = "crowded" /\ Crowded!Init
    \/ acts = "busy" /\ Busy!Init

Clicks(action) == acts = "clicks" /\ action /\ UNCHANGED acts

AllNext ==
    \/ Clicks(Next)
    \/ acts = "crowded" /\ Crowded!Next /\ UNCHANGED acts
    \/ acts = "busy" /\ Busy!Next /\ UNCHANGED acts

\* The fairness of PreloadGate, for the user who only clicks.
Fair ==
    /\ WF_all(Clicks(WorkerStep)) /\ WF_all(Clicks(ThreadStep))
    /\ WF_all(Clicks(SelectStep)) /\ WF_all(Clicks(ImageLoaded))
    /\ WF_all(Clicks(PreloadAdjacent)) /\ WF_all(Clicks(FirstFrame))
    /\ WF_all(Clicks(OpenPhaseB)) /\ WF_all(Clicks(EditorSettles))
    /\ \A l \in Loads : WF_all(Clicks(StartDelayed(l)))
    /\ WF_all(Clicks(QuietComes)) /\ WF_all(Clicks(DeferralEnds))
    /\ WF_all(Clicks(RetryComes))

AllSpec == AllInit /\ [][AllNext]_all /\ Fair

\* Every load of a user who only clicks ends.
ClickEnds == \A l \in Loads :
    (acts = "clicks" /\ l \in pending) ~> (l \notin pending \/ photo[l] \in recycle)

=============================================================================
