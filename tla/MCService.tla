----------------------------- MODULE MCService -----------------------------
(***************************************************************************)
(* Service for TLC: two instances of the API, two boots, two requests, one *)
(* lost connection to the broker, one insert that fails; four builds, two  *)
(* of them being released at once, and one device.                         *)
(***************************************************************************)
EXTENDS Service

\* A build under its ReleaseInput.
Build(v, c, mandatory, artifact) ==
    [version |-> v, versionCode |-> c, mandatory |-> mandatory, artifact |-> artifact]

\* Three versions in turn, then a floor raised without an artefact.  Beside a device the
\* one that is neither mandatory nor first is left out.
InTurn == {Build(1, 1, FALSE, TRUE), Build(2, 2, TRUE, TRUE), Build(3, 3, FALSE, TRUE),
           Build(3, 4, TRUE, FALSE)}

Gated == InTurn \ {Build(3, 3, FALSE, TRUE)}

LowFloor == {[currentVersion |-> 3, minVersion |-> 1, forceUpdate |-> FALSE]}

-----------------------------------------------------------------------------

\* Bound on the releases under way at once.
MaxReleasing == 2

Releasing == {b \in Builds : ~At(b, "idle")}

MCNext ==
    /\ ServiceNext
    /\ Cardinality(Releasing') <= MaxReleasing
    /\ focus = "gate" => Releasing' \subseteq Gated

MCSpec ==
    /\ ServiceInit /\ [][MCNext]_serviceVars
    /\ Fairness /\ Process!Fairness
=============================================================================
