----------------------------- MODULE VersionGate -----------------------------
(***************************************************************************)
(* The devices that a version policy is for: every request with the        *)
(* version headers is held against the policy (AppVersionService.Check,    *)
(* the VersionCheck middleware), and one that is answered 426 asks the     *)
(* download link, which is exempt, for the build to install.  Releases run *)
(* beside them as in AppRelease; what the policy says now, what the link   *)
(* leads to and what the store holds are three different moments.          *)
(***************************************************************************)
EXTENDS AppRelease

CONSTANTS Devices

VARIABLES
    device,  \* what each device has installed, was last told, and is fetching
    bare     \* history: the floor in force came without a build of its own

gateVars == <<vars, device, bare>>

\* A versionCode stands for its build; 0 is one from before the first release.
VersionOf(code) ==
    IF code = 0 THEN 0 ELSE (CHOOSE b \in Builds : b.versionCode = code).version

Verdicts == {"required", "available", "up_to_date"}

Device == [installed : Contents, told : Verdicts \cup {None}, link : Keys \cup {None}]

GateInit ==
    /\ Init
    /\ device = [d \in Devices |-> [installed |-> 0, told |-> None, link |-> None]]
    /\ bare = FALSE

-----------------------------------------------------------------------------
(* The gate *)

\* Bug for comparison: who stands on the floor is below it.
CheckStrictly(p, version) ==
    IF p = NoPolicy THEN "up_to_date"
    ELSE IF version <= p.minVersion /\ p.forceUpdate THEN "required"
    ELSE IF version < p.minVersion \/ version < p.currentVersion THEN "available"
    ELSE "up_to_date"

\* Check: only a forced update below the floor is refused.
Check(p, version) ==
    IF p = NoPolicy THEN "up_to_date"
    ELSE IF version < p.minVersion /\ p.forceUpdate THEN "required"
    ELSE IF version < p.minVersion \/ version < p.currentVersion THEN "available"
    ELSE "up_to_date"

\* VersionCheck on a route that is not exempt: when the lookup fails the request passes.
Ask(d) ==
    /\ device[d].link = None
    /\ \/ /\ device' = [device EXCEPT ![d].told = Check(policy, VersionOf(device[d].installed))]
          /\ UNCHANGED faults
       \/ Fault /\ device' = [device EXCEPT ![d].told = None]
    /\ UNCHANGED <<policy, storage, rel, history, bare>>

\* The stable link resolves to the artefact of the policy as it is now, if it has one.
DownloadURL == policy.apkKey

Follow(d) ==
    /\ device[d].told \in {"required", "available"} /\ device[d].link = None
    /\ DownloadURL # None
    /\ device' = [device EXCEPT ![d].link = DownloadURL]
    /\ UNCHANGED <<policy, storage, rel, faults, history, bare>>

\* The device installs what the link gives it, if that is whole and newer.
Install(d) ==
    LET code == storage[device[d].link]
    IN  /\ device[d].link # None
        /\ device' = [device EXCEPT ![d] =
               IF code # None /\ code > device[d].installed
               THEN [installed |-> code, told |-> None, link |-> None]
               ELSE [device[d] EXCEPT !.link = None]]
        /\ UNCHANGED <<policy, storage, rel, faults, history, bare>>

-----------------------------------------------------------------------------
(* The releases beside them *)

Release(b) ==
    /\ Read(b) \/ StoreArtifact(b) \/ Commit(b) \/ Evict(b) \/ Abort(b)
    /\ bare' = IF At(b, "commit") /\ rel'[b].pc # "commit" /\ faults' = faults
               THEN ~b.artifact ELSE bare
    /\ UNCHANGED device

SetPolicy(p) == Upsert(p) /\ bare' = TRUE /\ UNCHANGED device

GateNext ==
    \/ \E d \in Devices : Ask(d) \/ Follow(d) \/ Install(d)
    \/ \E b \in Builds : Release(b)
    \/ \E p \in AdminPolicies : SetPolicy(p)

\* A device that was refused keeps asking, whatever a link gave it; a release that runs
\* goes on.
Refused(d) == device[d].told = "required"

Fairness ==
    /\ \A d \in Devices :
          /\ SF_gateVars(Refused(d) /\ Ask(d))
          /\ WF_gateVars(Refused(d) /\ Follow(d)) /\ WF_gateVars(Refused(d) /\ Install(d))
    /\ \A b \in Builds : WF_gateVars(~At(b, "idle") /\ Release(b))

GateSpec == GateInit /\ [][GateNext]_gateVars /\ Fairness

-----------------------------------------------------------------------------
(* Correctness *)

GateTypeOK == TypeOK /\ device \in [Devices -> Device] /\ bare \in BOOLEAN

Reused == \E k \in Keys : uploads[k] > 1

\* Whoever is refused gets in again, by the link or because the policy changed, unless the
\* floor came without a build or a key was written twice: "a force-updating client must
\* still be able to reach" what lets it update, "or THE FEATURE LOCKS ITSELF OUT".
RefusedGetsIn ==
    \A d \in Devices :
        Refused(d) ~> ~Refused(d) \/ bare \/ Reused
=============================================================================
