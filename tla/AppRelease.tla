----------------------------- MODULE AppRelease -----------------------------
(***************************************************************************)
(* Publishing a build of the app (modules/appversion): a release reads the *)
(* version policy of its platform, streams the artefact into storage,      *)
(* writes the policy, and deletes the artefacts the policy has let go of.  *)
(* Each call to MongoDB or to the store is one step, and releases may      *)
(* overlap.  One platform; a version is its rank among the versions, and   *)
(* as every build is uploaded under one file name, also its storage key.   *)
(***************************************************************************)
EXTENDS Naturals, FiniteSets, SequencesExt

CONSTANTS
    Builds,         \* what each release job publishes (ReleaseInput)
    AdminPolicies,  \* what an administrator may write
    ApkRetention,   \* apkRetention
    MaxFaults,      \* bound on failed calls and abandoned requests
    None

ReleaseInput == [version : Nat \ {0}, versionCode : Nat \ {0},
                 mandatory : BOOLEAN, artifact : BOOLEAN]

\* Builds are inputs that the validators pass; one artefact at least is kept.
ASSUME ReleaseAssumption ==
    /\ Builds \subseteq ReleaseInput
    /\ IsFiniteSet(Builds)
    /\ AdminPolicies \subseteq [currentVersion : Nat \ {0}, minVersion : Nat \ {0},
                                 forceUpdate : BOOLEAN]
    /\ None \notin Nat
    /\ MaxFaults \in Nat
    /\ ApkRetention \in Nat \ {0}

VARIABLES
    policy,   \* the app_versions document
    storage,  \* the build each key holds
    rel,      \* the locals of each release job
    faults,
    uploads,  \* history: how often each key was written
    top,      \* history: the highest versionCode committed
    decided,  \* history: the floor last decided on
    overlaps  \* history: commits over a policy that changed since it was read

vars == <<policy, storage, rel, faults, uploads, top, decided, overlaps>>

-----------------------------------------------------------------------------
(* Types and null values *)

Keys == {b.version : b \in Builds}

\* A file is known by the versionCode of its build; 0 is a truncated one.
Contents == {b.versionCode : b \in Builds} \cup {0}

AppVersion == [currentVersion : Nat,
               versionCode : Nat,
               minVersion : Nat,
               forceUpdate : BOOLEAN,
               apkKey : Keys \cup {None},
               retiredApkKeys : Seq(Keys),
               sha256 : Contents \cup {None}]

\* No document: what a failed lookup leaves in prev.
NoPolicy == [currentVersion |-> 0, versionCode |-> 0, minVersion |-> 0,
             forceUpdate |-> FALSE, apkKey |-> None, retiredApkKeys |-> <<>>,
             sha256 |-> None]

Job == [pc : {"idle", "store", "commit", "evict"},
        prev : AppVersion,       \* the policy as it was read
        evicting : Seq(Keys \cup {None})]   \* what evict has yet to go through

Idle == [pc |-> "idle", prev |-> NoPolicy, evicting |-> <<>>]

TypeOK ==
    /\ policy \in AppVersion
    /\ storage \in [Keys -> Contents \cup {None}]
    /\ rel \in [Builds -> Job]
    /\ faults \in Nat
    /\ uploads \in [Keys -> Nat]
    /\ top \in Nat
    /\ decided \in Nat
    /\ overlaps \in Nat
    /\ Len(policy.retiredApkKeys) < ApkRetention

Init ==
    /\ policy = NoPolicy
    /\ storage = [k \in Keys |-> None]
    /\ rel = [b \in Builds |-> Idle]
    /\ faults = 0
    /\ uploads = [k \in Keys |-> 0]
    /\ top = 0
    /\ decided = 0
    /\ overlaps = 0

-----------------------------------------------------------------------------
(* Helpers *)

At(b, label) == rel[b].pc = label

GoTo(b, label) == rel' = [rel EXCEPT ![b].pc = label]

Finish(b) == rel' = [rel EXCEPT ![b] = Idle]

Fault == faults < MaxFaults /\ faults' = faults + 1

history == <<uploads, top, decided, overlaps>>

\* Bug for comparison: the code is not looked at.
AnyCode(code, prev) == TRUE

Monotonic(code, prev) == code > prev.versionCode

\* Bug for comparison: the list is never trimmed.
RetireAll(outgoing, existing) ==
    IF outgoing = None THEN existing ELSE <<outgoing>> \o existing

\* The outgoing key goes in front, and with the current one ApkRetention stay.
retire(outgoing, existing) ==
    IF outgoing = None THEN existing
    ELSE SubSeq(<<outgoing>> \o existing, 1,
                IF Len(existing) + 1 > ApkRetention - 1 THEN ApkRetention - 1
                ELSE Len(existing) + 1)

References(p) == ({p.apkKey} \cup ToSet(p.retiredApkKeys)) \ {None}

\* Bug for comparison: what the policy written still refers to goes as well.
Everything(prev, next) == <<prev.apkKey>> \o prev.retiredApkKeys

\* The keys of the policy read, with None in the place of those that evict
\* passes over: the policy written still refers to them.
Candidates(prev, next) ==
    LET keys == <<prev.apkKey>> \o prev.retiredApkKeys
    IN  [i \in DOMAIN keys |-> IF keys[i] \in References(next) THEN None ELSE keys[i]]

-----------------------------------------------------------------------------
(* Release *)

\* The policy is read and the versionCode checked against it.  A job that
\* failed may be run again.
Read(b) ==
    /\ At(b, "idle")
    /\ Monotonic(b.versionCode, policy)
    /\ rel' = [rel EXCEPT ![b] = [pc |-> IF b.artifact THEN "store" ELSE "commit",
                                  prev |-> policy, evicting |-> <<>>]]
    /\ UNCHANGED <<policy, storage, faults, history>>

\* storeArtifact: the key is made from the version, so another upload of the
\* version overwrites it.  A failed upload ends the release; the file system,
\* unlike S3, then keeps the truncated file.
StoreArtifact(b) ==
    /\ At(b, "store")
    /\ \/ /\ storage' = [storage EXCEPT ![b.version] = b.versionCode]
          /\ GoTo(b, "commit")
          /\ UNCHANGED faults
       \/ /\ storage' \in {storage, [storage EXCEPT ![b.version] = 0]}
          /\ Finish(b)
          /\ Fault
    /\ uploads' = [uploads EXCEPT ![b.version] = @ + 1]
    /\ UNCHANGED <<policy, top, decided, overlaps>>

\* The first release sets a floor, and so does a mandatory one.
SetsFloor(b, prev) == b.mandatory \/ prev = NoPolicy

\* Bug for comparison: every release is its own floor.
FloorAtEach(b, prev) == b.version

\* Any other release carries the floor it has read forward.
Floor(b, prev) == IF SetsFloor(b, prev) THEN b.version ELSE prev.minVersion

\* What FindOneAndUpdate leaves: without an artefact its three fields stay.
Updated(b, prev) ==
    LET base == [policy EXCEPT !.currentVersion = b.version,
                               !.versionCode = b.versionCode,
                               !.forceUpdate = b.mandatory,
                               !.minVersion = Floor(b, prev)]
    IN  IF ~b.artifact THEN base
        ELSE [base EXCEPT !.apkKey = b.version,
                          !.sha256 = b.versionCode,
                          !.retiredApkKeys = retire(prev.apkKey, prev.retiredApkKeys)]

\* What a release goes by in the policy it has read.
Basis(p) == <<p.versionCode, p.minVersion, p.apkKey, p.retiredApkKeys>>

Evicting(b, prev, keys) ==
    rel' = [rel EXCEPT ![b] = IF ToSet(keys) \subseteq {None} THEN Idle
                              ELSE [pc |-> "evict", prev |-> prev, evicting |-> keys]]

\* The policy is written whatever it says by now.
Commit(b) ==
    LET prev == rel[b].prev
    IN  /\ At(b, "commit")
        /\ policy' = Updated(b, prev)
        /\ Evicting(b, prev, Candidates(prev, Updated(b, prev)))
        /\ top' = IF b.versionCode > top THEN b.versionCode ELSE top
        /\ decided' = IF SetsFloor(b, prev) THEN b.version ELSE decided
        /\ overlaps' = IF Basis(prev) # Basis(policy) THEN overlaps + 1 ELSE overlaps
        /\ UNCHANGED <<storage, faults, uploads>>

\* The next delete of evict, whose failure is logged and passed over.
Evict(b) ==
    /\ At(b, "evict")
    /\ LET keys == rel[b].evicting
       IN  \E i \in DOMAIN keys :
              /\ keys[i] # None /\ \A j \in 1..i - 1 : keys[j] = None
              /\ \/ storage' = [storage EXCEPT ![keys[i]] = None] /\ UNCHANGED faults
                 \/ UNCHANGED storage /\ Fault
              /\ Evicting(b, rel[b].prev, SubSeq(keys, i + 1, Len(keys)))
    /\ UNCHANGED <<policy, history>>

-----------------------------------------------------------------------------
(* The administrator and the environment *)

\* AppVersionService.Upsert leaves the code and the artefacts alone.
Upsert(p) ==
    /\ policy' = [policy EXCEPT !.currentVersion = p.currentVersion,
                                !.minVersion = p.minVersion,
                                !.forceUpdate = p.forceUpdate]
    /\ decided' = p.minVersion
    /\ UNCHANGED <<storage, rel, faults, uploads, top, overlaps>>

\* The write of the policy failed, or the process went away: nothing is undone.
Abort(b) ==
    /\ ~At(b, "idle")
    /\ Fault
    /\ Finish(b)
    /\ UNCHANGED <<policy, storage, history>>

-----------------------------------------------------------------------------

Next ==
    \/ \E b \in Builds : Read(b) \/ StoreArtifact(b) \/ Commit(b) \/ Evict(b) \/ Abort(b)
    \/ \E p \in AdminPolicies : Upsert(p)

Spec == Init /\ [][Next]_vars

-----------------------------------------------------------------------------
(* Properties *)

\* The build a policy advertises is in storage and has the digest the policy
\* gives, however releases overlap and fail, if its key was written only once:
\* "a failure between the two leaves an orphaned file (harmless, evicted by the
\* next release) rather than a policy advertising a download that does not exist"
\* (appversion.service.go:306-309).  This is the second half of the sentence; the
\* words in brackets are not kept, see OrphanBudget.
AdvertisedIsStored ==
    policy.apkKey # None /\ uploads[policy.apkKey] <= 1
        => storage[policy.apkKey] = policy.sha256

\* Keys some release in flight has written and may still refer to, or is about
\* to delete.
InFlight(b) ==
    CASE At(b, "commit") /\ b.artifact -> {b.version}
      [] At(b, "evict") -> ToSet(rel[b].evicting)
      [] OTHER -> {}

Orphans ==
    {k \in Keys : /\ storage[k] # None
                  /\ k \notin References(policy)
                  /\ \A b \in Builds : k \notin InFlight(b)}

\* Files nothing will ever delete come only from calls that failed and from
\* releases that overwrote one another's policy, and each leaves a few.  They
\* do stay: a release evicts prev.APKKey and the retired keys, and an orphan is
\* in no policy, so no later release finds it, unless it is of the same version
\* and overwrites the file.  "evicted by the next release" is therefore not true.
OrphanBudget == Cardinality(Orphans) <= ApkRetention * (overlaps + faults)

\* The store holds what the policy says, and of what no policy names only as much
\* as failures and overlaps have left behind for good.
StorageKept == AdvertisedIsStored /\ OrphanBudget

\* The versionCode goes back only when a release overlaps another.
MonotonicAlone == overlaps = 0 => policy.versionCode = top

\* A release that is not mandatory leaves the floor where it was last decided,
\* and only a stale read moves it: "it nudges without locking anyone out".
FloorCarried == overlaps = 0 => policy.minVersion = decided

\* What one release decided stands until the next decides again.
PolicyKept == MonotonicAlone /\ FloorCarried
=============================================================================
