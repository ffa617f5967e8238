--------------------------- MODULE ServiceProofs ----------------------------
(***************************************************************************)
(* Theorems of Service for every set of builds and devices, every number   *)
(* of instances, requests, boots, lost connections and failed calls.       *)
(***************************************************************************)
EXTENDS Service, FiniteSetTheorems, SequenceTheorems, TLAPS

-----------------------------------------------------------------------------
(* Sequences of keys *)

\* One key in front of a sequence.
LEMMA Prepended ==
    ASSUME NEW S, NEW x \in S, NEW s \in Seq(S)
    PROVE  /\ <<x>> \o s \in Seq(S)
           /\ Len(<<x>> \o s) = Len(s) + 1
           /\ (<<x>> \o s)[1] = x
           /\ \A i \in 1..Len(s) : (<<x>> \o s)[i + 1] = s[i]
           /\ ToSet(<<x>> \o s) = {x} \cup ToSet(s)
<1>1. <<x>> \in Seq(S) /\ Len(<<x>>) = 1 /\ Len(s) \in Nat
  BY LenProperties
<1>2. /\ <<x>> \o s \in Seq(S) /\ Len(<<x>> \o s) = Len(s) + 1
      /\ \A i \in 1..1 + Len(s) : (<<x>> \o s)[i] = IF i <= 1 THEN <<x>>[i] ELSE s[i - 1]
  BY <1>1, ConcatProperties
<1>3. (<<x>> \o s)[1] = x
  BY <1>1, <1>2
<1>4. ASSUME NEW i \in 1..Len(s) PROVE (<<x>> \o s)[i + 1] = s[i]
  BY <1>1, <1>2
<1>5. DOMAIN (<<x>> \o s) = 1..Len(s) + 1 /\ DOMAIN s = 1..Len(s)
  BY <1>2, LenProperties
<1>6. ToSet(<<x>> \o s) \subseteq {x} \cup ToSet(s)
  <2> SUFFICES ASSUME NEW i \in 1..Len(s) + 1 PROVE (<<x>> \o s)[i] \in {x} \cup ToSet(s)
    BY <1>5 DEF ToSet
  <2>1. CASE i = 1
    BY <1>3, <2>1
  <2>2. CASE i # 1
    <3>1. i - 1 \in 1..Len(s) /\ i = (i - 1) + 1
      BY <1>1, <2>2
    <3> QED
      BY <1>4, <1>5, <3>1 DEF ToSet
  <2> QED
    BY <2>1, <2>2
<1>7. {x} \cup ToSet(s) \subseteq ToSet(<<x>> \o s)
  <2>1. x \in ToSet(<<x>> \o s)
    BY <1>1, <1>3, <1>5 DEF ToSet
  <2>2. ASSUME NEW i \in 1..Len(s) PROVE s[i] \in ToSet(<<x>> \o s)
    <3>1. i + 1 \in 1..Len(s) + 1
      BY <1>1
    <3> QED
      BY <1>4, <1>5, <3>1 DEF ToSet
  <2> QED
    BY <1>5, <2>1, <2>2 DEF ToSet
<1> QED
  BY <1>2, <1>3, <1>4, <1>6, <1>7

\* A sequence has at most as many elements as places.
LEMMA FewElements ==
    ASSUME NEW S, NEW s \in Seq(S)
    PROVE  /\ ToSet(s) \subseteq S /\ IsFiniteSet(ToSet(s))
           /\ Cardinality(ToSet(s)) <= Len(s)
<1>1. Len(s) \in Nat /\ DOMAIN s = 1..Len(s) /\ s \in [1..Len(s) -> S]
  BY LenProperties
<1>2. s \in Surjection(1..Len(s), ToSet(s))
  BY <1>1 DEF Surjection, ToSet
<1>3. IsFiniteSet(1..Len(s)) /\ Cardinality(1..Len(s)) = Len(s)
  BY <1>1, FS_Interval
<1>4. IsFiniteSet(ToSet(s)) /\ Cardinality(ToSet(s)) <= Cardinality(1..Len(s))
  BY <1>2, <1>3, FS_Surjection
<1> QED
  BY <1>1, <1>3, <1>4 DEF ToSet

-----------------------------------------------------------------------------
(* The model's operators *)

\* What the assumptions say of the keys and of the builds.
LEMMA KeyFacts ==
    /\ None \notin Keys
    /\ \A b \in Builds : /\ b.version \in Keys /\ b.version \in Nat
                         /\ b.versionCode \in Contents /\ b.versionCode \in Nat
                         /\ b.versionCode # 0
                         /\ b.mandatory \in BOOLEAN /\ b.artifact \in BOOLEAN
    /\ ApkRetention \in Nat /\ ApkRetention >= 1
  BY ReleaseAssumption DEF ReleaseInput, Keys, Contents

\* With the current artefact at most ApkRetention are kept, and the list of a
\* release names no key that the policy it has read does not.
LEMMA Retiring ==
    ASSUME NEW o \in Keys \cup {None}, NEW e \in Seq(Keys), Len(e) < ApkRetention
    PROVE  /\ retire(o, e) \in Seq(Keys) /\ Len(retire(o, e)) < ApkRetention
           /\ ToSet(retire(o, e)) \subseteq ({o} \cup ToSet(e)) \ {None}
<1>1. ToSet(e) \subseteq Keys /\ Len(e) \in Nat
  BY FewElements, LenProperties
<1>2. CASE o = None
  BY <1>1, <1>2, KeyFacts DEF retire
<1>3. CASE o # None
  <2>1. o \in Keys
    BY <1>3
  <2> DEFINE all == <<o>> \o e
             n == IF Len(e) + 1 > ApkRetention - 1 THEN ApkRetention - 1 ELSE Len(e) + 1
  <2>2. all \in Seq(Keys) /\ Len(all) = Len(e) + 1 /\ ToSet(all) = {o} \cup ToSet(e)
    BY <2>1, Prepended
  <2>3. n \in Nat /\ n <= Len(all) /\ n < ApkRetention
    BY <1>1, <2>2, KeyFacts
  <2>4. retire(o, e) = SubSeq(all, 1, n)
    BY <1>3 DEF retire
  <2> HIDE DEF all, n
  <2>5. \A i \in 1..n : all[i] \in Keys /\ all[i] \in ToSet(all)
    BY <2>2, <2>3, LenProperties, ElementOfSeq DEF ToSet
  <2>6. /\ SubSeq(all, 1, n) \in Seq(Keys)
        /\ Len(SubSeq(all, 1, n)) = IF 1 <= n THEN n - 1 + 1 ELSE 0
        /\ \A i \in 1..n - 1 + 1 : SubSeq(all, 1, n)[i] = all[1 + i - 1]
    BY <2>3, <2>5, SubSeqProperties
  <2>7. Len(SubSeq(all, 1, n)) = n /\ \A i \in 1..n : SubSeq(all, 1, n)[i] = all[i]
    BY <2>3, <2>6
  <2>8. DOMAIN SubSeq(all, 1, n) = 1..n
    BY <2>6, <2>7, LenProperties
  <2>9. ToSet(SubSeq(all, 1, n)) \subseteq ToSet(all)
    BY <2>5, <2>7, <2>8 DEF ToSet
  <2> QED
    BY <1>1, <2>1, <2>2, <2>3, <2>4, <2>6, <2>7, <2>9, KeyFacts
<1> QED
  BY <1>2, <1>3

\* evict goes through the keys of the policy read and deletes those the policy
\* written has let go of.
LEMMA CandidateKeys ==
    ASSUME NEW prev \in AppVersion, NEW next
    PROVE  /\ Candidates(prev, next) \in Seq(Keys \cup {None})
           /\ Len(Candidates(prev, next)) = Len(prev.retiredApkKeys) + 1
           /\ ToSet(Candidates(prev, next)) \ {None} = References(prev) \ References(next)
<1> DEFINE keys == <<prev.apkKey>> \o prev.retiredApkKeys
           K == Keys \cup {None}
<1>1. prev.apkKey \in K /\ prev.retiredApkKeys \in Seq(Keys)
  BY DEF AppVersion
<1>2. prev.retiredApkKeys \in Seq(K)
  BY <1>1, SeqMonotonic
<1> HIDE DEF K
<1>3. /\ keys \in Seq(K) /\ Len(keys) = Len(prev.retiredApkKeys) + 1
      /\ ToSet(keys) = {prev.apkKey} \cup ToSet(prev.retiredApkKeys)
  BY <1>1, <1>2, Prepended
<1> HIDE DEF keys
<1>4. DOMAIN keys = 1..Len(keys) /\ Len(keys) \in Nat /\ \A i \in 1..Len(keys) : keys[i] \in K
  BY <1>3, LenProperties, ElementOfSeq
<1>5. Candidates(prev, next) =
         [i \in 1..Len(keys) |-> IF keys[i] \in References(next) THEN None ELSE keys[i]]
  BY <1>4 DEF Candidates, keys
<1>6. /\ Candidates(prev, next) \in [1..Len(keys) -> K]
      /\ DOMAIN Candidates(prev, next) = 1..Len(keys)
  BY <1>4, <1>5 DEF K
<1>7. Candidates(prev, next) \in Seq(K) /\ Len(Candidates(prev, next)) = Len(keys)
  BY <1>4, <1>6
<1>8. ToSet(Candidates(prev, next)) \ {None} = (ToSet(keys) \ {None}) \ References(next)
  BY <1>4, <1>5, <1>6 DEF ToSet
<1>9. References(prev) = ToSet(keys) \ {None}
  BY <1>3 DEF References
<1> QED
  BY <1>3, <1>7, <1>8, <1>9 DEF K

\* A policy refers to at most ApkRetention artefacts.
LEMMA FewReferences ==
    ASSUME NEW p \in AppVersion, Len(p.retiredApkKeys) < ApkRetention
    PROVE  /\ References(p) \subseteq Keys /\ IsFiniteSet(References(p))
           /\ Cardinality(References(p)) <= ApkRetention
<1>1. p.apkKey \in Keys \cup {None} /\ p.retiredApkKeys \in Seq(Keys)
  BY DEF AppVersion
<1> DEFINE old == ToSet(p.retiredApkKeys)
<1>2. old \subseteq Keys /\ IsFiniteSet(old) /\ Cardinality(old) <= Len(p.retiredApkKeys)
  BY <1>1, FewElements
<1> HIDE DEF old
<1>3. /\ IsFiniteSet(old \cup {p.apkKey})
      /\ Cardinality(old \cup {p.apkKey}) <= Cardinality(old) + 1
      /\ Cardinality(old) \in Nat /\ Len(p.retiredApkKeys) \in Nat
  <2>1. Cardinality(old) \in Nat
    BY <1>2, FS_CardinalityType
  <2>2. /\ IsFiniteSet(old \cup {p.apkKey})
        /\ Cardinality(old \cup {p.apkKey}) =
              IF p.apkKey \in old THEN Cardinality(old) ELSE Cardinality(old) + 1
    BY <1>2, FS_AddElement
  <2> QED
    BY <1>1, <2>1, <2>2, LenProperties
<1>4. References(p) \subseteq old \cup {p.apkKey}
  BY DEF References, old
<1>5. /\ IsFiniteSet(References(p))
      /\ Cardinality(References(p)) <= Cardinality(old \cup {p.apkKey})
  BY <1>3, <1>4, FS_Subset
<1>6. Cardinality(References(p)) \in Nat /\ Cardinality(old \cup {p.apkKey}) \in Nat
  BY <1>3, <1>5, FS_CardinalityType
<1>7. References(p) \subseteq Keys
  BY <1>1, <1>2 DEF References, old
<1> QED
  BY <1>2, <1>3, <1>5, <1>6, <1>7, KeyFacts

\* A platform without a document refers to nothing.
LEMMA NothingReferred ==
    NoPolicy \in AppVersion /\ Len(NoPolicy.retiredApkKeys) = 0 /\ References(NoPolicy) = {}
<1>1. <<>> \in Seq(Keys) /\ Len(<<>>) = 0 /\ DOMAIN <<>> = {}
  BY EmptySeq
<1>2. ToSet(<<>>) = {}
  BY <1>1 DEF ToSet
<1> QED
  BY <1>1, <1>2 DEF NoPolicy, AppVersion, References

-----------------------------------------------------------------------------
(* Type correctness *)

\* A job goes by a policy that kept the bound on its artefacts, and has no more
\* to evict than that policy had.
JobSound(job) ==
    /\ Len(job.prev.retiredApkKeys) < ApkRetention
    /\ Len(job.evicting) <= ApkRetention
    /\ job.pc = "idle" => job = Idle
    /\ job.pc # "evict" => job.evicting = <<>>

\* That of every release job.
JobsSound == \A b \in Builds : JobSound(rel[b])

\* The types and the locals of the jobs.
TInv == TypeOK /\ JobsSound

\* An idle job is well typed.
LEMMA IdleType == Idle \in Job /\ JobSound(Idle) /\ Idle.pc = "idle"
<1>1. <<>> \in Seq(Keys \cup {None}) /\ Len(<<>>) = 0
  BY EmptySeq
<1> QED
  BY <1>1, NothingReferred, KeyFacts DEF Idle, Job, JobSound

\* No policy, nothing in storage and no job is well typed.
LEMMA InitTyped == Init => TInv
<1> SUFFICES ASSUME Init PROVE TInv
  OBVIOUS
<1>1. TypeOK
  BY IdleType, NothingReferred, KeyFacts DEF Init, TypeOK
<1>2. JobsSound
  BY IdleType DEF Init, JobsSound
<1> QED
  BY <1>1, <1>2 DEF TInv

\* What a release writes is a policy, and keeps the bound.
LEMMA UpdatedType ==
    ASSUME TInv, NEW b \in Builds, NEW prev \in AppVersion,
           Len(prev.retiredApkKeys) < ApkRetention
    PROVE  /\ Updated(b, prev) \in AppVersion
           /\ Len(Updated(b, prev).retiredApkKeys) < ApkRetention
           /\ Updated(b, prev).versionCode = b.versionCode
           /\ Updated(b, prev).minVersion = Floor(b, prev)
           /\ ~b.artifact => /\ Updated(b, prev).apkKey = policy.apkKey
                             /\ Updated(b, prev).sha256 = policy.sha256
                             /\ Updated(b, prev).retiredApkKeys = policy.retiredApkKeys
           /\ b.artifact => /\ Updated(b, prev).apkKey = b.version
                            /\ Updated(b, prev).sha256 = b.versionCode
                            /\ Updated(b, prev).retiredApkKeys =
                                  retire(prev.apkKey, prev.retiredApkKeys)
<1>1. policy \in AppVersion /\ Len(policy.retiredApkKeys) < ApkRetention
  BY DEF TInv, TypeOK
<1>2. Floor(b, prev) \in Nat
  BY KeyFacts DEF Floor, AppVersion
<1> DEFINE base == [policy EXCEPT !.currentVersion = b.version,
                                  !.versionCode = b.versionCode,
                                  !.forceUpdate = b.mandatory,
                                  !.minVersion = Floor(b, prev)]
<1>3. /\ base \in AppVersion
      /\ base.versionCode = b.versionCode /\ base.minVersion = Floor(b, prev)
      /\ base.apkKey = policy.apkKey /\ base.sha256 = policy.sha256
      /\ base.retiredApkKeys = policy.retiredApkKeys
  BY <1>1, <1>2, KeyFacts DEF AppVersion
<1>4. Updated(b, prev) =
         IF ~b.artifact THEN base
         ELSE [base EXCEPT !.apkKey = b.version, !.sha256 = b.versionCode,
                           !.retiredApkKeys = retire(prev.apkKey, prev.retiredApkKeys)]
  BY DEF Updated
<1> HIDE DEF base
<1>5. /\ retire(prev.apkKey, prev.retiredApkKeys) \in Seq(Keys)
      /\ Len(retire(prev.apkKey, prev.retiredApkKeys)) < ApkRetention
  BY Retiring DEF AppVersion
<1>6. CASE ~b.artifact
  BY <1>1, <1>3, <1>4, <1>6
<1>7. CASE b.artifact
  BY <1>3, <1>4, <1>5, <1>7, KeyFacts DEF AppVersion
<1> QED
  BY <1>6, <1>7

\* What is left of a list of keys.
LEMMA RestOfKeys ==
    ASSUME NEW S, NEW s \in Seq(S), NEW i \in 1..Len(s)
    PROVE  /\ SubSeq(s, i + 1, Len(s)) \in Seq(S)
           /\ Len(SubSeq(s, i + 1, Len(s))) <= Len(s)
           /\ ToSet(SubSeq(s, i + 1, Len(s))) \subseteq ToSet(s)
           /\ \A k \in ToSet(s) :
                 \/ k \in ToSet(SubSeq(s, i + 1, Len(s)))
                 \/ \E j \in 1..i : k = s[j]
<1>1. /\ Len(s) \in Nat /\ DOMAIN s = 1..Len(s) /\ i \in Nat
      /\ \A j \in i + 1..Len(s) : s[j] \in S
  BY LenProperties, ElementOfSeq
<1>0. Len(s) \in Nat /\ i \in Nat /\ 1 <= i /\ i <= Len(s)
  BY <1>1
<1> DEFINE rest == SubSeq(s, i + 1, Len(s))
<1>2. /\ rest \in Seq(S)
      /\ Len(rest) = IF i + 1 <= Len(s) THEN Len(s) - (i + 1) + 1 ELSE 0
      /\ \A j \in 1..Len(s) - (i + 1) + 1 : rest[j] = s[i + 1 + j - 1]
  BY <1>1, SubSeqProperties
<1> HIDE DEF rest
<1>3. /\ Len(rest) = Len(s) - i /\ DOMAIN rest = 1..Len(s) - i
      /\ \A j \in 1..Len(s) - i : rest[j] = s[i + j]
  <2>1. Len(s) - (i + 1) + 1 = Len(s) - i
    BY <1>1
  <2>2. Len(rest) = Len(s) - i
    <3>1. CASE i + 1 <= Len(s)
      BY <1>2, <2>1, <3>1
    <3>2. CASE ~(i + 1 <= Len(s))
      <4>1. i = Len(s)
        BY <1>0, <3>2
      <4> QED
        BY <1>0, <1>2, <3>2, <4>1
    <3> QED
      BY <3>1, <3>2
  <2>3. DOMAIN rest = 1..Len(s) - i
    BY <1>2, <2>2, LenProperties
  <2>4. ASSUME NEW j \in 1..Len(s) - i PROVE rest[j] = s[i + j]
    <3>1. i + 1 + j - 1 = i + j
      BY <1>1
    <3> QED
      BY <1>2, <2>1, <3>1
  <2> QED
    BY <2>2, <2>3, <2>4
<1>4. ToSet(rest) \subseteq ToSet(s)
  <2> SUFFICES ASSUME NEW j \in 1..Len(s) - i PROVE rest[j] \in ToSet(s)
    BY <1>3 DEF ToSet
  <2>1. i + j \in 1..Len(s)
    BY <1>1
  <2> QED
    BY <1>1, <1>3, <2>1 DEF ToSet
<1>5. ASSUME NEW m \in 1..Len(s), ~(m \in 1..i)
      PROVE  s[m] \in ToSet(rest)
  <2>1. m - i \in 1..Len(s) - i /\ i + (m - i) = m
    BY <1>1, <1>5
  <2> QED
    BY <1>3, <2>1 DEF ToSet
<1>6. \A k \in ToSet(s) : k \in ToSet(rest) \/ \E j \in 1..i : k = s[j]
  BY <1>1, <1>5 DEF ToSet
<1>7. Len(rest) <= Len(s)
  BY <1>1, <1>3
<1> QED
  BY <1>2, <1>4, <1>6, <1>7 DEF rest

\* A job that is given a sound state leaves the jobs typed and sound.
LEMMA JobStep ==
    ASSUME TInv, NEW b \in Builds, NEW job \in Job, JobSound(job),
           rel' = [rel EXCEPT ![b] = job]
    PROVE  rel' \in [Builds -> Job] /\ JobsSound' /\ rel'[b] = job
<1>1. rel \in [Builds -> Job] /\ JobsSound
  BY DEF TInv, TypeOK
<1>2. \A c \in Builds : rel'[c] = IF c = b THEN job ELSE rel[c]
  BY <1>1
<1> QED
  BY <1>1, <1>2 DEF JobsSound

\* What is left to evict after any step of evict.
LEMMA EvictingType ==
    ASSUME TInv, NEW b \in Builds, NEW prev \in AppVersion,
           Len(prev.retiredApkKeys) < ApkRetention,
           NEW keys \in Seq(Keys \cup {None}), Len(keys) <= ApkRetention,
           Evicting(b, prev, keys)
    PROVE  /\ rel' \in [Builds -> Job] /\ JobsSound'
           /\ \A c \in Builds \ {b} : rel'[c] = rel[c]
           /\ \/ rel'[b] = Idle /\ ToSet(keys) \subseteq {None}
              \/ rel'[b] = [pc |-> "evict", prev |-> prev, evicting |-> keys]
<1> DEFINE job == IF ToSet(keys) \subseteq {None} THEN Idle
                  ELSE [pc |-> "evict", prev |-> prev, evicting |-> keys]
<1>1. rel' = [rel EXCEPT ![b] = job]
  BY DEF Evicting
<1>2. job \in Job /\ JobSound(job)
  BY IdleType DEF Job, JobSound
<1>3. (job = Idle /\ ToSet(keys) \subseteq {None})
      \/ job = [pc |-> "evict", prev |-> prev, evicting |-> keys]
  OBVIOUS
<1> HIDE DEF job
<1>4. \A c \in Builds \ {b} : rel'[c] = rel[c]
  BY <1>1 DEF TInv, TypeOK
<1> QED
  BY <1>1, <1>2, <1>3, <1>4, JobStep

\* The fields of a job.
LEMMA JobFields ==
    ASSUME TInv, NEW b \in Builds
    PROVE  /\ rel[b] \in Job /\ JobSound(rel[b])
           /\ rel[b].prev \in AppVersion /\ Len(rel[b].prev.retiredApkKeys) < ApkRetention
           /\ rel[b].evicting \in Seq(Keys \cup {None}) /\ Len(rel[b].evicting) <= ApkRetention
  BY DEF TInv, TypeOK, JobsSound, JobSound, Job

\* Everything a release does leaves the state well typed.
LEMMA ReleaseTyped ==
    ASSUME TInv, NEW b \in Builds,
           Read(b) \/ StoreArtifact(b) \/ Commit(b) \/ Evict(b) \/ Abort(b)
    PROVE  TInv'
<1>0. TypeOK /\ JobsSound /\ rel \in [Builds -> Job]
  BY DEF TInv, TypeOK
<1>1. ASSUME Read(b) PROVE TInv'
  <2> DEFINE job == [pc |-> IF b.artifact THEN "store" ELSE "commit",
                     prev |-> policy, evicting |-> <<>>]
  <2>1. job \in Job /\ JobSound(job)
    BY <1>0, EmptySeq, KeyFacts DEF TypeOK, Job, JobSound
  <2>2. rel' = [rel EXCEPT ![b] = job]
    BY <1>1 DEF Read
  <2> HIDE DEF job
  <2>3. rel' \in [Builds -> Job] /\ JobsSound'
    BY <2>1, <2>2, JobStep
  <2> QED
    BY <1>0, <1>1, <2>3 DEF Read, TInv, TypeOK, history
<1>2. ASSUME StoreArtifact(b) PROVE TInv'
  <2>1. rel' \in [Builds -> Job] /\ JobsSound'
    <3>1. CASE GoTo(b, "commit")
      <4> DEFINE job == [rel[b] EXCEPT !.pc = "commit"]
      <4>1. job \in Job /\ JobSound(job)
        BY <1>2, JobFields DEF Job, JobSound, StoreArtifact, At
      <4>2. rel' = [rel EXCEPT ![b] = job]
        BY <3>1 DEF GoTo
      <4> HIDE DEF job
      <4> QED
        BY <4>1, <4>2, JobStep
    <3>2. CASE Finish(b)
      BY <3>2, IdleType, JobStep DEF Finish
    <3> QED
      BY <1>2, <3>1, <3>2 DEF StoreArtifact
  <2>2. storage' \in [Keys -> Contents \cup {None}]
    <3>1. b.version \in Keys /\ b.versionCode \in Contents /\ 0 \in Contents
      BY KeyFacts DEF Contents
    <3>2. storage \in [Keys -> Contents \cup {None}]
      BY <1>0 DEF TypeOK
    <3>3. \/ storage' = storage
          \/ storage' = [storage EXCEPT ![b.version] = b.versionCode]
          \/ storage' = [storage EXCEPT ![b.version] = 0]
      BY <1>2 DEF StoreArtifact
    <3> QED
      BY <3>1, <3>2, <3>3
  <2>3. faults' \in Nat /\ uploads' \in [Keys -> Nat]
    BY <1>0, <1>2, KeyFacts DEF StoreArtifact, Fault, TypeOK
  <2> QED
    BY <1>0, <1>2, <2>1, <2>2, <2>3 DEF StoreArtifact, TInv, TypeOK
<1>3. ASSUME Commit(b) PROVE TInv'
  <2> DEFINE prev == rel[b].prev
             keys == Candidates(prev, Updated(b, prev))
  <2>1. prev \in AppVersion /\ Len(prev.retiredApkKeys) < ApkRetention
    BY JobFields
  <2>2. policy' = Updated(b, prev) /\ Evicting(b, prev, keys)
    BY <1>3 DEF Commit
  <2> HIDE DEF prev
  <2>3. policy' \in AppVersion /\ Len(policy'.retiredApkKeys) < ApkRetention
    BY <2>1, <2>2, UpdatedType
  <2>4. keys \in Seq(Keys \cup {None}) /\ Len(keys) = Len(prev.retiredApkKeys) + 1
    BY <2>1, CandidateKeys
  <2>5. Len(keys) <= ApkRetention
    BY <2>1, <2>4, KeyFacts, LenProperties DEF AppVersion
  <2> HIDE DEF keys
  <2>6. rel' \in [Builds -> Job] /\ JobsSound'
    BY <2>1, <2>2, <2>4, <2>5, EvictingType
  <2>7. top' \in Nat /\ decided' \in Nat /\ overlaps' \in Nat
    BY <1>0, <1>3, KeyFacts DEF Commit, TypeOK
  <2> QED
    BY <1>0, <1>3, <2>3, <2>6, <2>7 DEF Commit, TInv, TypeOK
<1>4. ASSUME Evict(b) PROVE TInv'
  <2> DEFINE keys == rel[b].evicting
  <2>1. keys \in Seq(Keys \cup {None}) /\ Len(keys) <= ApkRetention /\ Len(keys) \in Nat
    BY JobFields, LenProperties
  <2>2. PICK i \in DOMAIN keys :
           /\ keys[i] # None
           /\ \/ storage' = [storage EXCEPT ![keys[i]] = None] /\ UNCHANGED faults
              \/ UNCHANGED storage /\ Fault
           /\ Evicting(b, rel[b].prev, SubSeq(keys, i + 1, Len(keys)))
    BY <1>4 DEF Evict
  <2>3. i \in 1..Len(keys) /\ keys[i] \in Keys
    BY <2>1, <2>2, LenProperties, ElementOfSeq
  <2>4. /\ SubSeq(keys, i + 1, Len(keys)) \in Seq(Keys \cup {None})
        /\ Len(SubSeq(keys, i + 1, Len(keys))) <= Len(keys)
    BY <2>1, <2>3, RestOfKeys
  <2>5. Len(SubSeq(keys, i + 1, Len(keys))) <= ApkRetention
    BY <2>1, <2>4, LenProperties, KeyFacts
  <2> HIDE DEF keys
  <2>6. rel' \in [Builds -> Job] /\ JobsSound'
    BY <2>2, <2>4, <2>5, EvictingType, JobFields
  <2>7. storage' \in [Keys -> Contents \cup {None}] /\ faults' \in Nat
    <3>1. storage \in [Keys -> Contents \cup {None}] /\ faults \in Nat
      BY <1>0 DEF TypeOK
    <3>2. CASE storage' = [storage EXCEPT ![keys[i]] = None] /\ UNCHANGED faults
      BY <2>3, <3>1, <3>2
    <3>3. CASE UNCHANGED storage /\ Fault
      BY <3>1, <3>3 DEF Fault
    <3> QED
      BY <2>2, <3>2, <3>3
  <2> QED
    BY <1>0, <1>4, <2>6, <2>7 DEF Evict, TInv, TypeOK, history
<1>5. ASSUME Abort(b) PROVE TInv'
  <2>1. rel' \in [Builds -> Job] /\ JobsSound'
    BY <1>5, IdleType, JobStep DEF Abort, Finish
  <2>2. faults' \in Nat
    BY <1>0, <1>5 DEF Abort, Fault, TypeOK
  <2> QED
    BY <1>0, <1>5, <2>1, <2>2 DEF Abort, TInv, TypeOK, history
<1> QED
  BY <1>1, <1>2, <1>3, <1>4, <1>5

\* Every step leaves the state well typed.
LEMMA NextTyped == TInv /\ [Next]_vars => TInv'
<1> SUFFICES ASSUME TInv, [Next]_vars PROVE TInv'
  OBVIOUS
<1>1. ASSUME NEW p \in AdminPolicies, Upsert(p) PROVE TInv'
  <2>1. policy' \in AppVersion /\ policy'.retiredApkKeys = policy.retiredApkKeys /\ decided' \in Nat
    BY <1>1, ReleaseAssumption DEF Upsert, TInv, TypeOK, AppVersion
  <2> QED
    BY <1>1, <2>1 DEF Upsert, TInv, TypeOK, JobsSound
<1>2. CASE UNCHANGED vars
  BY <1>2 DEF vars, TInv, TypeOK, JobsSound
<1> QED
  BY <1>1, <1>2, ReleaseTyped DEF Next

\* The policy, the store and the jobs stay well typed, and a policy never keeps
\* more artefacts than apkRetention, the current one included.
THEOREM ReleaseTypeCorrect == Spec => []TypeOK
<1>1. TInv => TypeOK
  BY DEF TInv
<1> QED
  BY <1>1, InitTyped, NextTyped, PTL DEF Spec

-----------------------------------------------------------------------------
(* The policy *)

\* While no release has overlapped another, the policy is what the last decision
\* made it, and a job under way has read a code below its own.
PInv ==
    overlaps = 0 =>
        /\ policy.versionCode = top
        /\ policy.minVersion = decided
        /\ \A b \in Builds : rel[b].pc \in {"store", "commit"} =>
              rel[b].prev.versionCode < b.versionCode

\* Nothing has been decided.
LEMMA InitPolicy == Init => PInv
BY DEF Init, PInv, NoPolicy, Idle

\* A release that is alone carries on from what it read.
LEMMA NextPolicy == TInv /\ PInv /\ [Next]_vars => PInv'
<1> SUFFICES ASSUME TInv, PInv, [Next]_vars PROVE PInv'
  OBVIOUS
<1>0. /\ rel \in [Builds -> Job] /\ policy \in AppVersion
      /\ top \in Nat /\ decided \in Nat /\ overlaps \in Nat
  BY DEF TInv, TypeOK
<1>1. ASSUME NEW b \in Builds, Read(b) PROVE PInv'
  BY <1>0, <1>1 DEF Read, Monotonic, PInv, history
<1>2. ASSUME NEW b \in Builds, StoreArtifact(b) \/ Abort(b) PROVE PInv'
  <2>1. \A c \in Builds : rel'[c].pc \in {"store", "commit"} =>
           rel[c].pc \in {"store", "commit"} /\ rel'[c].prev = rel[c].prev
    <3>1. CASE GoTo(b, "commit") /\ rel[b].pc = "store"
      BY <1>0, <3>1 DEF GoTo, Job
    <3>2. CASE Finish(b)
      BY <1>0, <3>2 DEF Finish, Idle, Job
    <3> QED
      BY <1>2, <3>1, <3>2 DEF StoreArtifact, Abort, At
  <2> QED
    BY <1>2, <2>1 DEF StoreArtifact, Abort, PInv, history
<1>3. ASSUME NEW b \in Builds, Commit(b) PROVE PInv'
  <2> DEFINE prev == rel[b].prev
  <2> SUFFICES ASSUME overlaps' = 0
               PROVE  /\ policy'.versionCode = top' /\ policy'.minVersion = decided'
                      /\ \A c \in Builds : rel'[c].pc \in {"store", "commit"} =>
                            rel'[c].prev.versionCode < c.versionCode
    BY DEF PInv
  <2>1. overlaps = 0 /\ Basis(prev) = Basis(policy)
    BY <1>0, <1>3 DEF Commit
  <2>2. prev.versionCode = policy.versionCode /\ prev.minVersion = policy.minVersion
    BY <2>1 DEF Basis
  <2>3. prev.versionCode < b.versionCode
    BY <1>3, <2>1 DEF Commit, At, PInv
  <2>4. prev \in AppVersion /\ Len(prev.retiredApkKeys) < ApkRetention
    BY JobFields
  <2>5. policy'.versionCode = b.versionCode /\ policy'.minVersion = Floor(b, prev)
    BY <1>3, <2>4, UpdatedType DEF Commit
  <2>6. top' = b.versionCode
    BY <1>0, <1>3, <2>1, <2>2, <2>3, KeyFacts DEF Commit, PInv
  <2>7. Floor(b, prev) = decided'
    BY <1>3, <2>1, <2>2 DEF Commit, Floor, PInv
  <2>8. \A c \in Builds : rel'[c].pc \in {"store", "commit"} => rel'[c] = rel[c]
    BY <1>0, <1>3 DEF Commit, Evicting, Idle, Job
  <2> QED
    BY <2>1, <2>5, <2>6, <2>7, <2>8 DEF PInv
<1>4. ASSUME NEW b \in Builds, Evict(b) PROVE PInv'
  <2>1. \A c \in Builds : rel'[c].pc \in {"store", "commit"} => rel'[c] = rel[c]
    BY <1>0, <1>4 DEF Evict, Evicting, Idle, Job
  <2> QED
    BY <1>4, <2>1 DEF Evict, PInv, history
<1>5. ASSUME NEW p \in AdminPolicies, Upsert(p) PROVE PInv'
  BY <1>0, <1>5 DEF Upsert, AppVersion, PInv
<1>6. CASE UNCHANGED vars
  BY <1>6 DEF vars, PInv
<1> QED
  BY <1>1, <1>2, <1>3, <1>4, <1>5, <1>6 DEF Next

\* The policy is what the last decision made it.
LEMMA PolicyGoal == PInv => PolicyKept
BY DEF PInv, PolicyKept, MonotonicAlone, FloorCarried

\* A release alone never lowers the versionCode, and one that is not mandatory
\* carries forward the floor that was last decided on.
THEOREM DecisionsStand == Spec => []PolicyKept
  BY InitTyped, NextTyped, InitPolicy, NextPolicy, PolicyGoal, PTL DEF Spec

-----------------------------------------------------------------------------
(* The artefact a policy advertises *)

\* A job has stored the artefact of key k and is about to advertise it.
Holds(b, k) == rel[b].pc = "commit" /\ b.artifact /\ b.version = k

\* Some policy that is in force or was read, or some eviction, names k.
Named(k) ==
    \/ k \in References(policy)
    \/ \E b \in Builds : k \in References(rel[b].prev) \/ k \in ToSet(rel[b].evicting)

\* A key that was written at most once is named only after its one upload was
\* committed, and once it is advertised nothing is about to delete it.
SInv ==
    \A k \in Keys : uploads[k] <= 1 =>
        /\ uploads[k] = 0 => ~Named(k) /\ \A b \in Builds : ~Holds(b, k)
        /\ \A b \in Builds : Holds(b, k) =>
              /\ ~Named(k) /\ storage[k] = b.versionCode
              /\ \A c \in Builds : Holds(c, k) => c = b
        /\ policy.apkKey = k =>
              /\ storage[k] = policy.sha256
              /\ \A b \in Builds : k \notin ToSet(rel[b].evicting)

\* What the policy refers to once a release has written it.
LEMMA UpdatedReferences ==
    ASSUME TInv, NEW b \in Builds, NEW prev \in AppVersion,
           Len(prev.retiredApkKeys) < ApkRetention
    PROVE  /\ ~b.artifact => References(Updated(b, prev)) = References(policy)
           /\ b.artifact => /\ b.version \in References(Updated(b, prev))
                            /\ References(Updated(b, prev)) \subseteq {b.version} \cup References(prev)
<1>1. CASE ~b.artifact
  BY <1>1, UpdatedType DEF References
<1>2. CASE b.artifact
  <2>1. /\ Updated(b, prev).apkKey = b.version
        /\ Updated(b, prev).retiredApkKeys = retire(prev.apkKey, prev.retiredApkKeys)
    BY <1>2, UpdatedType
  <2>2. ToSet(retire(prev.apkKey, prev.retiredApkKeys)) \subseteq References(prev)
    BY Retiring DEF AppVersion, References
  <2>3. b.version # None
    BY KeyFacts
  <2> QED
    BY <1>2, <2>1, <2>2, <2>3 DEF References
<1> QED
  BY <1>1, <1>2

\* The empty list has no keys.
LEMMA NoKeys == ToSet(<<>>) = {} /\ ToSet(Idle.evicting) = {} /\ References(Idle.prev) = {}
<1>1. DOMAIN <<>> = {}
  BY EmptySeq
<1> QED
  BY <1>1, NothingReferred DEF ToSet, Idle

\* A step that writes no key, names none and commits nothing keeps what is
\* advertised in storage.
LEMMA QuietStep ==
    ASSUME TInv, SInv,
           uploads' = uploads, storage' = storage,
           policy'.apkKey = policy.apkKey, policy'.sha256 = policy.sha256,
           \A k \in Keys : Named(k)' => Named(k),
           \A k \in Keys, b \in Builds : Holds(b, k)' => Holds(b, k),
           \A b \in Builds : ToSet(rel'[b].evicting) \subseteq ToSet(rel[b].evicting)
    PROVE  SInv'
  BY DEF SInv

\* Reading the policy.
LEMMA ReadKeepsStored ==
    ASSUME TInv, SInv, NEW b \in Builds, Read(b)
    PROVE  SInv'
<1>1. /\ rel \in [Builds -> Job] /\ policy' = policy
      /\ rel'[b] = [pc |-> IF b.artifact THEN "store" ELSE "commit",
                    prev |-> policy, evicting |-> <<>>]
      /\ \A c \in Builds \ {b} : rel'[c] = rel[c]
  BY DEF TInv, TypeOK, Read
<1>2. \A k \in Keys : Named(k)' => Named(k)
  BY <1>1, NoKeys DEF Named
<1>3. \A k \in Keys, c \in Builds : Holds(c, k)' => Holds(c, k)
  BY <1>1 DEF Holds
<1>4. \A c \in Builds : ToSet(rel'[c].evicting) \subseteq ToSet(rel[c].evicting)
  BY <1>1, NoKeys
<1> QED
  BY <1>1, <1>2, <1>3, <1>4, QuietStep DEF Read, history

\* Giving up.
LEMMA AbortKeepsStored ==
    ASSUME TInv, SInv, NEW b \in Builds, Abort(b)
    PROVE  SInv'
<1>1. /\ rel \in [Builds -> Job] /\ policy' = policy /\ rel'[b] = Idle
      /\ \A c \in Builds \ {b} : rel'[c] = rel[c]
  BY DEF TInv, TypeOK, Abort, Finish
<1>2. \A k \in Keys : Named(k)' => Named(k)
  BY <1>1, NoKeys DEF Named
<1>3. \A k \in Keys, c \in Builds : Holds(c, k)' => Holds(c, k)
  BY <1>1, IdleType DEF Holds
<1>4. \A c \in Builds : ToSet(rel'[c].evicting) \subseteq ToSet(rel[c].evicting)
  BY <1>1, NoKeys
<1> QED
  BY <1>1, <1>2, <1>3, <1>4, QuietStep DEF Abort, history

\* Writing the store: only a key that was written before may change under a
\* policy or a job.
LEMMA StoreKeepsStored ==
    ASSUME TInv, SInv, NEW b \in Builds, StoreArtifact(b)
    PROVE  SInv'
<1>0. /\ rel \in [Builds -> Job] /\ uploads \in [Keys -> Nat]
      /\ storage \in [Keys -> Contents \cup {None}] /\ b.version \in Keys
  BY KeyFacts DEF TInv, TypeOK
<1>1. /\ policy' = policy /\ uploads'[b.version] = uploads[b.version] + 1
      /\ \A k \in Keys \ {b.version} : uploads'[k] = uploads[k] /\ storage'[k] = storage[k]
      /\ \A c \in Builds \ {b} : rel'[c] = rel[c]
  BY <1>0 DEF StoreArtifact, GoTo, Finish
<1>2. \/ /\ rel'[b].pc = "commit" /\ storage'[b.version] = b.versionCode
         /\ rel'[b].prev = rel[b].prev /\ rel'[b].evicting = rel[b].evicting
      \/ rel'[b] = Idle
  <2>1. CASE GoTo(b, "commit") /\ storage' = [storage EXCEPT ![b.version] = b.versionCode]
    BY <1>0, <2>1 DEF GoTo, Job
  <2>2. CASE Finish(b)
    BY <1>0, <2>2 DEF Finish
  <2> QED
    BY <2>1, <2>2 DEF StoreArtifact
<1>3. \A k \in Keys : Named(k)' => Named(k)
  BY <1>1, <1>2, NoKeys DEF Named
<1>4. \A c \in Builds : ToSet(rel'[c].evicting) \subseteq ToSet(rel[c].evicting)
  BY <1>1, <1>2, NoKeys
<1>5. \A k \in Keys, c \in Builds : Holds(c, k)' => Holds(c, k) \/ (c = b /\ k = b.version)
  BY <1>1 DEF Holds
<1> SUFFICES ASSUME NEW k \in Keys, uploads'[k] <= 1
             PROVE  /\ uploads'[k] = 0 => ~Named(k)' /\ \A c \in Builds : ~Holds(c, k)'
                    /\ \A c \in Builds : Holds(c, k)' =>
                          /\ ~Named(k)' /\ storage'[k] = c.versionCode
                          /\ \A d \in Builds : Holds(d, k)' => d = c
                    /\ policy'.apkKey = k =>
                          /\ storage'[k] = policy'.sha256
                          /\ \A c \in Builds : k \notin ToSet(rel'[c].evicting)
  BY DEF SInv
<1>6. CASE k = b.version
  <2>1. uploads[k] = 0
    BY <1>0, <1>1, <1>6
  <2>2. ~Named(k) /\ \A c \in Builds : ~Holds(c, k)
    BY <2>1 DEF SInv
  <2>3. policy.apkKey # k
    BY <2>2, KeyFacts DEF Named, References
  <2>4. \A c \in Builds : Holds(c, k)' => c = b /\ storage'[k] = b.versionCode
    BY <1>2, <1>5, <1>6, <2>2, IdleType DEF Holds
  <2> QED
    BY <1>0, <1>1, <1>3, <1>6, <2>2, <2>3, <2>4
<1>7. CASE k # b.version
  <2>1. uploads[k] <= 1 /\ uploads'[k] = uploads[k] /\ storage'[k] = storage[k]
    BY <1>1, <1>7
  <2> QED
    BY <1>1, <1>3, <1>4, <1>5, <1>7, <2>1 DEF SInv
<1> QED
  BY <1>6, <1>7

\* Committing: what was let go of is evicted, what is advertised is not.
LEMMA CommitKeepsStored ==
    ASSUME TInv, SInv, NEW b \in Builds, Commit(b)
    PROVE  SInv'
<1> DEFINE prev == rel[b].prev
           next == Updated(b, prev)
           keys == Candidates(prev, next)
<1>0. /\ rel \in [Builds -> Job] /\ uploads' = uploads /\ storage' = storage
      /\ policy' = next /\ rel[b].pc = "commit"
      /\ prev \in AppVersion /\ Len(prev.retiredApkKeys) < ApkRetention
  BY JobFields DEF TInv, TypeOK, Commit, At
<1>1. /\ \A c \in Builds \ {b} : rel'[c] = rel[c]
      /\ rel'[b] = Idle \/ rel'[b] = [pc |-> "evict", prev |-> prev, evicting |-> keys]
  BY <1>0 DEF Commit, Evicting
<1>2. ToSet(keys) \ {None} = References(prev) \ References(next)
  BY <1>0, CandidateKeys
<1>3. /\ ~b.artifact => /\ References(next) = References(policy)
                        /\ next.apkKey = policy.apkKey /\ next.sha256 = policy.sha256
      /\ b.artifact => /\ b.version \in References(next)
                       /\ References(next) \subseteq {b.version} \cup References(prev)
                       /\ next.apkKey = b.version /\ next.sha256 = b.versionCode
  BY <1>0, UpdatedReferences, UpdatedType
<1> HIDE DEF next, keys
<1>4. \A k \in Keys : k \in ToSet(rel'[b].evicting) => k \in References(prev) \ References(next)
  BY <1>1, <1>2, NoKeys, KeyFacts
<1>5. \A k \in Keys : k \in References(rel'[b].prev) => k \in References(prev)
  BY <1>1, NoKeys
<1>6. \A k \in Keys : Named(k)' => Named(k) \/ Holds(b, k)
  <2> SUFFICES ASSUME NEW k \in Keys, Named(k)', ~Holds(b, k) PROVE Named(k)
    OBVIOUS
  <2>1. CASE k \in References(policy')
    BY <1>0, <1>3, <2>1 DEF Named, Holds
  <2>2. ASSUME NEW c \in Builds, k \in References(rel'[c].prev) \/ k \in ToSet(rel'[c].evicting)
        PROVE  Named(k)
    BY <1>1, <1>4, <1>5, <2>2 DEF Named
  <2> QED
    BY <2>1, <2>2 DEF Named
<1>7. \A k \in Keys, c \in Builds : Holds(c, k)' => c # b /\ Holds(c, k)
  BY <1>1, IdleType DEF Holds
<1> SUFFICES ASSUME NEW k \in Keys, uploads[k] <= 1
             PROVE  /\ uploads[k] = 0 => ~Named(k)' /\ \A c \in Builds : ~Holds(c, k)'
                    /\ \A c \in Builds : Holds(c, k)' =>
                          /\ ~Named(k)' /\ storage[k] = c.versionCode
                          /\ \A d \in Builds : Holds(d, k)' => d = c
                    /\ next.apkKey = k =>
                          /\ storage[k] = next.sha256
                          /\ \A c \in Builds : k \notin ToSet(rel'[c].evicting)
  BY <1>0 DEF SInv
<1>8. uploads[k] = 0 => ~Named(k)' /\ \A c \in Builds : ~Holds(c, k)'
  BY <1>6, <1>7 DEF SInv
<1>9. ASSUME NEW c \in Builds, Holds(c, k)'
      PROVE  /\ ~Named(k)' /\ storage[k] = c.versionCode
             /\ \A d \in Builds : Holds(d, k)' => d = c
  BY <1>6, <1>7, <1>9 DEF SInv
<1>10. ASSUME next.apkKey = k
       PROVE  /\ storage[k] = next.sha256
              /\ \A c \in Builds : k \notin ToSet(rel'[c].evicting)
  <2>1. k \in References(next)
    BY <1>10, KeyFacts DEF References
  <2>2. k \notin ToSet(rel'[b].evicting)
    BY <1>4, <2>1
  <2>3. CASE b.artifact
    <3>1. Holds(b, k)
      BY <1>0, <1>3, <1>10, <2>3 DEF Holds
    <3>2. storage[k] = b.versionCode /\ ~Named(k)
      BY <3>1 DEF SInv
    <3> QED
      BY <1>1, <1>3, <2>2, <2>3, <3>2 DEF Named
  <2>4. CASE ~b.artifact
    BY <1>1, <1>3, <1>10, <2>2, <2>4 DEF SInv
  <2> QED
    BY <2>3, <2>4
<1> QED
  BY <1>8, <1>9, <1>10

\* Evicting: only keys that the policy no longer advertises are deleted.
LEMMA EvictKeepsStored ==
    ASSUME TInv, SInv, NEW b \in Builds, Evict(b)
    PROVE  SInv'
<1> DEFINE keys == rel[b].evicting
<1>0. /\ rel \in [Builds -> Job] /\ storage \in [Keys -> Contents \cup {None}]
      /\ keys \in Seq(Keys \cup {None}) /\ policy' = policy /\ uploads' = uploads
  BY JobFields DEF TInv, TypeOK, Evict, history
<1>1. PICK i \in DOMAIN keys :
         /\ keys[i] # None
         /\ storage' = storage \/ storage' = [storage EXCEPT ![keys[i]] = None]
         /\ Evicting(b, rel[b].prev, SubSeq(keys, i + 1, Len(keys)))
  BY DEF Evict
<1>2. i \in 1..Len(keys) /\ keys[i] \in Keys /\ keys[i] \in ToSet(keys)
  BY <1>0, <1>1, LenProperties, ElementOfSeq DEF ToSet
<1> DEFINE rest == SubSeq(keys, i + 1, Len(keys))
<1>3. ToSet(rest) \subseteq ToSet(keys)
  BY <1>0, <1>2, RestOfKeys
<1>4. /\ \A c \in Builds \ {b} : rel'[c] = rel[c]
      /\ rel'[b] = Idle \/ rel'[b] = [pc |-> "evict", prev |-> rel[b].prev, evicting |-> rest]
  BY <1>0, <1>1 DEF Evicting
<1> HIDE DEF rest
<1>5. \A c \in Builds : ToSet(rel'[c].evicting) \subseteq ToSet(rel[c].evicting)
  BY <1>3, <1>4, NoKeys
<1>6. \A k \in Keys : Named(k)' => Named(k)
  <2>1. \A c \in Builds : References(rel'[c].prev) \subseteq References(rel[c].prev)
    BY <1>4, NoKeys
  <2> QED
    BY <1>0, <1>5, <2>1 DEF Named
<1>7. \A k \in Keys, c \in Builds : Holds(c, k)' => Holds(c, k)
  BY <1>4, IdleType DEF Holds
<1>8. Named(keys[i])
  BY <1>2 DEF Named
<1>9. \A k \in Keys : k # keys[i] => storage'[k] = storage[k]
  BY <1>0, <1>1
<1> SUFFICES ASSUME NEW k \in Keys, uploads[k] <= 1
             PROVE  /\ uploads[k] = 0 => ~Named(k)' /\ \A c \in Builds : ~Holds(c, k)'
                    /\ \A c \in Builds : Holds(c, k)' =>
                          /\ ~Named(k)' /\ storage'[k] = c.versionCode
                          /\ \A d \in Builds : Holds(d, k)' => d = c
                    /\ policy.apkKey = k =>
                          /\ storage'[k] = policy.sha256
                          /\ \A c \in Builds : k \notin ToSet(rel'[c].evicting)
  BY <1>0 DEF SInv
<1>10. policy.apkKey = k => k # keys[i]
  BY <1>2 DEF SInv
<1>11. \A c \in Builds : Holds(c, k) => k # keys[i]
  BY <1>8 DEF SInv
<1> QED
  BY <1>5, <1>6, <1>7, <1>9, <1>10, <1>11 DEF SInv

\* Nothing has been uploaded.
LEMMA InitStored == Init => SInv
<1> SUFFICES ASSUME Init PROVE SInv
  OBVIOUS
<1>1. /\ \A k \in Keys : uploads[k] = 0
      /\ \A b \in Builds : rel[b] = Idle
      /\ policy = NoPolicy
  BY DEF Init
<1>2. \A k \in Keys : ~Named(k) /\ \A b \in Builds : ~Holds(b, k)
  BY <1>1, NoKeys, NothingReferred, IdleType DEF Named, Holds
<1>3. policy.apkKey \notin Keys
  BY <1>1, KeyFacts DEF NoPolicy
<1> QED
  BY <1>1, <1>2, <1>3 DEF SInv

\* However releases overlap, fail and are repeated, what is advertised and was
\* written once is what is in storage.
LEMMA NextStored == TInv /\ SInv /\ [Next]_vars => SInv'
<1> SUFFICES ASSUME TInv, SInv, [Next]_vars PROVE SInv'
  OBVIOUS
<1>1. ASSUME NEW p \in AdminPolicies, Upsert(p) PROVE SInv'
  <2>1. /\ policy'.apkKey = policy.apkKey /\ policy'.sha256 = policy.sha256
        /\ policy'.retiredApkKeys = policy.retiredApkKeys
        /\ rel' = rel
    BY <1>1 DEF Upsert, TInv, TypeOK, AppVersion
  <2>2. \A k \in Keys : Named(k)' => Named(k)
    BY <2>1 DEF Named, References
  <2>3. \A k \in Keys, b \in Builds : Holds(b, k)' => Holds(b, k)
    BY <2>1 DEF Holds
  <2> QED
    BY <1>1, <2>1, <2>2, <2>3, QuietStep DEF Upsert
<1>2. CASE UNCHANGED vars
  BY <1>2 DEF vars, SInv, Named, Holds
<1> QED
  BY <1>1, <1>2, ReadKeepsStored, StoreKeepsStored, CommitKeepsStored, EvictKeepsStored,
     AbortKeepsStored DEF Next

-----------------------------------------------------------------------------
(* What nothing will ever delete *)

\* There are finitely many keys.
LEMMA FiniteKeys == IsFiniteSet(Keys)
<1> DEFINE version == [b \in Builds |-> b.version]
<1>1. version \in Surjection(Builds, Keys)
  BY DEF Surjection, Keys
<1> QED
  BY <1>1, FS_Surjection, ReleaseAssumption

\* A set that gains at most n elements.
LEMMA Gains ==
    ASSUME NEW S, NEW T, NEW U, NEW n \in Nat, IsFiniteSet(S),
           IsFiniteSet(T), Cardinality(T) <= n, U \subseteq S \cup T
    PROVE  Cardinality(U) <= Cardinality(S) + n
<1>1. /\ IsFiniteSet(S \cup T)
      /\ Cardinality(S \cup T) = Cardinality(S) + Cardinality(T) - Cardinality(S \cap T)
  BY FS_Union
<1>2. IsFiniteSet(U) /\ Cardinality(U) <= Cardinality(S \cup T)
  BY <1>1, FS_Subset
<1>3. IsFiniteSet(S \cap T)
  BY FS_Subset
<1>4. /\ Cardinality(S) \in Nat /\ Cardinality(T) \in Nat /\ Cardinality(S \cap T) \in Nat
      /\ Cardinality(U) \in Nat /\ Cardinality(S \cup T) \in Nat
  BY <1>1, <1>2, <1>3, FS_CardinalityType
<1> QED
  BY <1>1, <1>2, <1>4

\* What the cases of InFlight come to.
LEMMA InFlightCases ==
    ASSUME TInv, NEW b \in Builds
    PROVE  /\ rel[b].pc \in {"idle", "store"} => InFlight(b) = {}
           /\ rel[b].pc = "commit" => InFlight(b) = IF b.artifact THEN {b.version} ELSE {}
           /\ rel[b].pc = "evict" => InFlight(b) = ToSet(rel[b].evicting)
           /\ IsFiniteSet(InFlight(b)) /\ Cardinality(InFlight(b)) <= ApkRetention
<1>1. rel[b].pc \in {"idle", "store", "commit", "evict"} /\ b.artifact \in BOOLEAN
  BY JobFields, KeyFacts DEF Job
<1>2. /\ rel[b].pc \in {"idle", "store"} => InFlight(b) = {}
      /\ rel[b].pc = "commit" => InFlight(b) = IF b.artifact THEN {b.version} ELSE {}
      /\ rel[b].pc = "evict" => InFlight(b) = ToSet(rel[b].evicting)
  <2>1. CASE rel[b].pc \in {"idle", "store"}
    BY <2>1 DEF InFlight, At
  <2>2. CASE rel[b].pc = "commit"
    BY <1>1, <2>2 DEF InFlight, At
  <2>3. CASE rel[b].pc = "evict"
    BY <2>3 DEF InFlight, At
  <2> QED
    BY <1>1, <2>1, <2>2, <2>3
<1>3. IsFiniteSet({}) /\ Cardinality({}) = 0
  BY FS_EmptySet
<1>4. IsFiniteSet({b.version}) /\ Cardinality({b.version}) = 1
  BY FS_Singleton
<1>5. /\ IsFiniteSet(ToSet(rel[b].evicting))
      /\ Cardinality(ToSet(rel[b].evicting)) <= Len(rel[b].evicting)
      /\ Len(rel[b].evicting) <= ApkRetention
      /\ Len(rel[b].evicting) \in Nat
  BY JobFields, FewElements, LenProperties
<1>6. Cardinality(ToSet(rel[b].evicting)) \in Nat
  BY <1>5, FS_CardinalityType
<1>7. ApkRetention \in Nat /\ 0 <= ApkRetention /\ 1 <= ApkRetention
  BY KeyFacts
<1>8. Cardinality(ToSet(rel[b].evicting)) <= ApkRetention
  BY <1>5, <1>6, <1>7
<1>9. InFlight(b) \in {{}, {b.version}, ToSet(rel[b].evicting)}
  BY <1>1, <1>2
<1>10. IsFiniteSet(InFlight(b)) /\ Cardinality(InFlight(b)) <= ApkRetention
  BY <1>3, <1>4, <1>5, <1>7, <1>8, <1>9
<1> QED
  BY <1>2, <1>10

\* The orphans are keys.
LEMMA FiniteOrphans == IsFiniteSet(Orphans) /\ Cardinality(Orphans) \in Nat
<1>1. Orphans \subseteq Keys
  BY DEF Orphans
<1> QED
  BY <1>1, FiniteKeys, FS_Subset, FS_CardinalityType

\* A step that leaves the policy's references alone, that only b takes and that
\* writes only a key of T makes orphans only of T and of what b had in flight.
LEMMA OrphansOfStep ==
    ASSUME TInv, TInv', NEW b \in Builds, NEW T,
           \A k \in Keys \ T : storage'[k] # None => storage[k] # None,
           \A k \in References(policy) : k \in References(policy') \cup InFlight(b)' \cup T,
           \A c \in Builds \ {b} : rel'[c] = rel[c],
           InFlight(b) \subseteq InFlight(b)' \cup References(policy') \cup T
    PROVE  Orphans' \subseteq Orphans \cup T
<1>1. ASSUME NEW c \in Builds \ {b} PROVE InFlight(c)' = InFlight(c)
  <2>1. rel'[c] = rel[c] /\ rel[c].pc \in {"idle", "store", "commit", "evict"}
    BY JobFields DEF Job
  <2>2. CASE rel[c].pc \in {"idle", "store"}
    BY <2>1, <2>2 DEF InFlight, At
  <2>3. CASE rel[c].pc = "commit" /\ c.artifact
    BY <2>1, <2>3 DEF InFlight, At
  <2>4. CASE rel[c].pc = "commit" /\ ~c.artifact
    BY <2>1, <2>4 DEF InFlight, At
  <2>5. CASE rel[c].pc = "evict"
    BY <2>1, <2>5 DEF InFlight, At
  <2> QED
    BY <2>1, <2>2, <2>3, <2>4, <2>5
<1> SUFFICES ASSUME NEW k \in Keys, k \in Orphans', k \notin T PROVE k \in Orphans
  BY DEF Orphans
<1>2. /\ storage'[k] # None /\ k \notin References(policy')
      /\ \A c \in Builds : k \notin InFlight(c)'
  BY DEF Orphans
<1>3. storage[k] # None /\ k \notin References(policy)
  BY <1>2
<1>4. \A c \in Builds : k \notin InFlight(c)
  BY <1>1, <1>2
<1> QED
  BY <1>3, <1>4 DEF Orphans

\* Only a build with an artefact is uploaded, and each failed call and each
\* policy overwritten leaves at most ApkRetention orphans.
BInv ==
    /\ \A b \in Builds : rel[b].pc = "store" => b.artifact
    /\ OrphanBudget

\* Reading the policy makes no orphans.
LEMMA ReadOrphans ==
    ASSUME TInv, TInv', NEW b \in Builds, Read(b)
    PROVE  Orphans' \subseteq Orphans
<1>1. /\ policy' = policy /\ storage' = storage
      /\ \A c \in Builds \ {b} : rel'[c] = rel[c]
  BY DEF TInv, TypeOK, Read
<1>2. InFlight(b) = {}
  BY InFlightCases DEF Read, At
<1>3. Orphans' \subseteq Orphans \cup {}
  BY <1>1, <1>2, OrphansOfStep
<1> QED
  BY <1>3

\* An upload makes an orphan only when it fails.
LEMMA StoreOrphans ==
    ASSUME TInv, TInv', NEW b \in Builds, StoreArtifact(b), b.artifact
    PROVE  \/ faults' = faults /\ Orphans' \subseteq Orphans
           \/ faults' = faults + 1 /\ Orphans' \subseteq Orphans \cup {b.version}
<1>1. /\ policy' = policy /\ rel \in [Builds -> Job]
      /\ \A c \in Builds \ {b} : rel'[c] = rel[c]
      /\ \A k \in Keys \ {b.version} : storage'[k] = storage[k]
  BY DEF TInv, TypeOK, StoreArtifact, GoTo, Finish
<1>2. InFlight(b) = {}
  BY InFlightCases DEF StoreArtifact, At
<1>3. Orphans' \subseteq Orphans \cup {b.version}
  BY <1>1, <1>2, OrphansOfStep
<1>4. CASE GoTo(b, "commit") /\ UNCHANGED faults
  <2>1. rel'[b].pc = "commit"
    BY <1>1, <1>4 DEF GoTo, Job
  <2>2. b.version \in InFlight(b)'
    BY <2>1 DEF InFlight, At
  <2>3. b.version \notin Orphans'
    BY <2>2 DEF Orphans
  <2> QED
    BY <1>3, <1>4, <2>3
<1>5. CASE Fault
  BY <1>3, <1>5 DEF Fault
<1> QED
  BY <1>4, <1>5 DEF StoreArtifact

\* A release that goes by the policy in force evicts all that it lets go of; one
\* that overwrites another's policy may leave what that one referred to.
LEMMA CommitOrphans ==
    ASSUME TInv, TInv', NEW b \in Builds, Commit(b)
    PROVE  \/ overlaps' = overlaps /\ Orphans' \subseteq Orphans
           \/ overlaps' = overlaps + 1 /\ Orphans' \subseteq Orphans \cup References(policy)
<1> DEFINE prev == rel[b].prev
           next == Updated(b, prev)
           keys == Candidates(prev, next)
<1>0. /\ rel \in [Builds -> Job] /\ storage' = storage
      /\ policy' = next /\ rel[b].pc = "commit" /\ Evicting(b, prev, keys)
      /\ overlaps' = IF Basis(prev) # Basis(policy) THEN overlaps + 1 ELSE overlaps
      /\ prev \in AppVersion /\ Len(prev.retiredApkKeys) < ApkRetention
  BY JobFields DEF TInv, TypeOK, Commit, At
<1>1. /\ \A c \in Builds \ {b} : rel'[c] = rel[c]
      /\ \/ ToSet(keys) \subseteq {None}
         \/ rel'[b] = [pc |-> "evict", prev |-> prev, evicting |-> keys]
  BY <1>0 DEF Evicting
<1>2. ToSet(keys) \ {None} = References(prev) \ References(next)
  BY <1>0, CandidateKeys
<1>3. b.artifact => b.version \in References(next)
  BY <1>0, UpdatedReferences
<1> HIDE DEF prev, next, keys
<1>4. InFlight(b) \subseteq References(policy')
  BY <1>0, <1>3, InFlightCases
<1>5. \A k \in References(prev) : k \in References(policy') \cup InFlight(b)'
  <2> SUFFICES ASSUME NEW k \in References(prev), k \notin References(next)
               PROVE  k \in InFlight(b)'
    BY <1>0
  <2>1. k \in ToSet(keys) /\ k # None
    BY <1>2
  <2>2. rel'[b].pc = "evict" /\ rel'[b].evicting = keys
    BY <1>1, <2>1
  <2> QED
    BY <2>1, <2>2 DEF InFlight, At
<1>6. CASE Basis(prev) = Basis(policy)
  <2>1. References(policy) = References(prev)
    BY <1>6 DEF Basis, References
  <2>2. Orphans' \subseteq Orphans \cup {}
    BY <1>0, <1>1, <1>4, <1>5, <2>1, OrphansOfStep
  <2> QED
    BY <1>0, <1>6, <2>2
<1>7. CASE Basis(prev) # Basis(policy)
  <2>1. Orphans' \subseteq Orphans \cup References(policy)
    BY <1>0, <1>1, <1>4, OrphansOfStep
  <2> QED
    BY <1>0, <1>7, <2>1
<1> QED
  BY <1>6, <1>7

\* An eviction makes an orphan only when it fails.
LEMMA EvictOrphans ==
    ASSUME TInv, TInv', NEW b \in Builds, Evict(b)
    PROVE  \/ faults' = faults /\ Orphans' \subseteq Orphans
           \/ faults' = faults + 1 /\ \E k \in Keys : Orphans' \subseteq Orphans \cup {k}
<1> DEFINE keys == rel[b].evicting
<1>0. /\ rel \in [Builds -> Job] /\ storage \in [Keys -> Contents \cup {None}]
      /\ keys \in Seq(Keys \cup {None}) /\ policy' = policy /\ rel[b].pc = "evict"
  BY JobFields DEF TInv, TypeOK, Evict, At
<1>1. PICK i \in DOMAIN keys :
         /\ keys[i] # None /\ \A j \in 1..i - 1 : keys[j] = None
         /\ \/ storage' = [storage EXCEPT ![keys[i]] = None] /\ UNCHANGED faults
            \/ UNCHANGED storage /\ Fault
         /\ Evicting(b, rel[b].prev, SubSeq(keys, i + 1, Len(keys)))
  BY DEF Evict
<1>2. i \in 1..Len(keys) /\ keys[i] \in Keys
  BY <1>0, <1>1, LenProperties, ElementOfSeq
<1> DEFINE rest == SubSeq(keys, i + 1, Len(keys))
<1>3. \A k \in ToSet(keys) : k \in ToSet(rest) \/ \E j \in 1..i : k = keys[j]
  BY <1>0, <1>2, RestOfKeys
<1>4. /\ \A c \in Builds \ {b} : rel'[c] = rel[c]
      /\ \/ ToSet(rest) \subseteq {None}
         \/ rel'[b] = [pc |-> "evict", prev |-> rel[b].prev, evicting |-> rest]
  BY <1>0, <1>1 DEF Evicting
<1>5. \A j \in 1..i : keys[j] = None \/ j = i
  BY <1>1, <1>2
<1>6. \A k \in ToSet(keys) \ {None} : k = keys[i] \/ k \in ToSet(rest) \ {None}
  BY <1>3, <1>5
<1> HIDE DEF rest
<1>7. InFlight(b) = ToSet(keys)
  BY <1>0, InFlightCases
<1>8. ToSet(rest) \ {None} \subseteq InFlight(b)'
  <2> SUFFICES ASSUME NEW k \in ToSet(rest) \ {None} PROVE k \in InFlight(b)'
    OBVIOUS
  <2>1. rel'[b].pc = "evict" /\ rel'[b].evicting = rest
    BY <1>4
  <2> QED
    BY <2>1 DEF InFlight, At
<1> DEFINE T == {keys[i], None}
<1>9. Orphans' \subseteq Orphans \cup T
  <2>1. InFlight(b) \subseteq InFlight(b)' \cup References(policy') \cup T
    BY <1>6, <1>7, <1>8
  <2>2. \A k \in Keys \ T : storage'[k] # None => storage[k] # None
    BY <1>0, <1>1
  <2>3. \A k \in References(policy) : k \in References(policy') \cup InFlight(b)' \cup T
    BY <1>0
  <2> HIDE DEF T
  <2> QED
    BY <1>4, <2>1, <2>2, <2>3, OrphansOfStep
<1>10. Orphans' \subseteq Orphans \cup {keys[i]}
  BY <1>9, KeyFacts DEF Orphans
<1>11. CASE storage' = [storage EXCEPT ![keys[i]] = None] /\ UNCHANGED faults
  <2>1. storage'[keys[i]] = None
    BY <1>0, <1>2, <1>11
  <2>2. keys[i] \notin Orphans'
    BY <2>1 DEF Orphans
  <2> QED
    BY <1>10, <1>11, <2>2
<1>12. CASE Fault
  BY <1>2, <1>10, <1>12 DEF Fault
<1> QED
  BY <1>1, <1>11, <1>12

\* Giving up leaves what the job had in flight.
LEMMA AbortOrphans ==
    ASSUME TInv, TInv', NEW b \in Builds, Abort(b)
    PROVE  faults' = faults + 1 /\ Orphans' \subseteq Orphans \cup InFlight(b)
<1>1. /\ policy' = policy /\ storage' = storage
      /\ \A c \in Builds \ {b} : rel'[c] = rel[c]
  BY DEF TInv, TypeOK, Abort, Finish
<1>2. Orphans' \subseteq Orphans \cup InFlight(b)
  BY <1>1, OrphansOfStep
<1> QED
  BY <1>2 DEF Abort, Fault

\* A step within the budget: it gains nothing and counts nothing less, or it
\* gains at most ApkRetention orphans and counts one more fault or overlap.
LEMMA WithinBudget ==
    ASSUME TInv, TInv', OrphanBudget,
           \/ /\ Orphans' \subseteq Orphans
              /\ overlaps' = overlaps /\ faults' = faults
           \/ /\ \E T : /\ IsFiniteSet(T) /\ Cardinality(T) <= ApkRetention
                        /\ Orphans' \subseteq Orphans \cup T
              /\ \/ overlaps' = overlaps + 1 /\ faults' = faults
                 \/ overlaps' = overlaps /\ faults' = faults + 1
    PROVE  OrphanBudget'
<1>1. /\ overlaps \in Nat /\ faults \in Nat /\ ApkRetention \in Nat
      /\ IsFiniteSet(Orphans) /\ Cardinality(Orphans) \in Nat
  BY FiniteOrphans, KeyFacts DEF TInv, TypeOK
<1>2. CASE Orphans' \subseteq Orphans /\ overlaps' = overlaps /\ faults' = faults
  <2>1. IsFiniteSet(Orphans') /\ Cardinality(Orphans') <= Cardinality(Orphans)
    BY <1>1, <1>2, FS_Subset
  <2>2. Cardinality(Orphans') \in Nat
    BY <2>1, FS_CardinalityType
  <2>3. ApkRetention * (overlaps' + faults') = ApkRetention * (overlaps + faults)
    BY <1>2
  <2>4. ApkRetention * (overlaps + faults) \in Nat
    BY <1>1
  <2> QED
    BY <1>1, <2>1, <2>2, <2>3, <2>4 DEF OrphanBudget
<1>3. ASSUME NEW T, IsFiniteSet(T), Cardinality(T) <= ApkRetention,
             Orphans' \subseteq Orphans \cup T,
             \/ overlaps' = overlaps + 1 /\ faults' = faults
             \/ overlaps' = overlaps /\ faults' = faults + 1
      PROVE  OrphanBudget'
  <2>1. Cardinality(Orphans') <= Cardinality(Orphans) + ApkRetention
    BY <1>1, <1>3, Gains
  <2>2. Orphans' \subseteq Orphans \cup T /\ IsFiniteSet(Orphans \cup T)
    BY <1>1, <1>3, FS_Union
  <2>3. Cardinality(Orphans') \in Nat
    BY <2>2, FS_Subset, FS_CardinalityType
  <2>4. overlaps' + faults' = overlaps + faults + 1
    BY <1>1, <1>3
  <2>5. ApkRetention * (overlaps + faults + 1) = ApkRetention * (overlaps + faults) + ApkRetention
    BY <1>1
  <2>6. ApkRetention * (overlaps + faults) \in Nat
    BY <1>1
  <2> QED
    BY <1>1, <2>1, <2>3, <2>4, <2>5, <2>6 DEF OrphanBudget
<1> QED
  BY <1>2, <1>3

\* Everything a release does stays within the budget.
LEMMA ReleaseWithinBudget ==
    ASSUME TInv, TInv', BInv, NEW b \in Builds,
           Read(b) \/ StoreArtifact(b) \/ Commit(b) \/ Evict(b) \/ Abort(b)
    PROVE  OrphanBudget'
<1>0. OrphanBudget
  BY DEF BInv
<1>1. \A k : /\ IsFiniteSet({k}) /\ Cardinality({k}) <= ApkRetention
  <2> SUFFICES ASSUME NEW k PROVE IsFiniteSet({k}) /\ Cardinality({k}) <= ApkRetention
    OBVIOUS
  <2>1. IsFiniteSet({k}) /\ Cardinality({k}) = 1
    BY FS_Singleton
  <2> QED
    BY <2>1, KeyFacts
<1>2. CASE Read(b)
  BY <1>0, <1>2, ReadOrphans, WithinBudget DEF Read, history
<1>3. CASE StoreArtifact(b)
  <2>1. b.artifact /\ overlaps' = overlaps
    BY <1>3 DEF BInv, StoreArtifact, At
  <2> QED
    BY <1>0, <1>1, <1>3, <2>1, StoreOrphans, WithinBudget
<1>4. CASE Commit(b)
  <2>1. IsFiniteSet(References(policy)) /\ Cardinality(References(policy)) <= ApkRetention
    BY FewReferences DEF TInv, TypeOK
  <2>2. faults' = faults
    BY <1>4 DEF Commit
  <2> QED
    BY <1>0, <1>4, <2>1, <2>2, CommitOrphans, WithinBudget
<1>5. CASE Evict(b)
  <2>1. overlaps' = overlaps
    BY <1>5 DEF Evict, history
  <2> QED
    BY <1>0, <1>1, <1>5, <2>1, EvictOrphans, WithinBudget
<1>6. CASE Abort(b)
  <2>1. overlaps' = overlaps
    BY <1>6 DEF Abort, history
  <2> QED
    BY <1>0, <1>6, <2>1, AbortOrphans, InFlightCases, WithinBudget
<1> QED
  BY <1>2, <1>3, <1>4, <1>5, <1>6

\* Nothing is stored, nothing is left over.
LEMMA InitBudget == Init => BInv
<1> SUFFICES ASSUME Init PROVE BInv
  OBVIOUS
<1>1. TInv /\ storage = [k \in Keys |-> None] /\ overlaps = 0 /\ faults = 0
  BY InitTyped DEF Init
<1>2. Orphans = {}
  BY <1>1 DEF Orphans
<1>3. Cardinality(Orphans) = 0
  BY <1>2, FS_EmptySet
<1>4. ApkRetention * (overlaps + faults) = 0
  BY <1>1, KeyFacts
<1>5. \A b \in Builds : rel[b].pc = "idle"
  BY IdleType DEF Init
<1> QED
  BY <1>3, <1>4, <1>5 DEF BInv, OrphanBudget

\* Every step stays within the budget.
LEMMA NextBudget == TInv /\ TInv' /\ BInv /\ [Next]_vars => BInv'
<1> SUFFICES ASSUME TInv, TInv', BInv, [Next]_vars PROVE BInv'
  OBVIOUS
<1>1. ASSUME NEW b \in Builds, rel'[b].pc = "store" PROVE b.artifact
  <2>1. CASE rel'[b] = rel[b]
    BY <1>1, <2>1 DEF BInv
  <2>2. ASSUME NEW c \in Builds, rel'[b] # rel[b],
               Read(c) \/ StoreArtifact(c) \/ Commit(c) \/ Evict(c) \/ Abort(c)
        PROVE  b.artifact
    <3>1. rel \in [Builds -> Job]
      BY DEF TInv, TypeOK
    <3>2. CASE Read(c)
      BY <1>1, <2>2, <3>1, <3>2 DEF Read
    <3>3. CASE Commit(c) \/ Evict(c)
      <4>1. c = b /\ rel'[b].pc \in {"idle", "evict"}
        BY <2>2, <3>1, <3>3, IdleType DEF Commit, Evict, Evicting
      <4> QED
        BY <1>1, <4>1
    <3>4. CASE StoreArtifact(c) \/ Abort(c)
      <4>1. c = b /\ rel'[b].pc \in {"idle", "commit"}
        BY <2>2, <3>1, <3>4, IdleType DEF StoreArtifact, Abort, GoTo, Finish, Job
      <4> QED
        BY <1>1, <4>1
    <3> QED
      BY <2>2, <3>2, <3>3, <3>4
  <2>3. (\A p \in AdminPolicies : Upsert(p) => rel' = rel) /\ (UNCHANGED vars => rel' = rel)
    BY DEF Upsert, vars
  <2> QED
    BY <2>1, <2>2, <2>3 DEF Next
<1>2. ASSUME NEW p \in AdminPolicies, Upsert(p) PROVE OrphanBudget'
  <2>1. policy'.apkKey = policy.apkKey /\ policy'.retiredApkKeys = policy.retiredApkKeys
    BY <1>2 DEF Upsert, TInv, TypeOK, AppVersion
  <2>2. References(policy') = References(policy)
    BY <2>1 DEF References
  <2>3. \A b \in Builds : InFlight(b)' = InFlight(b)
    BY <1>2 DEF Upsert, InFlight, At
  <2>4. Orphans' = Orphans
    BY <1>2, <2>2, <2>3 DEF Upsert, Orphans
  <2> QED
    BY <1>2, <2>4 DEF Upsert, BInv, OrphanBudget
<1>3. ASSUME UNCHANGED vars PROVE OrphanBudget'
  <2>1. \A b \in Builds : InFlight(b)' = InFlight(b)
    BY <1>3 DEF vars, InFlight, At
  <2>2. Orphans' = Orphans
    BY <1>3, <2>1 DEF vars, Orphans
  <2> QED
    BY <1>3, <2>2 DEF vars, BInv, OrphanBudget
<1>4. ASSUME NEW b \in Builds,
             Read(b) \/ StoreArtifact(b) \/ Commit(b) \/ Evict(b) \/ Abort(b)
      PROVE  OrphanBudget'
  BY <1>4, ReleaseWithinBudget
<1>5. OrphanBudget'
  BY <1>2, <1>3, <1>4 DEF Next
<1> QED
  BY <1>1, <1>5 DEF BInv

\* What is advertised is stored, and little else.
LEMMA StoreGoal == TInv /\ SInv /\ BInv => StorageKept
<1>1. TInv => policy.apkKey \in Keys \cup {None}
  BY DEF TInv, TypeOK, AppVersion
<1> QED
  BY <1>1 DEF SInv, BInv, StorageKept, AdvertisedIsStored

\* The file a policy advertises is the one that was stored under its key, if the
\* key was written once; and the files that nothing refers to or will delete
\* come from failed calls and overwritten policies, ApkRetention from each.
THEOREM ArtefactsKept == Spec => []StorageKept
  BY InitTyped, NextTyped, InitStored, NextStored, InitBudget, NextBudget, StoreGoal,
     PTL DEF Spec

-----------------------------------------------------------------------------
(* The invariant of the processes *)

\* The labels of a request.
Labels == {"new", "check", "insert", "enqueue", "publish", "unacked", "done", "cut"}

\* The model is well typed, its histories and queues too.
ProcessTyped ==
    /\ Process!TypeOK
    /\ inbox \in [Apis -> Seq(Calls)]
    /\ call \in [Calls -> [pc : Labels, api : Apis \cup {None}]]
    /\ copies \in [Calls -> Nat]
    /\ boots \in Nat /\ losses \in Nat /\ inserts \in Nat

\* The labels of a request in flight.
Running == {"check", "insert", "enqueue", "publish", "unacked"}

\* What a process connects to before it serves.
AllOpen == {"mongo", "redis", "queue"}

\* A process that serves holds all its connections, and one that boots those it has made.
OpenInv ==
    \A a \in Apis :
        /\ phase[a] = "mongo" => open[a] = {"mongo"}
        /\ phase[a] = "wiring" => open[a] = {"mongo", "redis"}
        /\ phase[a] \in {"ready", "serving", "draining"} => open[a] = AllOpen

\* A request in flight keeps its process from closing anything.
HeldInv ==
    \A c \in Calls : call[c].pc \in Running =>
        call[c].api \in Apis /\ phase[call[c].api] \in {"serving", "draining"}

\* All instances share one client id: the broker keeps one of their connections.
OneLink == \A a, b \in Apis : link[a] = "up" /\ link[b] = "up" => a = b

\* The reading of c has reached a subscriber.
Heard(c) == copies[c] > 0 \/ \E a \in Apis : \E i \in DOMAIN inbox[a] : inbox[a][i] = c

\* A reading waits in one place, or has been stored once.
OnceInv ==
    \A c \in Calls :
        /\ copies[c] <= 1
        /\ \A a, b \in Apis : \A i \in DOMAIN inbox[a], j \in DOMAIN inbox[b] :
              inbox[a][i] = c /\ inbox[b][j] = c => copies[c] = 0 /\ a = b /\ i = j

\* A reading that may still be published has reached nobody, or is sent again over a
\* connection on which nobody subscribed again.
ResentInv ==
    \A c \in Calls :
        /\ call[c].pc \in {"new", "check", "insert", "enqueue"} => ~Heard(c)
        /\ call[c].pc = "publish" => ~Heard(c) \/ call[c].api \notin subscribed

\* All that is known of the processes, their connections and their readings.
ProcessInv == ProcessTyped /\ OpenInv /\ HeldInv /\ OneLink /\ OnceInv /\ ResentInv

\* Nothing has been started.
LEMMA ProcessStarts == Process!Init => ProcessInv
<1> SUFFICES ASSUME Process!Init PROVE ProcessInv
  OBVIOUS
<1>1. \A a \in Apis : /\ phase[a] = "down" /\ open[a] = {} /\ link[a] = "none"
                      /\ inbox[a] = <<>>
  BY DEF Process!Init
<1>2. \A c \in Calls : call[c].pc = "new" /\ call[c].api = None /\ copies[c] = 0
  BY DEF Process!Init
<1>3. DOMAIN <<>> = {} /\ <<>> \in Seq(Calls)
  BY EmptySeq
<1>4. ProcessTyped
  BY <1>1, <1>2, <1>3, ServiceAssumption
     DEF Process!Init, ProcessTyped, Process!TypeOK, Process!Phases, Labels
<1>5. OpenInv /\ HeldInv /\ OneLink
  BY <1>1, <1>2 DEF OpenInv, HeldInv, OneLink, Running
<1>6. OnceInv /\ ResentInv
  BY <1>1, <1>2, <1>3 DEF OnceInv, ResentInv, Heard
<1> QED
  BY <1>4, <1>5, <1>6 DEF ProcessInv

-----------------------------------------------------------------------------
(* Types *)

\* The state of the processes, one variable at a time.
LEMMA ProcessTypes ==
    ASSUME ProcessTyped
    PROVE  /\ phase \in [Apis -> Process!Phases] /\ open \in [Apis -> SUBSET AllOpen]
           /\ link \in [Apis -> {"none", "up", "lost"}] /\ subscribed \subseteq Apis
           /\ \A a \in subscribed : link[a] = "up"
           /\ inbox \in [Apis -> Seq(Calls)]
           /\ call \in [Calls -> [pc : Labels, api : Apis \cup {None}]]
           /\ copies \in [Calls -> Nat]
           /\ boots \in Nat /\ losses \in Nat /\ inserts \in Nat
           /\ boots <= MaxBoots /\ losses <= MaxLosses /\ inserts <= MaxInserts
  BY DEF ProcessTyped, Process!TypeOK, AllOpen

\* The same after a step.
LEMMA TypesProcess ==
    ASSUME phase' \in [Apis -> Process!Phases], open' \in [Apis -> SUBSET AllOpen],
           link' \in [Apis -> {"none", "up", "lost"}], subscribed' \subseteq Apis,
           \A a \in subscribed' : link'[a] = "up",
           inbox' \in [Apis -> Seq(Calls)],
           call' \in [Calls -> [pc : Labels, api : Apis \cup {None}]],
           copies' \in [Calls -> Nat],
           boots' \in 0..MaxBoots, losses' \in 0..MaxLosses, inserts' \in 0..MaxInserts
    PROVE  ProcessTyped'
<1>1. \A c \in Calls : call'[c].pc \in Labels
  OBVIOUS
<1> QED
  BY <1>1, ServiceAssumption DEF ProcessTyped, Process!TypeOK, AllOpen, Labels

\* What a request becomes when its label changes.
LEMMA Labelled ==
    ASSUME ProcessTyped, NEW c \in Calls, NEW pc \in Labels, Process!Step(c, pc)
    PROVE  /\ call' \in [Calls -> [pc : Labels, api : Apis \cup {None}]]
           /\ call'[c].pc = pc /\ call'[c].api = call[c].api
           /\ \A d \in Calls : d # c => call'[d] = call[d]
  BY ProcessTypes DEF Process!Step

\* What is left of a process that is gone, and of its requests.
Gone(a) ==
    /\ phase' \in [Apis -> Process!Phases] /\ open' \in [Apis -> SUBSET AllOpen]
    /\ link' \in [Apis -> {"none", "up", "lost"}] /\ subscribed' = subscribed \ {a}
    /\ inbox' \in [Apis -> Seq(Calls)]
    /\ call' \in [Calls -> [pc : Labels, api : Apis \cup {None}]]
    /\ phase'[a] = "down" /\ link'[a] = "none" /\ inbox'[a] = <<>>
    /\ \A b \in Apis : b # a => /\ phase'[b] = phase[b] /\ open'[b] = open[b]
                                /\ link'[b] = link[b] /\ inbox'[b] = inbox[b]
    /\ \A c \in Calls : call'[c].api = call[c].api
                        /\ IF call[c].api = a /\ call[c].pc \in Running
                           THEN call'[c].pc = "cut" ELSE call'[c] = call[c]

\* Its connections are, and its requests are cut; the rest stays.
LEMMA ExitFrame ==
    ASSUME ProcessTyped, NEW a \in Apis, Process!Exit(a)
    PROVE  Gone(a)
<1>1. <<>> \in Seq(Calls)
  BY EmptySeq
<1>2. "down" \in Process!Phases /\ "cut" \in Labels
  BY DEF Process!Phases, Labels
<1>3. \A c \in Calls : c \in Process!InFlight(a) <=> call[c].api = a /\ call[c].pc \in Running
  BY ProcessTypes DEF Process!InFlight, Running, Labels
<1>4. \A c \in Calls : call'[c] = IF call[c].api = a /\ call[c].pc \in Running
                                  THEN [call[c] EXCEPT !.pc = "cut"] ELSE call[c]
  BY <1>3 DEF Process!Exit
<1>5. \A c \in Calls : /\ call'[c] \in [pc : Labels, api : Apis \cup {None}]
                       /\ call'[c].api = call[c].api
                       /\ IF call[c].api = a /\ call[c].pc \in Running
                          THEN call'[c].pc = "cut" ELSE call'[c] = call[c]
  BY <1>2, <1>4, ProcessTypes
<1>6. call' \in [Calls -> [pc : Labels, api : Apis \cup {None}]]
  BY <1>5 DEF Process!Exit
<1> QED
  BY <1>1, <1>2, <1>5, <1>6, ProcessTypes DEF Gone, Process!Exit, Process!To

\* The broker keeps only the newest connection under a client id.
LEMMA Takeover ==
    ASSUME ProcessTyped, NEW a \in Apis, link' = Process!Connected(a)
    PROVE  /\ link' \in [Apis -> {"none", "up", "lost"}] /\ link'[a] = "up"
           /\ \A b \in Apis : b # a => link'[b] # "up"
           /\ Process!Subscribers(a) = {}
<1>1. link' = [b \in Apis |-> IF b = a THEN "up" ELSE IF link[b] = "up" THEN "lost" ELSE link[b]]
  BY DEF Process!Connected, Process!TakenOver
<1>2. /\ link' \in [Apis -> {"none", "up", "lost"}] /\ link'[a] = "up"
      /\ \A b \in Apis : b # a => link'[b] # "up"
  BY <1>1, ProcessTypes
<1> QED
  BY <1>2, ProcessTypes DEF Process!Subscribers

-----------------------------------------------------------------------------
(* Steps *)

\* While a reading only waits where it was, or is lost, it is stored once.
LEMMA ReadingsKept ==
    ASSUME ProcessInv, copies' = copies,
           \A a \in Apis : inbox'[a] = inbox[a] \/ inbox'[a] = <<>>,
           \A c \in Calls :
              /\ call'[c].pc \in {"new", "check", "insert", "enqueue"} =>
                    call[c].pc \in {"new", "check", "insert", "enqueue"}
              /\ call'[c].pc = "publish" =>
                    \/ call[c].pc \in {"new", "check", "insert", "enqueue"}
                    \/ call'[c].api \notin subscribed'
                    \/ /\ call[c].pc = "publish" /\ call'[c].api = call[c].api
                       /\ call[c].api \notin subscribed => call[c].api \notin subscribed'
    PROVE  OnceInv' /\ ResentInv'
<1>1. DOMAIN <<>> = {}
  BY EmptySeq
<1>2. \A a \in Apis : \A i \in DOMAIN inbox'[a] : i \in DOMAIN inbox[a] /\ inbox'[a][i] = inbox[a][i]
  BY <1>1
<1>3. \A c \in Calls : Heard(c)' => Heard(c)
  BY <1>2 DEF Heard
<1>4. OnceInv'
  BY <1>2 DEF ProcessInv, OnceInv
<1> QED
  BY <1>3, <1>4 DEF ProcessInv, ResentInv

\* A process that is gone leaves the others as they are.
LEMMA ExitKeeps ==
    ASSUME ProcessInv, NEW a \in Apis, Process!Exit(a),
           UNCHANGED <<copies, boots, losses, inserts>>
    PROVE  ProcessInv'
<1>0. ProcessTyped /\ Gone(a)
  BY ExitFrame DEF ProcessInv
<1>a. \A b \in Apis : IF b = a THEN phase'[b] = "down" /\ link'[b] = "none"
                      ELSE phase'[b] = phase[b] /\ open'[b] = open[b] /\ link'[b] = link[b]
  BY <1>0 DEF Gone
<1>1. ProcessTyped'
  <2>1. \A b \in subscribed' : link'[b] = "up"
    BY <1>0, ProcessTypes DEF Gone
  <2>2. subscribed' \subseteq Apis
    BY <1>0, ProcessTypes DEF Gone
  <2>3. copies' \in [Calls -> Nat] /\ boots' \in 0..MaxBoots /\ losses' \in 0..MaxLosses
        /\ inserts' \in 0..MaxInserts
    BY <1>0, ProcessTypes, ServiceAssumption
  <2> QED
    BY <1>0, <2>1, <2>2, <2>3, TypesProcess DEF Gone
<1>2. OpenInv' /\ HeldInv'
  <2>1. OpenInv'
    BY <1>a DEF ProcessInv, OpenInv
  <2>2. ASSUME NEW c \in Calls, call'[c].pc \in Running
        PROVE  call'[c].api \in Apis /\ phase'[call'[c].api] \in {"serving", "draining"}
    <3>1. call'[c] = call[c] /\ ~(call[c].api = a /\ call[c].pc \in Running)
      BY <1>0, <2>2 DEF Gone, Running
    <3>2. call[c].api \in Apis /\ phase[call[c].api] \in {"serving", "draining"}
      BY <2>2, <3>1 DEF ProcessInv, HeldInv
    <3> QED
      BY <1>0, <2>2, <3>1, <3>2 DEF Gone
  <2> QED
    BY <2>1, <2>2 DEF HeldInv
<1>3. OneLink'
  BY <1>a DEF ProcessInv, OneLink
<1>4. \A c \in Calls : call'[c].pc # "cut" => call'[c] = call[c]
  BY <1>0 DEF Gone
<1>5. OnceInv' /\ ResentInv'
  BY <1>0, <1>4, ReadingsKept DEF Gone
<1> QED
  BY <1>1, <1>2, <1>3, <1>5 DEF ProcessInv

\* A process boots.
LEMMA BootKeeps ==
    ASSUME ProcessInv, NEW a \in Apis, Process!Boot(a)
    PROVE  ProcessInv'
<1> USE DEF Process!To
<1>0. ProcessTyped /\ OpenInv /\ HeldInv /\ OneLink
  BY DEF ProcessInv
<1>1. ASSUME Process!ConnectMongo(a) PROVE ProcessInv'
  <2>1. ProcessTyped'
    BY <1>0, <1>1, ProcessTypes, TypesProcess, ServiceAssumption
       DEF Process!ConnectMongo, Process!Phases, AllOpen
  <2>2. OpenInv' /\ HeldInv' /\ OneLink'
    BY <1>0, <1>1, ProcessTypes DEF Process!ConnectMongo, OpenInv, HeldInv, OneLink
  <2>3. OnceInv' /\ ResentInv'
    BY <1>1, ReadingsKept DEF Process!ConnectMongo
  <2> QED
    BY <2>1, <2>2, <2>3 DEF ProcessInv
<1>2. ASSUME Process!ConnectRedis(a) PROVE ProcessInv'
  <2>1. CASE Process!Exit(a)
    BY <1>2, <2>1, ExitKeeps DEF Process!ConnectRedis
  <2>2. CASE ~Process!Exit(a)
    <3>1. /\ phase[a] = "mongo" /\ phase' = [phase EXCEPT ![a] = "wiring"]
          /\ open' = [open EXCEPT ![a] = @ \cup {"redis"}]
          /\ UNCHANGED <<link, subscribed, inbox, call, copies, boots, losses, inserts>>
      BY <1>2, <2>2 DEF Process!ConnectRedis
    <3>2. ProcessTyped'
      BY <1>0, <3>1, ProcessTypes, TypesProcess, ServiceAssumption
         DEF Process!Phases, AllOpen
    <3>3. OpenInv' /\ HeldInv' /\ OneLink'
      BY <1>0, <3>1, ProcessTypes DEF OpenInv, HeldInv, OneLink
    <3>4. OnceInv' /\ ResentInv'
      BY <3>1, ReadingsKept
    <3> QED
      BY <3>2, <3>3, <3>4 DEF ProcessInv
  <2> QED
    BY <2>1, <2>2
<1>3. ASSUME Process!Wire(a) PROVE ProcessInv'
  <2>1. /\ phase[a] = "wiring" /\ phase' = [phase EXCEPT ![a] = "ready"]
        /\ open' = [open EXCEPT ![a] = @ \cup {"queue"}]
        /\ inbox' = inbox /\ call' = call /\ copies' = copies
        /\ boots' = boots /\ losses' = losses /\ inserts' = inserts
    BY <1>3 DEF Process!Wire
  <2>2. \/ link' = Process!Connected(a) /\ subscribed' = Process!Subscribers(a) \cup {a}
        \/ link' = link /\ subscribed' = subscribed
    BY <1>3 DEF Process!Wire
  <2>3. /\ link' \in [Apis -> {"none", "up", "lost"}] /\ subscribed' \subseteq Apis
        /\ \A b \in subscribed' : link'[b] = "up"
        /\ subscribed' \subseteq subscribed \cup {a} /\ OneLink'
    BY <1>0, <2>2, ProcessTypes, Takeover DEF OneLink
  <2>4. ProcessTyped'
    BY <1>0, <2>1, <2>3, ProcessTypes, TypesProcess DEF Process!Phases, AllOpen
  <2>5. OpenInv' /\ HeldInv'
    BY <1>0, <2>1, ProcessTypes DEF OpenInv, HeldInv, AllOpen
  <2>6. \A c \in Calls : call[c].pc = "publish" => call[c].api # a
    BY <1>0, <2>1 DEF HeldInv, Running
  <2>7. OnceInv' /\ ResentInv'
    BY <2>1, <2>3, <2>6, ReadingsKept
  <2> QED
    BY <2>3, <2>4, <2>5, <2>7 DEF ProcessInv
<1>4. ASSUME Process!Listen(a) PROVE ProcessInv'
  <2>1. ProcessTyped'
    BY <1>0, <1>4, ProcessTypes, TypesProcess DEF Process!Listen, Process!Phases
  <2>2. OpenInv' /\ HeldInv' /\ OneLink'
    BY <1>0, <1>4, ProcessTypes DEF Process!Listen, OpenInv, HeldInv, OneLink
  <2>3. OnceInv' /\ ResentInv'
    BY <1>4, ReadingsKept DEF Process!Listen
  <2> QED
    BY <2>1, <2>2, <2>3 DEF ProcessInv
<1> QED
  BY <1>1, <1>2, <1>3, <1>4 DEF Process!Boot

\* A process is told to stop, and closes one connection after the other.
LEMMA StopKeeps ==
    ASSUME ProcessInv, NEW a \in Apis, Process!Signal(a) \/ Process!Closing(a)
    PROVE  ProcessInv'
<1> USE DEF Process!To
<1>0. ProcessTyped /\ OpenInv /\ HeldInv /\ OneLink
  BY DEF ProcessInv
<1>1. ASSUME Process!Signal(a) PROVE ProcessInv'
  <2>1. ProcessTyped'
    BY <1>0, <1>1, ProcessTypes, TypesProcess DEF Process!Signal, Process!Phases
  <2>2. OpenInv' /\ HeldInv' /\ OneLink'
    BY <1>0, <1>1, ProcessTypes DEF Process!Signal, OpenInv, HeldInv, OneLink
  <2>3. OnceInv' /\ ResentInv'
    BY <1>1, ReadingsKept DEF Process!Signal
  <2> QED
    BY <2>1, <2>2, <2>3 DEF ProcessInv
<1>2. ASSUME Process!DisconnectMongo(a) PROVE ProcessInv'
  <2>1. ProcessTyped'
    BY <1>0, <1>2, ProcessTypes, TypesProcess DEF Process!DisconnectMongo, Process!Phases
  <2>2. \A c \in Calls : call[c].pc \in Running => call[c].api # a
    BY <1>2 DEF Process!DisconnectMongo, Process!Drained, Process!InFlight, Running
  <2>3. OpenInv' /\ HeldInv' /\ OneLink'
    BY <1>0, <1>2, <2>2, ProcessTypes
       DEF Process!DisconnectMongo, OpenInv, HeldInv, OneLink
  <2>4. OnceInv' /\ ResentInv'
    BY <1>2, ReadingsKept DEF Process!DisconnectMongo
  <2> QED
    BY <2>1, <2>3, <2>4 DEF ProcessInv
<1>3. ASSUME Process!CloseQueue(a) PROVE ProcessInv'
  <2>1. ProcessTyped'
    BY <1>0, <1>3, ProcessTypes, TypesProcess DEF Process!CloseQueue, Process!Phases
  <2>2. OpenInv' /\ HeldInv' /\ OneLink'
    BY <1>0, <1>3, ProcessTypes DEF Process!CloseQueue, OpenInv, HeldInv, OneLink
  <2>3. OnceInv' /\ ResentInv'
    BY <1>3, ReadingsKept DEF Process!CloseQueue
  <2> QED
    BY <2>1, <2>2, <2>3 DEF ProcessInv
<1>4. ASSUME Process!CloseMqtt(a) PROVE ProcessInv'
  <2>1. <<>> \in Seq(Calls)
    BY EmptySeq
  <2>2. ProcessTyped'
    BY <1>0, <1>4, <2>1, ProcessTypes, TypesProcess DEF Process!CloseMqtt, Process!Phases
  <2>3. OpenInv' /\ HeldInv' /\ OneLink'
    BY <1>0, <1>4, ProcessTypes DEF Process!CloseMqtt, OpenInv, HeldInv, OneLink
  <2>4. \A b \in Apis : inbox'[b] = inbox[b] \/ inbox'[b] = <<>>
    BY <1>0, <1>4, ProcessTypes DEF Process!CloseMqtt
  <2>5. OnceInv' /\ ResentInv'
    BY <1>4, <2>4, ReadingsKept DEF Process!CloseMqtt
  <2> QED
    BY <2>2, <2>3, <2>5 DEF ProcessInv
<1> QED
  BY <1>1, <1>2, <1>3, <1>4, ExitKeeps
     DEF Process!Closing, Process!GiveUp, Process!CloseRedis

\* A request goes on in a process that serves it.
LEMMA RequestKeeps ==
    ASSUME ProcessInv, NEW c \in Calls,
           \/ \E a \in Apis : Process!Arrive(c, a)
           \/ Process!Check(c) \/ Process!Insert(c) \/ Process!Enqueue(c) \/ Process!PubAck(c)
    PROVE  ProcessInv'
<1>0. ProcessTyped /\ OpenInv /\ HeldInv /\ OneLink
  BY DEF ProcessInv
<1>1. UNCHANGED <<phase, open, link, subscribed, inbox, copies, boots, losses, inserts>>
  BY DEF Process!Arrive, Process!Check, Process!Insert, Process!Enqueue, Process!PubAck
<1>2. /\ call' \in [Calls -> [pc : Labels, api : Apis \cup {None}]]
      /\ \A d \in Calls : d # c => call'[d] = call[d]
      /\ call'[c].pc \in Running =>
            call'[c].api \in Apis /\ phase[call'[c].api] \in {"serving", "draining"}
      /\ call'[c].pc \in {"check", "insert", "enqueue", "publish"} =>
            call[c].pc \in {"new", "check", "insert"}
      /\ call'[c].pc # "new"
  <2>1. ASSUME NEW a \in Apis, Process!Arrive(c, a)
        PROVE  /\ call'[c] = [pc |-> "check", api |-> a] /\ phase[a] = "serving"
               /\ call[c].pc = "new"
               /\ call' \in [Calls -> [pc : Labels, api : Apis \cup {None}]]
               /\ \A d \in Calls : d # c => call'[d] = call[d]
    <3>1. [pc |-> "check", api |-> a] \in [pc : Labels, api : Apis \cup {None}]
      BY DEF Labels
    <3> QED
      BY <1>0, <2>1, <3>1, ProcessTypes DEF Process!Arrive
  <2>2. ASSUME NEW pc \in {"insert", "enqueue", "publish", "done"},
               Process!Step(c, pc), call[c].pc \in Running,
               pc \in {"insert", "enqueue", "publish"} => call[c].pc \in {"check", "insert"}
        PROVE  /\ call' \in [Calls -> [pc : Labels, api : Apis \cup {None}]]
               /\ \A d \in Calls : d # c => call'[d] = call[d]
               /\ call'[c].api \in Apis /\ phase[call'[c].api] \in {"serving", "draining"}
               /\ call'[c].pc = pc
    <3>1. pc \in Labels
      BY DEF Labels
    <3>2. call[c].api \in Apis /\ phase[call[c].api] \in {"serving", "draining"}
      BY <1>0, <2>2 DEF HeldInv
    <3> QED
      BY <1>0, <2>2, <3>1, <3>2, Labelled
  <2>3. CASE Process!Check(c)
    <3>1. \E pc \in {"insert", "publish", "done"} : Process!Step(c, pc)
      BY <2>3 DEF Process!Check
    <3>2. call[c].pc = "check"
      BY <2>3 DEF Process!Check
    <3> QED
      BY <2>2, <3>1, <3>2 DEF Running
  <2>4. CASE Process!Insert(c) \/ Process!Enqueue(c) \/ Process!PubAck(c)
    <3>1. \/ call[c].pc = "insert" /\ Process!Step(c, "enqueue")
          \/ call[c].pc \in {"enqueue", "unacked"} /\ Process!Step(c, "done")
      BY <2>4 DEF Process!Insert, Process!Enqueue, Process!PubAck
    <3> QED
      BY <2>2, <3>1 DEF Running
  <2>5. CASE \E a \in Apis : Process!Arrive(c, a)
    <3>1. PICK a \in Apis : Process!Arrive(c, a)
      BY <2>5
    <3>2. /\ call'[c] = [pc |-> "check", api |-> a] /\ phase[a] = "serving"
          /\ call[c].pc = "new"
          /\ call' \in [Calls -> [pc : Labels, api : Apis \cup {None}]]
          /\ \A d \in Calls : d # c => call'[d] = call[d]
      BY <2>1, <3>1
    <3>3. call'[c].pc = "check" /\ call'[c].api = a
      BY <3>2
    <3> QED
      BY <3>2, <3>3
  <2> QED
    BY <2>3, <2>4, <2>5
<1>3. ProcessTyped'
  BY <1>0, <1>1, <1>2, ProcessTypes, TypesProcess, ServiceAssumption
<1>4. OpenInv' /\ HeldInv' /\ OneLink'
  BY <1>0, <1>1, <1>2 DEF OpenInv, HeldInv, OneLink
<1>5. OnceInv' /\ ResentInv'
  BY <1>1, <1>2, ReadingsKept
<1> QED
  BY <1>3, <1>4, <1>5 DEF ProcessInv

\* A reading is published to whoever subscribes over the one connection there is: to the
\* process that publishes it, if nobody took its place.
LEMMA PublishKeeps ==
    ASSUME ProcessInv, NEW c \in Calls, Process!Publish(c)
    PROVE  ProcessInv'
<1>0. ProcessTyped /\ OpenInv /\ HeldInv /\ OneLink /\ OnceInv /\ ResentInv
  BY DEF ProcessInv
<1> DEFINE p == call[c].api
<1>1. /\ call[c].pc = "publish" /\ link[p] = "up" /\ p \in Apis
      /\ phase[p] \in {"serving", "draining"}
      /\ UNCHANGED <<phase, open, link, subscribed, copies, boots, losses, inserts>>
  BY <1>0 DEF Process!Publish, HeldInv, Running
<1>2. /\ call' \in [Calls -> [pc : Labels, api : Apis \cup {None}]]
      /\ call'[c].pc = "unacked" /\ call'[c].api = p
      /\ \A d \in Calls : d # c => call'[d] = call[d]
  BY <1>0, Labelled DEF Process!Publish, Labels
<1>3. subscribed \subseteq {p}
  BY <1>0, <1>1, ProcessTypes DEF OneLink
<1>4. inbox' = [a \in Apis |-> IF a \in subscribed THEN Append(inbox[a], c) ELSE inbox[a]]
  BY DEF Process!Publish
<1>5. \A a \in Apis : inbox[a] \in Seq(Calls)
  BY <1>0, ProcessTypes
<1>6. /\ inbox' \in [Apis -> Seq(Calls)]
      /\ \A a \in Apis : IF a \in subscribed THEN inbox'[a] = Append(inbox[a], c)
                         ELSE inbox'[a] = inbox[a]
  <2>1. \A a \in Apis : Append(inbox[a], c) \in Seq(Calls)
    BY <1>5, AppendProperties
  <2> QED
    BY <1>4, <1>5, <2>1
<1>7. ProcessTyped'
  BY <1>0, <1>1, <1>2, <1>6, ProcessTypes, TypesProcess, ServiceAssumption
<1>8. OpenInv' /\ HeldInv' /\ OneLink'
  BY <1>0, <1>1, <1>2 DEF OpenInv, HeldInv, OneLink, Running
<1>9. \A a \in Apis : \A i \in DOMAIN inbox'[a] :
         \/ i \in DOMAIN inbox[a] /\ inbox'[a][i] = inbox[a][i]
         \/ a = p /\ p \in subscribed /\ inbox'[a][i] = c /\ i = Len(inbox[p]) + 1
  <2> SUFFICES ASSUME NEW a \in Apis, NEW i \in DOMAIN inbox'[a]
               PROVE  \/ i \in DOMAIN inbox[a] /\ inbox'[a][i] = inbox[a][i]
                      \/ a = p /\ p \in subscribed /\ inbox'[a][i] = c /\ i = Len(inbox[p]) + 1
    OBVIOUS
  <2>1. CASE a \in subscribed
    <3>1. inbox'[a] = Append(inbox[a], c) /\ a = p /\ inbox[a] \in Seq(Calls)
      BY <1>3, <1>5, <1>6, <2>1
    <3> HIDE DEF p
    <3>2. i \in 1..Len(inbox[a]) + 1 /\ Len(inbox[a]) \in Nat /\ DOMAIN inbox[a] = 1..Len(inbox[a])
      BY <3>1, AppendProperties, LenProperties
    <3>3. /\ i <= Len(inbox[a]) => inbox'[a][i] = inbox[a][i]
          /\ i = Len(inbox[a]) + 1 => inbox'[a][i] = c
      BY <3>1, <3>2, AppendProperties
    <3> QED
      BY <2>1, <3>1, <3>2, <3>3
  <2>2. CASE a \notin subscribed
    BY <1>6, <2>2
  <2> QED
    BY <2>1, <2>2
<1>10. ~Heard(c) \/ p \notin subscribed
  BY <1>0, <1>1 DEF ResentInv
<1> HIDE DEF p
<1>11. OnceInv'
  <2> SUFFICES ASSUME NEW d \in Calls
               PROVE  /\ copies[d] <= 1
                      /\ \A a, b \in Apis : \A i \in DOMAIN inbox'[a], j \in DOMAIN inbox'[b] :
                            inbox'[a][i] = d /\ inbox'[b][j] = d
                                => copies[d] = 0 /\ a = b /\ i = j
    BY <1>1 DEF OnceInv
  <2>1. copies[d] <= 1
    BY <1>0 DEF OnceInv
  <2>2. ASSUME NEW a \in Apis, NEW b \in Apis, NEW i \in DOMAIN inbox'[a],
               NEW j \in DOMAIN inbox'[b], inbox'[a][i] = d, inbox'[b][j] = d
        PROVE  copies[d] = 0 /\ a = b /\ i = j
    <3>1. CASE i \in DOMAIN inbox[a] /\ inbox'[a][i] = inbox[a][i]
               /\ j \in DOMAIN inbox[b] /\ inbox'[b][j] = inbox[b][j]
      BY <1>0, <2>2, <3>1 DEF OnceInv
    <3>2. CASE d = c /\ p \in subscribed
      <4>1. copies[c] = 0 /\ \A e \in Apis : \A k \in DOMAIN inbox[e] : inbox[e][k] # c
        BY <1>0, <1>10, <3>2, ProcessTypes DEF Heard
      <4> QED
        BY <1>9, <2>2, <3>2, <4>1
    <3> QED
      BY <1>9, <2>2, <3>1, <3>2
  <2> QED
    BY <2>1, <2>2
<1>12. ResentInv'
  <2>1. \A d \in Calls : d # c => (Heard(d)' => Heard(d))
    BY <1>1, <1>9 DEF Heard
  <2> QED
    BY <1>0, <1>1, <1>2, <2>1 DEF ResentInv
<1> QED
  BY <1>7, <1>8, <1>11, <1>12 DEF ProcessInv

\* A reading that was delivered is stored, or dropped, at the head of its queue.
LEMMA TelemetryKeeps ==
    ASSUME ProcessInv, NEW a \in Apis, Process!HandleTelemetry(a)
    PROVE  ProcessInv'
<1>0. ProcessTyped /\ OpenInv /\ HeldInv /\ OneLink /\ OnceInv /\ ResentInv
  BY DEF ProcessInv
<1> DEFINE s == inbox[a]   d == Head(inbox[a])
<1>1. /\ s # <<>> /\ inbox' = [inbox EXCEPT ![a] = Tail(s)]
      /\ UNCHANGED <<phase, open, link, subscribed, call, boots, losses>>
      /\ copies' = copies \/ copies' = [copies EXCEPT ![d] = @ + 1]
      /\ inserts' = inserts \/ (inserts < MaxInserts /\ inserts' = inserts + 1)
  BY DEF Process!HandleTelemetry
<1>2. s \in Seq(Calls)
  BY <1>0, ProcessTypes
<1>3. /\ d \in Calls /\ d = s[1] /\ 1 \in DOMAIN s
      /\ Tail(s) \in Seq(Calls)
      /\ \A i \in DOMAIN Tail(s) : i + 1 \in DOMAIN s /\ i \in Nat \ {0}
                                   /\ Tail(s)[i] = s[i + 1]
  <2> HIDE DEF s
  <2>1. Len(s) \in Nat /\ Len(s) # 0 /\ DOMAIN s = 1..Len(s) /\ s[1] \in Calls
    BY <1>1, <1>2, LenProperties, EmptySeq, ElementOfSeq
  <2>2. /\ Tail(s) \in Seq(Calls) /\ Len(Tail(s)) = Len(s) - 1
        /\ \A i \in 1..Len(Tail(s)) : Tail(s)[i] = s[i + 1]
        /\ Head(s) = s[1]
    BY <1>1, <1>2, HeadTailProperties
  <2>3. DOMAIN Tail(s) = 1..Len(Tail(s))
    BY <2>2, LenProperties
  <2> QED
    BY <2>1, <2>2, <2>3 DEF s
<1>4. /\ inbox' \in [Apis -> Seq(Calls)] /\ inbox'[a] = Tail(s)
      /\ \A b \in Apis : b # a => inbox'[b] = inbox[b]
  BY <1>0, <1>1, <1>3, ProcessTypes
<1>5. /\ copies' \in [Calls -> Nat] /\ copies'[d] \in {copies[d], copies[d] + 1}
      /\ \A c \in Calls : c # d => copies'[c] = copies[c]
  <2> HIDE DEF d
  <2>1. copies \in [Calls -> Nat] /\ d \in Calls /\ copies[d] \in Nat
    BY <1>0, <1>3, ProcessTypes
  <2> QED
    BY <1>1, <2>1
<1>6. inserts' \in 0..MaxInserts
  BY <1>0, <1>1, ProcessTypes, ServiceAssumption
<1>7. ProcessTyped'
  BY <1>0, <1>1, <1>4, <1>5, <1>6, ProcessTypes, TypesProcess, ServiceAssumption
<1>8. OpenInv' /\ HeldInv' /\ OneLink'
  BY <1>0, <1>1 DEF OpenInv, HeldInv, OneLink
<1> DEFINE Was(b, i) == IF b = a THEN i + 1 ELSE i
<1>9. \A b \in Apis : \A i \in DOMAIN inbox'[b] :
         /\ Was(b, i) \in DOMAIN inbox[b] /\ inbox'[b][i] = inbox[b][Was(b, i)]
         /\ b = a => i \in Nat \ {0}
  BY <1>3, <1>4
<1> HIDE DEF d, s
<1>10. copies[d] = 0 /\ \A b \in Apis : \A i \in DOMAIN inbox'[b] : inbox'[b][i] # d
  <2>1. copies[d] = 0 /\ \A b \in Apis : \A i \in DOMAIN inbox[b] :
                            inbox[b][i] = d => b = a /\ i = 1
    BY <1>0, <1>3 DEF OnceInv, s
  <2> QED
    BY <1>9, <2>1
<1>11. OnceInv'
  <2> SUFFICES ASSUME NEW c \in Calls
               PROVE  /\ copies'[c] <= 1
                      /\ \A b, e \in Apis : \A i \in DOMAIN inbox'[b], j \in DOMAIN inbox'[e] :
                            inbox'[b][i] = c /\ inbox'[e][j] = c
                                => copies'[c] = 0 /\ b = e /\ i = j
    BY DEF OnceInv
  <2>1. CASE c = d
    BY <1>5, <1>10, <2>1
  <2>2. CASE c # d
    <3>1. copies'[c] = copies[c] /\ copies[c] <= 1
      BY <1>0, <1>5, <2>2 DEF OnceInv
    <3>2. ASSUME NEW b \in Apis, NEW e \in Apis, NEW i \in DOMAIN inbox'[b],
                 NEW j \in DOMAIN inbox'[e], inbox'[b][i] = c, inbox'[e][j] = c
          PROVE  copies[c] = 0 /\ b = e /\ i = j
      <4>1. copies[c] = 0 /\ b = e /\ Was(b, i) = Was(e, j)
        BY <1>0, <1>9, <3>2 DEF OnceInv
      <4> QED
        BY <1>9, <4>1
    <3> QED
      BY <3>1, <3>2
  <2> QED
    BY <2>1, <2>2
<1>12. ResentInv'
  <2>1. Heard(d)
    BY <1>3 DEF Heard, s
  <2>2. \A c \in Calls : c # d => (Heard(c)' => Heard(c))
    BY <1>5, <1>9 DEF Heard
  <2> QED
    BY <1>0, <1>1, <2>1, <2>2 DEF ResentInv
<1> QED
  BY <1>7, <1>8, <1>11, <1>12 DEF ProcessInv

\* A connection to the broker breaks, or is made again without a subscription.
LEMMA LinkKeeps ==
    ASSUME ProcessInv, NEW a \in Apis, Process!LoseLink(a) \/ Process!Reconnect(a)
    PROVE  ProcessInv'
<1>0. ProcessTyped /\ OpenInv /\ HeldInv /\ OneLink
  BY DEF ProcessInv
<1>1. ASSUME Process!LoseLink(a) PROVE ProcessInv'
  <2>1. /\ link' \in [Apis -> {"none", "up", "lost"}] /\ subscribed' = subscribed \ {a}
        /\ \A b \in Apis : link'[b] = IF b = a THEN "lost" ELSE link[b]
        /\ losses' \in 0..MaxLosses
        /\ UNCHANGED <<phase, open, inbox, call, copies, boots, inserts>>
    BY <1>0, <1>1, ProcessTypes, ServiceAssumption DEF Process!LoseLink
  <2>2. ProcessTyped'
    BY <1>0, <2>1, ProcessTypes, TypesProcess, ServiceAssumption
  <2>3. OpenInv' /\ HeldInv' /\ OneLink'
    BY <1>0, <2>1 DEF OpenInv, HeldInv, OneLink
  <2>4. OnceInv' /\ ResentInv'
    BY <2>1, ReadingsKept
  <2> QED
    BY <2>2, <2>3, <2>4 DEF ProcessInv
<1>2. ASSUME Process!Reconnect(a) PROVE ProcessInv'
  <2>1. /\ link' \in [Apis -> {"none", "up", "lost"}] /\ link'[a] = "up"
        /\ \A b \in Apis : b # a => link'[b] # "up"
        /\ subscribed' = {}
        /\ UNCHANGED <<phase, open, inbox, copies, boots, losses, inserts>>
    BY <1>0, <1>2, Takeover DEF Process!Reconnect
  <2>2. call' = [c \in Calls |-> IF call[c].api = a /\ call[c].pc = "unacked"
                                THEN [call[c] EXCEPT !.pc = "publish"] ELSE call[c]]
    BY <1>2 DEF Process!Reconnect
  <2>3. "publish" \in Labels
    BY DEF Labels
  <2>4. /\ call' \in [Calls -> [pc : Labels, api : Apis \cup {None}]]
        /\ \A c \in Calls : /\ call'[c].api = call[c].api
                            /\ \/ call'[c].pc = call[c].pc
                               \/ call[c].pc = "unacked" /\ call'[c].pc = "publish"
    BY <1>0, <2>2, <2>3, ProcessTypes
  <2>5. ProcessTyped'
    BY <1>0, <2>1, <2>4, ProcessTypes, TypesProcess, ServiceAssumption
  <2>6. OpenInv' /\ HeldInv' /\ OneLink'
    BY <1>0, <2>1, <2>4 DEF OpenInv, HeldInv, OneLink, Running
  <2>7. OnceInv' /\ ResentInv'
    BY <2>1, <2>4, ReadingsKept
  <2> QED
    BY <2>5, <2>6, <2>7 DEF ProcessInv
<1> QED
  BY <1>1, <1>2

\* Every step of the processes keeps the invariant.
LEMMA ProcessKeeps == ASSUME ProcessInv, Process!Next PROVE ProcessInv'
<1>1. ASSUME NEW a \in Apis, Process!Die(a) PROVE ProcessInv'
  BY <1>1, ExitKeeps DEF Process!Die
<1> QED
  BY <1>1, BootKeeps, StopKeeps, RequestKeeps, PublishKeeps, TelemetryKeeps, LinkKeeps
     DEF Process!Next

\* What a request in flight needs is what its process holds while it serves.
LEMMA ProcessPromises == ProcessInv => Process!InFlightServed /\ Process!OneReading
<1> SUFFICES ASSUME ProcessInv PROVE Process!InFlightServed /\ Process!OneReading
  OBVIOUS
<1>1. ASSUME NEW c \in Calls, call[c].pc \in {"check", "insert", "enqueue"}
      PROVE  Process!Needs(call[c].pc) \subseteq open[call[c].api]
  <2>1. open[call[c].api] = AllOpen
    BY <1>1 DEF ProcessInv, HeldInv, OpenInv, Running
  <2>2. Process!Needs(call[c].pc) \subseteq AllOpen
    BY <1>1 DEF Process!Needs, AllOpen
  <2> QED
    BY <2>1, <2>2
<1> QED
  BY <1>1 DEF Process!InFlightServed, Process!OneReading, ProcessInv, OnceInv

-----------------------------------------------------------------------------
(* The releases and their devices *)

\* The invariants of the releases, and the types of the devices beside them.
GateInv ==
    /\ TInv /\ PInv /\ SInv /\ BInv
    /\ device \in [Devices -> Device] /\ bare \in BOOLEAN

\* A call that fails beside the releases disturbs none of them.
LEMMA FaultBeside ==
    ASSUME TInv, PInv, SInv, BInv,
           UNCHANGED <<policy, storage, rel, history>>,
           faults' = faults \/ (faults' = faults + 1)
    PROVE  TInv' /\ PInv' /\ SInv' /\ BInv'
<1>1. TInv'
  BY DEF TInv, TypeOK, JobsSound, history
<1>2. PInv'
  BY DEF PInv, history
<1>3. SInv'
  BY DEF SInv, Named, Holds, history
<1>4. BInv'
  <2>1. \A b \in Builds : InFlight(b)' = InFlight(b)
    BY DEF InFlight, At
  <2>2. Orphans' = Orphans
    BY <2>1 DEF Orphans
  <2>3. Orphans' \subseteq Orphans \cup {} /\ IsFiniteSet({}) /\ Cardinality({}) <= ApkRetention
    BY <2>2, FS_EmptySet, KeyFacts, ReleaseAssumption
  <2>4. OrphanBudget
    BY DEF BInv
  <2>5. OrphanBudget'
    BY <1>1, <2>2, <2>3, <2>4, WithinBudget DEF history
  <2> QED
    BY <2>5 DEF BInv
<1> QED
  BY <1>1, <1>2, <1>3, <1>4

\* Nothing has been released, and no device has asked.
LEMMA GateStarts == GateInit => GateInv
<1> SUFFICES ASSUME GateInit PROVE GateInv
  OBVIOUS
<1>1. TInv /\ PInv /\ SInv /\ BInv
  BY InitTyped, InitPolicy, InitStored, InitBudget DEF GateInit
<1>2. device \in [Devices -> Device] /\ bare \in BOOLEAN
  BY DEF GateInit, Device, Contents
<1> QED
  BY <1>1, <1>2 DEF GateInv

\* A device goes on: it is told, follows the link, installs.
LEMMA DeviceKeeps ==
    ASSUME GateInv, NEW d \in Devices, Ask(d) \/ Follow(d) \/ Install(d)
    PROVE  GateInv'
<1>0. TypeOK /\ device \in [Devices -> Device] /\ bare \in BOOLEAN
  BY DEF GateInv, TInv
<1>1. UNCHANGED <<policy, storage, rel, history, bare>>
  BY DEF Ask, Follow, Install
<1>2. faults' = faults \/ (faults' = faults + 1)
  BY DEF Ask, Follow, Install, Fault
<1>3. device' \in [Devices -> Device]
  <2>0. device[d] \in Device
    BY <1>0
  <2>1. CASE Ask(d)
    <3>1. PICK t \in Verdicts \cup {None} : device' = [device EXCEPT ![d].told = t]
      BY <2>1 DEF Ask, Check, Verdicts
    <3>2. [device[d] EXCEPT !.told = t] \in Device
      BY <2>0, <3>1 DEF Device
    <3> QED
      BY <1>0, <3>1, <3>2
  <2>2. CASE Follow(d)
    <3>1. DownloadURL \in Keys
      BY <1>0, <2>2 DEF Follow, DownloadURL, TypeOK, AppVersion
    <3>2. [device[d] EXCEPT !.link = DownloadURL] \in Device
      BY <2>0, <3>1 DEF Device
    <3> QED
      BY <1>0, <2>2, <3>2 DEF Follow
  <2>3. CASE Install(d)
    <3>1. device[d].link \in Keys
      BY <2>0, <2>3 DEF Install, Device
    <3>2. storage[device[d].link] \in Contents \cup {None}
      BY <1>0, <3>1 DEF TypeOK
    <3>3. /\ [device[d] EXCEPT !.link = None] \in Device
          /\ storage[device[d].link] # None =>
                [installed |-> storage[device[d].link], told |-> None, link |-> None] \in Device
      BY <2>0, <3>2 DEF Device
    <3> QED
      BY <1>0, <2>3, <3>3 DEF Install
  <2> QED
    BY <2>1, <2>2, <2>3
<1> QED
  BY <1>0, <1>1, <1>2, <1>3, FaultBeside DEF GateInv

\* The releases go on beside the devices as they do alone.
LEMMA GateKeeps ==
    ASSUME GateInv,
           \/ GateNext
           \/ \E b \in Builds : Release(b)
           \/ \E p \in AdminPolicies : SetPolicy(p)
    PROVE  GateInv'
<1>1. ASSUME Next, UNCHANGED device, bare' \in BOOLEAN PROVE GateInv'
  BY <1>1, NextTyped, NextPolicy, NextStored, NextBudget DEF GateInv
<1>2. ASSUME NEW b \in Builds, Release(b) PROVE GateInv'
  <2>1. Next /\ UNCHANGED device
    BY <1>2 DEF Release, Next
  <2>2. b.artifact \in BOOLEAN
    BY ReleaseAssumption DEF ReleaseInput
  <2>3. bare' \in BOOLEAN
    BY <1>2, <2>2 DEF Release, GateInv
  <2> QED
    BY <1>1, <2>1, <2>3
<1>3. ASSUME NEW p \in AdminPolicies, SetPolicy(p) PROVE GateInv'
  BY <1>1, <1>3 DEF SetPolicy, Next
<1> QED
  BY <1>2, <1>3, DeviceKeeps DEF GateNext

-----------------------------------------------------------------------------
(* The service *)

\* Both parts keep their invariants, whichever a behaviour follows.
ServiceInv == GateInv /\ ProcessInv

\* A behaviour stays with its part.
LEMMA ServiceKeeps == ServiceInv /\ [ServiceNext]_serviceVars => ServiceInv'
<1> SUFFICES ASSUME ServiceInv, [ServiceNext]_serviceVars PROVE ServiceInv'
  OBVIOUS
<1>1. ASSUME UNCHANGED gateVars PROVE GateInv'
  <2>1. UNCHANGED <<policy, storage, rel, history, device, bare>> /\ faults' = faults
    BY <1>1 DEF gateVars, vars, history
  <2> QED
    BY <2>1, FaultBeside DEF ServiceInv, GateInv
<1>2. ASSUME UNCHANGED processVars PROVE ProcessInv'
  BY <1>2 DEF processVars, ServiceInv, ProcessInv, ProcessTyped, Process!TypeOK, OpenInv,
     HeldInv, OneLink, OnceInv, ResentInv, Heard
<1> QED
  BY <1>1, <1>2, GateKeeps, ProcessKeeps DEF ServiceNext, ServiceInv, serviceVars

\* The invariant holds throughout.
THEOREM ServiceInvariant == ServiceSpec => []ServiceInv
<1>1. ServiceInit => ServiceInv
  BY GateStarts, ProcessStarts DEF ServiceInit, ServiceInv
<1> QED
  BY <1>1, ServiceKeeps, PTL DEF ServiceSpec

\* The state of all parts is well typed.
THEOREM ServiceTypeCorrect == ServiceSpec => []TypesOK
<1>1. ServiceInv => TypesOK
  BY DEF ServiceInv, GateInv, TInv, ProcessInv, ProcessTyped, TypesOK, GateTypeOK
<1> QED
  BY <1>1, ServiceInvariant, PTL

\* A request in flight never finds a connection closed under it, whenever its process is
\* told to stop; and a simulated reading is stored at most once, however often its message
\* is sent again and however many instances run.
THEOREM RequestsAreServed == ServiceSpec => []ServedOnce
<1>1. ServiceInv => ServedOnce
  BY ProcessPromises DEF ServiceInv, ServedOnce
<1> QED
  BY <1>1, ServiceInvariant, PTL

\* Devices that ask, follow links and install, and lookups that fail for them, change
\* nothing of what the releases keep.
THEOREM ReleasesBesideDevices == ServiceSpec => [](StorageKept /\ PolicyKept)
<1>1. ServiceInv => StorageKept /\ PolicyKept
  BY StoreGoal, PolicyGoal DEF ServiceInv, GateInv
<1> QED
  BY <1>1, ServiceInvariant, PTL
=============================================================================
