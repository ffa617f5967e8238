----------------------------- MODULE FlagCache -----------------------------
(***************************************************************************)
(* Feature flags (modules/featureflag): a flag is a document of MongoDB,   *)
(* read through Redis.  A reader asks Redis, then MongoDB, then fills the  *)
(* cache; an update writes the document, then deletes the cached value;    *)
(* the seed script writes documents and knows nothing of the cache.        *)
(***************************************************************************)
EXTENDS Naturals

CONSTANTS
    Flags,
    Readers, Updaters,   \* calls of IsEnabled, calls of Upsert
    Seeded,              \* [flags of the seed script -> BOOLEAN]
    MaxVersion,          \* bound: writes of one document
    MaxFaults,           \* bound: calls of Redis or MongoDB that fail
    None

VARIABLES
    flag,      \* [Flags -> BOOLEAN, or None without a document]
    version,   \* history: writes of each document
    cached,    \* [Flags -> None or [enabled, version]], version is history
    reader,    \* the calls of IsEnabled
    updater,   \* the calls of Upsert
    excused,   \* history: versions of a flag whose value may outlive them in the cache
    faults

vars == <<flag, version, cached, reader, updater, excused, faults>>

NotReading == [pc |-> "idle", flag |-> None, enabled |-> FALSE, version |-> 0]
NotUpdating == [pc |-> "idle", flag |-> None]

Init ==
    /\ flag \in [Flags -> {None, TRUE}]
    /\ version = [f \in Flags |-> 0]
    /\ cached = [f \in Flags |-> None]
    /\ reader = [r \in Readers |-> NotReading]
    /\ updater = [u \in Updaters |-> NotUpdating]
    /\ excused = [f \in Flags |-> {}]
    /\ faults = 0

Fault == faults < MaxFaults /\ faults' = faults + 1

-----------------------------------------------------------------------------
(* IsEnabled, behind FeatureFlagProtected *)

Answer(r, f, enabled, v) ==
    reader' = [reader EXCEPT ![r] = [pc |-> "done", flag |-> f, enabled |-> enabled, version |-> v]]

\* A hit is the answer; a miss, or any error of Redis, goes on to MongoDB.
Get(r, f) ==
    /\ reader[r].pc = "idle"
    /\ \/ /\ cached[f] # None
          /\ Answer(r, f, cached[f].enabled, cached[f].version)
          /\ UNCHANGED faults
       \/ /\ IF cached[f] = None THEN UNCHANGED faults ELSE Fault
          /\ reader' = [reader EXCEPT ![r] = [NotReading EXCEPT !.pc = "find", !.flag = f]]
    /\ UNCHANGED <<flag, version, cached, updater, excused>>

IsOn(f) == flag[f] = TRUE

FindOne(r) ==
    /\ reader[r].pc = "find"
    /\ reader' = [reader EXCEPT ![r].pc = "fill", ![r].enabled = IsOn(reader[r].flag),
                                ![r].version = version[reader[r].flag]]
    /\ UNCHANGED <<flag, version, cached, updater, excused, faults>>

\* The middleware refuses the request.
FindFails(r) ==
    /\ reader[r].pc = "find" /\ Fault
    /\ reader' = [reader EXCEPT ![r].pc = "failed"]
    /\ UNCHANGED <<flag, version, cached, updater, excused>>

\* A missing flag is kept as off; an error of Redis is ignored.
Fill(r) ==
    /\ reader[r].pc = "fill"
    /\ reader' = [reader EXCEPT ![r].pc = "done"]
    /\ \/ /\ cached' = [cached EXCEPT ![reader[r].flag] =
                            [enabled |-> reader[r].enabled, version |-> reader[r].version]]
          /\ UNCHANGED faults
       \/ Fault /\ UNCHANGED cached
    /\ UNCHANGED <<flag, version, updater, excused>>

-----------------------------------------------------------------------------
(* Upsert, the seed script, time *)

\* History: the readers between their read and their fill carry the version that a
\* delete to come will not remove.
InHand(f) == {reader[r].version : r \in {x \in Readers :
                 reader[x].pc = "fill" /\ reader[x].flag = f}}

Written(f, enabled) ==
    /\ version[f] < MaxVersion
    /\ flag' = [flag EXCEPT ![f] = enabled]
    /\ version' = [version EXCEPT ![f] = @ + 1]

FindOneAndUpdate(u, f, enabled) ==
    /\ updater[u].pc = "idle"
    /\ Written(f, enabled)
    /\ updater' = [updater EXCEPT ![u] = [pc |-> "bust", flag |-> f]]
    /\ UNCHANGED <<cached, reader, excused, faults>>

\* Bug for comparison: the cached value is left to expire.
KeepCached(f) == cached

Busted(f) == [cached EXCEPT ![f] = None]

InCache(f) == IF cached[f] = None THEN {} ELSE {cached[f].version}

\* The delete may fail: the error is ignored and the old value stays.
Bust(u) ==
    LET f == updater[u].flag
    IN  /\ updater[u].pc = "bust"
        /\ updater' = [updater EXCEPT ![u].pc = "done"]
        /\ \/ /\ cached' = Busted(f)
              /\ excused' = [excused EXCEPT ![f] = @ \cup InHand(f)]
              /\ UNCHANGED faults
           \/ /\ Fault
              /\ excused' = [excused EXCEPT ![f] = @ \cup InHand(f) \cup InCache(f)]
              /\ UNCHANGED cached
        /\ UNCHANGED <<flag, version, reader>>

\* seedFeatureFlags: the document is set on every run, whatever was set before it;
\* nothing is deleted from Redis.
Seed(f) ==
    /\ f \in DOMAIN Seeded
    /\ Written(f, Seeded[f])
    /\ excused' = [excused EXCEPT ![f] = @ \cup InHand(f) \cup InCache(f)]
    /\ UNCHANGED <<cached, reader, updater, faults>>

\* flagCacheTTL, or Redis evicts.
Expire(f) ==
    /\ cached[f] # None
    /\ cached' = [cached EXCEPT ![f] = None]
    /\ UNCHANGED <<flag, version, reader, updater, excused, faults>>

\* The next request.
Again(r) ==
    /\ reader[r].pc \in {"done", "failed"}
    /\ reader' = [reader EXCEPT ![r] = NotReading]
    /\ UNCHANGED <<flag, version, cached, updater, excused, faults>>

Next ==
    \/ \E r \in Readers : (\E f \in Flags : Get(r, f)) \/ FindOne(r) \/ FindFails(r) \/ Fill(r) \/ Again(r)
    \/ \E u \in Updaters : Bust(u) \/ \E f \in Flags, enabled \in BOOLEAN : FindOneAndUpdate(u, f, enabled)
    \/ \E f \in Flags : Seed(f) \/ Expire(f)

Spec == Init /\ [][Next]_vars

-----------------------------------------------------------------------------
(* Correctness *)

TypeOK ==
    /\ flag \in [Flags -> BOOLEAN \cup {None}]
    /\ version \in [Flags -> 0..MaxVersion]
    /\ \A f \in Flags : cached[f] # None => cached[f].version \in 0..version[f]
    /\ \A r \in Readers : reader[r].pc \in {"idle", "find", "fill", "done", "failed"}
    /\ \A u \in Updaters : updater[u].pc \in {"idle", "bust", "done"}
    /\ faults \in 0..MaxFaults

Busting(f) == \E u \in Updaters : updater[u] = [pc |-> "bust", flag |-> f]

\* Once no update of a flag is between its two steps, the cache holds the value of the
\* document as it is, or one that an update could not delete: a reader had it in hand
\* at that moment, the delete failed, or the seed script wrote behind the cache
\* (Upsert's "Bust cache").
StaleOnlyIfRaced ==
    \A f \in Flags : cached[f] # None /\ ~Busting(f) =>
        cached[f].version = version[f] \/ cached[f].version \in excused[f]
=============================================================================
