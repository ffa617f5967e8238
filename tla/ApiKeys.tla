------------------------------ MODULE ApiKeys ------------------------------
(***************************************************************************)
(* API keys (modules/apikey) and the audit entries they leave              *)
(* (shared/audit, AuditService.Record).  A key is found by the first       *)
(* characters of its text, its lookup prefix, and then compared in full:   *)
(* Create rolls until no active key has the prefix, and inserts in another *)
(* call.  Nothing but this keeps prefixes apart: their index is not        *)
(* unique.                                                                 *)
(***************************************************************************)
EXTENDS Naturals, FiniteSets

CONSTANTS
    Keys, Prefixes,
    MaxAttempts,     \* maxPrefixAttempts
    Callers,         \* requests that present a key
    MaxRevokes,      \* bound: calls of Revoke
    MaxFaults,       \* bound: calls of MongoDB that fail
    None

VARIABLES
    row,       \* api_keys: [Keys -> None or [prefix, isActive, expired]]
    create,    \* the calls of Create, one for each key
    revoking,  \* calls of Revoke between their update and their entry
    caller,    \* what each caller was told
    lastUsed,  \* keys with a lastUsedAt
    touching,  \* keys whose lastUsedAt is still to be written
    trail,     \* audit_logs
    during,    \* history: keys whose Create overlapped with that of each key
    revokes, lost, faults

vars == <<row, create, revoking, caller, lastUsed, touching, trail, during, revokes, lost, faults>>

Idle == [pc |-> "idle", attempt |-> 0, prefix |-> None]

Init ==
    /\ row = [k \in Keys |-> None]
    /\ create = [k \in Keys |-> Idle]
    /\ revoking = {} /\ lastUsed = {} /\ touching = {} /\ trail = {}
    /\ caller = [c \in Callers |-> [key |-> None, told |-> None, shared |-> FALSE]]
    /\ during = [k \in Keys |-> {}]
    /\ revokes = 0 /\ lost = 0 /\ faults = 0

Fault == faults < MaxFaults /\ faults' = faults + 1
Active(k) == row[k] # None /\ row[k].isActive

-----------------------------------------------------------------------------
(* Audit entries *)

RiskOf(action) == IF action \in {"apiKey.create", "apiKey.revoke"} THEN "HIGH" ELSE "NORMAL"

\* No diff without a state on both sides.
ChangedFields(before, after) ==
    IF before = None \/ after = None THEN {}
    ELSE {f \in DOMAIN before : before[f] # after[f]}

Entry(action, k, before, after) ==
    [action |-> action, entityId |-> k, before |-> before, after |-> after,
     changedFields |-> ChangedFields(before, after), risk |-> RiskOf(action)]

\* Best effort: the insert may fail, or be cancelled with the request, and is only logged.
Record(e) ==
    \/ trail' = trail \cup {e} /\ UNCHANGED <<lost, faults>>
    \/ Fault /\ lost' = lost + 1 /\ UNCHANGED trail

-----------------------------------------------------------------------------
(* Create *)

\* Bug for comparison: the prefix of an expired key counts as free.
TakenUnlessExpired(prefix) ==
    \E k \in Keys : Active(k) /\ ~row[k].expired /\ row[k].prefix = prefix

PrefixTaken(prefix) == \E k \in Keys : Active(k) /\ row[k].prefix = prefix

UnderWay == {k \in Keys : create[k].pc \in {"insert", "count"}}

Begin(k) ==
    /\ create[k].pc = "idle"
    /\ create' = [create EXCEPT ![k].pc = "count"]
    /\ during' = [j \in Keys |-> IF j = k THEN UnderWay
                                 ELSE IF j \in UnderWay THEN during[j] \cup {k} ELSE during[j]]
    /\ UNCHANGED <<row, revoking, caller, lastUsed, touching, trail, revokes, lost, faults>>

\* One roll of freePrefix; an error of the count ends the call.
Roll(k, prefix) ==
    /\ create[k].pc = "count"
    /\ IF PrefixTaken(prefix)
       THEN create' = [create EXCEPT ![k].attempt = @ + 1,
                ![k].pc = IF create[k].attempt + 1 = MaxAttempts THEN "exhausted" ELSE "count"]
       ELSE create' = [create EXCEPT ![k].pc = "insert", ![k].prefix = prefix]
    /\ UNCHANGED <<row, revoking, caller, lastUsed, touching, trail, during, revokes, lost, faults>>

Insert(k) ==
    /\ create[k].pc = "insert"
    /\ row' = [row EXCEPT ![k] = [prefix |-> create[k].prefix, isActive |-> TRUE, expired |-> FALSE]]
    /\ create' = [create EXCEPT ![k].pc = "record"]
    /\ UNCHANGED <<revoking, caller, lastUsed, touching, trail, during, revokes, lost, faults>>

\* Bug for comparison: a failed insert is logged and the call goes on.
FailureIgnored(k) ==
    /\ create[k].pc = "insert" /\ Fault
    /\ create' = [create EXCEPT ![k].pc = "record"]
    /\ UNCHANGED <<row, revoking, caller, lastUsed, touching, trail, during, revokes, lost>>

CreateFails(k) ==
    /\ create[k].pc \in {"count", "insert"} /\ Fault
    /\ create' = [create EXCEPT ![k].pc = "failed"]
    /\ UNCHANGED <<row, revoking, caller, lastUsed, touching, trail, during, revokes, lost>>

RecordCreate(k) ==
    /\ create[k].pc = "record"
    /\ Record(Entry("apiKey.create", k, None, [isActive |-> TRUE]))
    /\ create' = [create EXCEPT ![k].pc = "done"]
    /\ UNCHANGED <<row, revoking, caller, lastUsed, touching, during, revokes>>

-----------------------------------------------------------------------------
(* Validate, Revoke *)

\* What a key is told when the lookup finds this row.
Verdict(k, found) ==
    IF row[found].expired THEN "expired"
    ELSE IF found # k THEN "invalid"
    ELSE "accepted"

\* FindOne gives some active row with the prefix; lastUsedAt is left to a goroutine.
Validate(c, k) ==
    /\ caller[c].told = None /\ create[k].pc = "done"
    /\ LET matching == {j \in Keys : Active(j) /\ row[j].prefix = row[k].prefix}
           tell(t) == caller' = [caller EXCEPT ![c] = [key |-> k, told |-> t,
                          shared |-> ~Active(k) \/ row[k].expired \/ matching \cap during[k] # {}
                                     \/ \E j \in matching : k \in during[j]]]
       IN  \/ matching = {} /\ tell("invalid") /\ UNCHANGED touching
           \/ \E found \in matching :
                 /\ tell(Verdict(k, found))
                 /\ touching' = IF Verdict(k, found) = "accepted" THEN touching \cup {k} ELSE touching
    /\ UNCHANGED <<row, create, revoking, lastUsed, trail, during, revokes, lost, faults>>

ValidateFails(c, k) ==
    /\ caller[c].told = None /\ create[k].pc = "done" /\ Fault
    /\ caller' = [caller EXCEPT ![c] = [key |-> k, told |-> "error", shared |-> FALSE]]
    /\ UNCHANGED <<row, create, revoking, lastUsed, touching, trail, during, revokes, lost>>

Touch(k) ==
    /\ k \in touching
    /\ touching' = touching \ {k}
    /\ \/ lastUsed' = lastUsed \cup {k} /\ UNCHANGED faults
       \/ Fault /\ UNCHANGED lastUsed
    /\ UNCHANGED <<row, create, revoking, caller, trail, during, revokes, lost>>

Again(c) ==
    /\ caller[c].told # None
    /\ caller' = [caller EXCEPT ![c] = [key |-> None, told |-> None, shared |-> FALSE]]
    /\ UNCHANGED <<row, create, revoking, lastUsed, touching, trail, during, revokes, lost, faults>>

\* Revoke updates by id and asks neither whether there is such a key nor what it was.
Revoke(k) ==
    /\ revokes < MaxRevokes /\ revokes' = revokes + 1
    /\ k \notin revoking /\ revoking' = revoking \cup {k}
    /\ row' = IF row[k] = None THEN row ELSE [row EXCEPT ![k].isActive = FALSE]
    /\ UNCHANGED <<create, caller, lastUsed, touching, trail, during, lost, faults>>

RecordRevoke(k) ==
    /\ k \in revoking /\ revoking' = revoking \ {k}
    /\ Record(Entry("apiKey.revoke", k, [isActive |-> TRUE], [isActive |-> FALSE]))
    /\ UNCHANGED <<row, create, caller, lastUsed, touching, during, revokes>>

Expire(k) ==
    /\ row[k] # None /\ ~row[k].expired
    /\ row' = [row EXCEPT ![k].expired = TRUE]
    /\ UNCHANGED <<create, revoking, caller, lastUsed, touching, trail, during, revokes, lost, faults>>

Next ==
    \/ \E k \in Keys : Begin(k) \/ Insert(k) \/ CreateFails(k) \/ RecordCreate(k) \/ Touch(k)
                       \/ Revoke(k) \/ RecordRevoke(k) \/ Expire(k)
    \/ \E k \in Keys, prefix \in Prefixes : Roll(k, prefix)
    \/ \E c \in Callers : Again(c) \/ \E k \in Keys : Validate(c, k) \/ ValidateFails(c, k)

Spec == Init /\ [][Next]_vars

-----------------------------------------------------------------------------
(* Correctness *)

TypeOK ==
    /\ \A k \in Keys : row[k] # None => row[k] \in [prefix : Prefixes, isActive : BOOLEAN, expired : BOOLEAN]
    /\ \A k \in Keys : create[k].attempt \in 0..MaxAttempts
    /\ revoking \subseteq Keys /\ lastUsed \subseteq Keys /\ touching \subseteq Keys
    /\ lost <= faults /\ faults \in 0..MaxFaults

\* An active key that has not expired is refused only if another key with its prefix was
\* created while it was: "Create therefore re-rolls until the lookup prefix is free
\* among ACTIVE keys", the expired ones included, which Validate finds too.
RefusedOnlyIfRaced ==
    \A c \in Callers : caller[c].told \in {"invalid", "expired"} => caller[c].shared

\* Every key stored and every revocation has its entry, but for as many as were lost, and
\* a key has a create entry only if it was stored (Record "best-effort").
TrailFollowsTheKeys ==
    /\ \A e \in trail : e.action = "apiKey.create" => row[e.entityId] # None
    /\ Cardinality({k \in Keys : create[k].pc = "done" /\
           \A e \in trail : ~(e.action = "apiKey.create" /\ e.entityId = k)}) <= lost
    /\ Cardinality({k \in Keys : row[k] # None /\ ~row[k].isActive /\ k \notin revoking /\
           \A e \in trail : ~(e.action = "apiKey.revoke" /\ e.entityId = k)}) <= lost
=============================================================================
