----------------------------- MODULE Analytics -----------------------------
(***************************************************************************)
(* The analytics dashboard (modules/analytics): a report is put together   *)
(* from several counts, read one after the other while users, passkeys and *)
(* numbers change, and kept in Redis for everybody who asks after.  Most   *)
(* reports take a count that failed for zero, and show and keep it so.     *)
(***************************************************************************)
EXTENDS FiniteSets, Naturals, Sequences

CONSTANTS
    Users, Passkeys, Numbers,
    Attachment,    \* [Passkeys -> {"platform", "cross-platform"}]
    BackedUp,      \* the passkeys registered as ones that may be synced
    Ops,           \* requests of administrators
    Keys,          \* what they ask for: [report, from, to], days from <= d < to
    LastDay,
    MaxChanges,    \* bound: changes of what is counted
    MaxFaults,     \* bound: calls of MongoDB or Redis that fail
    None

VARIABLES
    account,   \* [Users -> [status, created, deleted]], days, 0 for never
    nearLock,  \* users with passwordAttempts at the maximum (or, for the fraud
               \* report, one below: the two are not told apart)
    owner,     \* [Passkeys -> Users or None]
    mobiles,   \* the stored numbers, all of them verified
    day,
    cache,     \* [Keys -> a report or None]
    op,        \* the requests
    changes, faults

world == <<account, nearLock, owner, mobiles, day>>
vars  == <<account, nearLock, owner, mobiles, day, cache, op, changes, faults>>

NoReport == [got |-> [q \in {} |-> 0], added |-> {}, failed |-> {}]
Idle == [pc |-> "idle", key |-> None, todo |-> <<>>, report |-> NoReport]

Init ==
    /\ account \in [Users -> {[status |-> None, created |-> 0, deleted |-> 0],
                              [status |-> "active", created |-> 1, deleted |-> 0]}]
    /\ nearLock = {} /\ day = 1
    /\ owner = [p \in Passkeys |-> None]
    /\ mobiles = {}
    /\ cache = [k \in Keys |-> None]
    /\ op = [o \in Ops |-> Idle]
    /\ changes = 0 /\ faults = 0

-----------------------------------------------------------------------------
(* The queries *)

Created == {u \in Users : account[u].status # None}
Live == {u \in Created : account[u].deleted = 0}
Within(d, key) == key.from <= d /\ d < key.to

\* What a count, an aggregation or a find of the service matches.
Matching(query, key) ==
    CASE query = "registered" -> {u \in Live : Within(account[u].created, key)}
      [] query = "churned"    -> {u \in Created : Within(account[u].deleted, key)}
      [] query = "ever"       -> {u \in Created : account[u].created < key.to}
      [] query \in {"users", "methods"} -> Live
      [] query \in {"locked", "near"}   -> Live \cap nearLock
      [] query = "active"     -> {u \in Live : account[u].status = "active"}
      [] query = "passkeys"   -> {p \in Passkeys : owner[p] # None}
      [] query = "owners"     -> {owner[p] : p \in Passkeys} \ {None}
      [] query = "mobiles"    -> mobiles
      [] query = "verified"   -> mobiles   \* VerifyOTP stores no other
      [] query \in {"logged", "stuffing"} -> {}   \* activity_logs, devices: no code writes these
      [] query = "backed-up"  -> {p \in BackedUp : owner[p] # None}
      [] OTHER -> {p \in Passkeys : owner[p] # None /\ Attachment[p] = query}

\* Bug for comparison: the whole of the churn report is counted before its part.
WholeFirst(report) == <<"ever", "churned">>

\* UserChurn: the deletions, then all there ever were.
ChurnReads(report) == <<"churned", "ever">>

\* The calls a report makes, in order.
Reads(report) ==
    CASE report = "churn"         -> ChurnReads(report)
      [] report = "registrations" -> <<"registered">>
      [] report = "lockout"       -> <<"users", "locked">>
      [] report = "adoption"      -> <<"passkeys", "platform", "cross-platform", "backed-up", "active", "owners">>
      [] report = "mobile"        -> <<"mobiles", "verified">>
      [] report = "fraud"         -> <<"near", "stuffing">>
      [] report = "signups"       -> <<"methods">>
      [] report = "logins"        -> <<"logged">>

\* An aggregation returns its error, and FraudSignalSummary goes through the cursor it
\* did not get, which is a panic that is recovered.  The counts of the others, and the
\* aggregation that the fraud report makes and does not use, drop theirs.
FailsAsAWhole(query) == query \in {"registered", "near", "methods", "logged"}

-----------------------------------------------------------------------------
(* A request *)

\* cachedTTL: an entry found is the answer; one not found, or not read, is computed.
Ask(o, key) ==
    /\ op[o].pc \in {"idle", "answered", "failed"}
    /\ \/ /\ cache[key] # None
          /\ op' = [op EXCEPT ![o] = [Idle EXCEPT !.pc = "answered", !.key = key,
                                                  !.report = cache[key]]]
          /\ UNCHANGED faults
       \/ /\ \/ cache[key] = None /\ UNCHANGED faults
             \/ cache[key] # None /\ faults < MaxFaults /\ faults' = faults + 1
          /\ op' = [op EXCEPT ![o] = [Idle EXCEPT !.pc = "reading", !.key = key,
                                                  !.todo = Reads(key.report)]]
    /\ UNCHANGED <<world, cache, changes>>

With(report, query, n) ==
    [report EXCEPT !.got = [q \in DOMAIN report.got \cup {query} |->
                               IF q = query THEN n ELSE report.got[q]]]

Took(o, report) ==
    op' = [op EXCEPT ![o].todo = Tail(@), ![o].report = report,
                     ![o].pc = IF Len(op[o].todo) = 1 THEN "storing" ELSE "reading"]

Count(o) ==
    /\ op[o].pc = "reading"
    /\ LET query == Head(op[o].todo)
       IN  Took(o, With(op[o].report, query, Cardinality(Matching(query, op[o].key))))
    /\ UNCHANGED <<world, cache, changes, faults>>

CountFails(o) ==
    /\ op[o].pc = "reading" /\ faults < MaxFaults
    /\ faults' = faults + 1
    /\ LET query == Head(op[o].todo)
       IN  IF FailsAsAWhole(query)
           THEN op' = [op EXCEPT ![o].pc = "failed"]
           ELSE Took(o, [With(op[o].report, query, 0) EXCEPT !.failed = @ \cup {query}])
    /\ UNCHANGED <<world, cache, changes>>

\* The answer is also kept, unless Redis refuses it.
Store(o) ==
    /\ op[o].pc = "storing"
    /\ op' = [op EXCEPT ![o].pc = "answered"]
    /\ \/ cache' = [cache EXCEPT ![op[o].key] = op[o].report] /\ UNCHANGED faults
       \/ faults < MaxFaults /\ faults' = faults + 1 /\ UNCHANGED cache
    /\ UNCHANGED <<world, changes>>

Expire(key) ==
    /\ cache[key] # None
    /\ cache' = [cache EXCEPT ![key] = None]
    /\ UNCHANGED <<world, op, changes, faults>>

-----------------------------------------------------------------------------
(* What is counted changes *)

\* History: what was added under a report that is being read.
Added(x) ==
    op' = [o \in Ops |-> IF op[o].pc = "reading"
                         THEN [op[o] EXCEPT !.report.added = @ \cup {x}] ELSE op[o]]

Change == changes < MaxChanges /\ changes' = changes + 1

Register(u) ==
    /\ Change /\ account[u].status = None
    /\ account' = [account EXCEPT ![u] = [status |-> "active", created |-> day, deleted |-> 0]]
    /\ Added(u)
    /\ UNCHANGED <<nearLock, owner, mobiles, day, cache, faults>>

\* UpdateStatus, and SoftDelete, which keeps the document and its passkeys.
UpdateStatus(u, status) ==
    /\ Change /\ u \in Live
    /\ account' = [account EXCEPT ![u].status = status]
    /\ UNCHANGED <<nearLock, owner, mobiles, day, cache, op, faults>>

SoftDelete(u) ==
    /\ Change /\ u \in Live
    /\ account' = [account EXCEPT ![u].deleted = day]
    /\ UNCHANGED <<nearLock, owner, mobiles, day, cache, op, faults>>

\* HandleFailedLogin up to the maximum; ResetPasswordAttempts.
Attempts(u) ==
    /\ Change /\ u \in Live
    /\ nearLock' = IF u \in nearLock THEN nearLock \ {u} ELSE nearLock \cup {u}
    /\ UNCHANGED <<account, owner, mobiles, day, cache, op, faults>>

AddPasskey(p, u) ==
    /\ Change /\ owner[p] = None /\ u \in Live
    /\ owner' = [owner EXCEPT ![p] = u]
    /\ Added(p)
    /\ UNCHANGED <<account, nearLock, mobiles, day, cache, faults>>

RemovePasskey(p) ==
    /\ Change /\ owner[p] # None
    /\ owner' = [owner EXCEPT ![p] = None]
    /\ UNCHANGED <<account, nearLock, mobiles, day, cache, op, faults>>

VerifyOTP(n) ==
    /\ Change /\ mobiles' = mobiles \cup {n}
    /\ Added(n)
    /\ UNCHANGED <<account, nearLock, owner, day, cache, faults>>

DeleteNumber(n) ==
    /\ Change /\ mobiles' = mobiles \ {n}
    /\ UNCHANGED <<account, nearLock, owner, day, cache, op, faults>>

NextDay ==
    /\ day < LastDay /\ day' = day + 1
    /\ UNCHANGED <<account, nearLock, owner, mobiles, cache, op, changes, faults>>

Next ==
    \/ \E o \in Ops : (\E key \in Keys : Ask(o, key)) \/ Count(o) \/ CountFails(o) \/ Store(o)
    \/ \E key \in Keys : Expire(key)
    \/ \E u \in Users : Register(u) \/ SoftDelete(u) \/ Attempts(u)
                     \/ \E status \in {"active", "blocked"} : UpdateStatus(u, status)
    \/ \E p \in Passkeys : RemovePasskey(p) \/ \E u \in Users : AddPasskey(p, u)
    \/ \E n \in Numbers : VerifyOTP(n) \/ DeleteNumber(n)
    \/ NextDay

Spec == Init /\ [][Next]_vars

-----------------------------------------------------------------------------
(* Correctness *)

AllReports == {op[o].report : o \in {x \in Ops : op[x].pc = "answered"}}
              \cup ({cache[k] : k \in Keys} \ {None})

TypeOK ==
    /\ \A u \in Users : account[u].status \in {None, "active", "blocked"}
    /\ owner \in [Passkeys -> Users \cup {None}]
    /\ mobiles \subseteq Numbers
    /\ \A o \in Ops : op[o].pc \in {"idle", "reading", "storing", "answered", "failed"}
    /\ changes \in 0..MaxChanges /\ faults \in 0..MaxFaults

\* The counts of a report that were made.
Known(r) == DOMAIN r.got \ r.failed

\* Of every report, from MongoDB or from Redis, a part exceeds a whole that was counted by
\* no more than was added while it was read, and the churn by nothing at all: the
\* deletions are counted before the accounts (UserChurn), in the others the whole comes first
\* (LockoutStats, MobileVerificationStats, PasskeyAdoption).  Only a whole whose own count
\* failed stands at zero below its part; a part that failed is a zero that nothing tells
\* from a true one.  What is returned as an error is never given, nor kept, as such a zero.
PartsWithinWhole ==
    \A r \in AllReports :
        /\ "ever" \in Known(r) => r.got["churned"] <= r.got["ever"]
        /\ "users" \in Known(r) =>
               r.got["locked"] <= r.got["users"] + Cardinality(r.added \cap Users)
        /\ "mobiles" \in Known(r) =>
               r.got["verified"] <= r.got["mobiles"] + Cardinality(r.added \cap Numbers)
        /\ "passkeys" \in Known(r) =>
               /\ r.got["platform"] + r.got["cross-platform"]
                     <= r.got["passkeys"] + Cardinality(r.added \cap Passkeys)
               /\ r.got["backed-up"] <= r.got["passkeys"] + Cardinality(r.added \cap Passkeys)
        /\ \A query \in r.failed : ~FailsAsAWhole(query)
=============================================================================
