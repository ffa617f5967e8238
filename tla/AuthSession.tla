---------------------------- MODULE AuthSession ----------------------------
(***************************************************************************)
(* Login, token refresh, logout and the session check of every             *)
(* authenticated request (modules/auth, shared/middleware/auth.go), with   *)
(* the account document they read and write (modules/user).                *)
(*                                                                         *)
(* A request is a goroutine: each Redis or MongoDB call it makes is one    *)
(* atomic step, and any other request may run in between.  What it read    *)
(* earlier is kept in its locals and may be stale when used.  A request    *)
(* that is refused without a write leaves no trace and is not a step.      *)
(* JWT expiry can only refuse a request, so it is left out.                *)
(***************************************************************************)
EXTENDS Naturals, FiniteSets, Permissions

CONSTANTS
    Users,
    Sids,                 \* session identifiers, fresh uuids
    Reqs,                 \* requests that may be in flight together
    Grants,               \* access fields an administrator may write
    MaxPasswordAttempts,  \* AUTH_MAX_PASSWORD_ATTEMPTS
    AttemptCap,           \* bound on the failure counter
    MaxFaults,            \* bound on failed calls and abandoned requests
    None

VARIABLES
    user,      \* the users collection
    redis,     \* the Redis keys that exist
    token,     \* the claims signed for each session identifier
    held,      \* sessions whose token pair reached a client
    req,       \* the locals of each request
    faults,    \* failed calls and abandoned requests so far
    revoked,   \* history: sessions a DEL has removed
    parent     \* history: the session whose refresh token minted this one

vars == <<user, redis, token, held, req, faults, revoked, parent>>

-----------------------------------------------------------------------------
(* Types and null values *)

\* What is signed for a user.  The role's name and the tenant are signed too and copied from
\* the same document: nothing here depends on them, and the gate of the role is in UserAdmin.
Claims == [uid : Users, perms : SUBSET (AllAssignablePermissions \cup {PermAll})]

\* Administrators write permissions that validatePermissionGrant accepts; None identifies nothing.
ASSUME AuthAssumption ==
    /\ None \notin Users \cup Sids \cup Claims
    /\ Grants \subseteq {g \in Grant : ValidPermissionGrant(g.extra, g.revoked)}
    /\ RegisteredGrant \in Grants
    /\ IsFiniteSet(Reqs) /\ Reqs # {} /\ IsFiniteSet(Sids)
    /\ MaxPasswordAttempts \in Nat \ {0}
    /\ AttemptCap \in Nat
    /\ MaxFaults \in Nat

Account == [status : {"absent", "active", "blocked"},
            deleted : BOOLEAN,
            attempts : Nat,                      \* passwordAttempts
            lock : {"none", "future", "past"},   \* lockedUntil against now
            grant : Grants]

Request == [pc : {"idle", "count", "lock", "find", "revoke", "issue",
                  "record", "respond", "serve", "logout", "logoutAll"},
            uid : Users \cup {None},
            sid : Sids \cup {None},      \* the session presented
            new : Sids \cup {None},      \* the session minted
            attempts : Nat,              \* u.PasswordAttempts as it was read
            grant : Grants,              \* u's access fields as they were read
            orphan : BOOLEAN,            \* history: u was deleted at the start
            seen : SUBSET Grants]        \* history: u's grants since the start

Idle == [pc |-> "idle", uid |-> None, sid |-> None, new |-> None,
         attempts |-> 0, grant |-> RegisteredGrant, orphan |-> FALSE, seen |-> {}]

TypeOK ==
    /\ user \in [Users -> Account]
    /\ redis \in SUBSET ({"session"} \X Sids)
    /\ token \in [Sids -> Claims \cup {None}]
    /\ held \in SUBSET Sids
    /\ req \in [Reqs -> Request]
    /\ faults \in Nat
    /\ revoked \in SUBSET Sids
    /\ parent \in [Sids -> Sids \cup {None}]

Init ==
    /\ user = [u \in Users |-> [status |-> "absent", deleted |-> FALSE,
                                attempts |-> 0, lock |-> "none",
                                grant |-> RegisteredGrant]]
    /\ redis = {}
    /\ token = [s \in Sids |-> None]
    /\ held = {}
    /\ req = [r \in Reqs |-> Idle]
    /\ faults = 0
    /\ revoked = {}
    /\ parent = [s \in Sids |-> None]

-----------------------------------------------------------------------------
(* Helpers *)

\* Bug for comparison: the identifier itself is the key.
BareKey(s) == s

SessionKey(s) == <<"session", s>>

SessionExists(s) == SessionKey(s) \in redis

\* Bug for comparison: the filter without deletedAt.
FoundEvenDeleted(u) == user[u].status # "absent"

\* The repository's filter {deletedAt: nil}.
Found(u) == user[u].status # "absent" /\ ~user[u].deleted

At(r, label) == req[r].pc = label

GoTo(r, label) == req' = [req EXCEPT ![r].pc = label]

Finish(r) == req' = [req EXCEPT ![r] = Idle]

\* The locals of a request for u that presents session s.
Started(label, u, s) ==
    [Idle EXCEPT !.pc = label, !.uid = u, !.sid = s,
                 !.attempts = user[u].attempts, !.grant = user[u].grant,
                 !.orphan = user[u].deleted, !.seen = {user[u].grant}]

\* A call failed or a client went away: MaxFaults bounds how often.
Fault == faults < MaxFaults /\ faults' = faults + 1

sessionVars == <<redis, token, held, revoked, parent>>

\* Bug for comparison: the key is deleted without its prefix.
RevokeUnprefixed(s) ==
    /\ redis' = redis \ {s}
    /\ revoked' = revoked \cup {s}

\* DEL session:<sid>, which succeeds when the key is already gone.
RevokeSession(s) ==
    /\ redis' = redis \ {SessionKey(s)}
    /\ revoked' = revoked \cup {s}

-----------------------------------------------------------------------------
(* Sign-in *)

\* Register: the unique email index refuses an address that was ever used.
Register(r, u) ==
    /\ At(r, "idle")
    /\ user[u].status = "absent"
    /\ user' = [user EXCEPT ![u].status = "active"]
    /\ req' = [req EXCEPT ![r] = Started("issue", u, None)]
    /\ UNCHANGED <<sessionVars, faults>>

\* Login up to the password comparison, on the document FindByEmail returned.
LoginFind(r, u) ==
    /\ At(r, "idle")
    /\ Found(u)
    /\ user[u].status = "active"
    /\ user[u].lock # "future"
    /\ \/ req' = [req EXCEPT ![r] = Started("issue", u, None)]
       \/ /\ user[u].attempts < AttemptCap
          /\ req' = [req EXCEPT ![r] = Started("count", u, None)]
    /\ UNCHANGED <<user, sessionVars, faults>>

\* GitHub's callback signs in whoever it finds (or registers) with no check of
\* the account's status or lock.
SocialLogin(r, u) ==
    /\ At(r, "idle")
    /\ Found(u)
    /\ req' = [req EXCEPT ![r] = Started("issue", u, None)]
    /\ UNCHANGED <<user, sessionVars, faults>>

\* Bug for comparison: the threshold has to be met exactly.
MeetsThreshold(r) == req[r].attempts + 1 = MaxPasswordAttempts

\* Judged by the counter the request read, not by the one it just wrote.
HitsThreshold(r) == req[r].attempts + 1 >= MaxPasswordAttempts

\* HandleFailedLogin, first call: $inc, on a deleted document too.
IncrementPasswordAttempts(r) ==
    /\ At(r, "count")
    /\ user' = [user EXCEPT ![req[r].uid].attempts = @ + 1]
    /\ IF HitsThreshold(r) THEN GoTo(r, "lock") ELSE Finish(r)
    /\ UNCHANGED <<sessionVars, faults>>

\* HandleFailedLogin, second call: lockedUntil, unless the account is gone.
LockAccount(r) ==
    /\ At(r, "lock")
    /\ user' = IF Found(req[r].uid)
               THEN [user EXCEPT ![req[r].uid].lock = "future"] ELSE user
    /\ Finish(r)
    /\ UNCHANGED <<sessionVars, faults>>

\* Bug for comparison: a refresh copies the claims of the token it was given.
CopiedPermissions(r, roleRead) ==
    IF req[r].sid # None THEN token[req[r].sid].perms
    ELSE GrantedBy(req[r].grant)

\* The permission claim: when the role cannot be read its permissions are
\* missing and the user's own grants and withdrawals still apply.
ClaimedPermissions(r, roleRead) ==
    LET g == req[r].grant
    IN  EffectivePermissions(IF roleRead THEN SystemRoles(g.role) ELSE {},
                             g.extra, g.revoked)

\* Bug for comparison: a refresh keeps the session identifier it was given.
KeptSid(r, s) == IF req[r].sid # None THEN s = req[r].sid ELSE token[s] = None

FreshSid(r, s) == token[s] = None

\* issueTokenPair up to the SET of the session key, under a fresh uuid.
IssueTokenPair(r, s) ==
    /\ At(r, "issue")
    /\ FreshSid(r, s)
    /\ \/ /\ token' = [token EXCEPT ![s] = [uid |-> req[r].uid,
                                            perms |-> ClaimedPermissions(r, TRUE)]]
          /\ UNCHANGED faults
       \/ /\ token' = [token EXCEPT ![s] = [uid |-> req[r].uid,
                                            perms |-> ClaimedPermissions(r, FALSE)]]
          /\ Fault
    /\ redis' = redis \cup {SessionKey(s)}
    /\ parent' = [parent EXCEPT ![s] = req[r].sid]
    /\ req' = [req EXCEPT ![r].new = s,
                          ![r].pc = IF req[r].sid = None THEN "record" ELSE "respond"]
    /\ UNCHANGED <<user, held, revoked>>

\* RecordLogin clears the counter and the lock; its error is discarded.
RecordLogin(r) ==
    /\ At(r, "record")
    /\ \/ /\ user' = IF Found(req[r].uid)
                     THEN [user EXCEPT ![req[r].uid].attempts = 0,
                                       ![req[r].uid].lock = "none"]
                     ELSE user
          /\ UNCHANGED faults
       \/ UNCHANGED user /\ Fault
    /\ GoTo(r, "respond")
    /\ UNCHANGED sessionVars

Respond(r) ==
    /\ At(r, "respond")
    /\ held' = held \cup {req[r].new}
    /\ Finish(r)
    /\ UNCHANGED <<user, redis, token, revoked, parent, faults>>

-----------------------------------------------------------------------------
(* Refresh *)

\* ParseRefresh, then EXISTS.
RefreshCheck(r, s) ==
    /\ At(r, "idle")
    /\ s \in held
    /\ SessionExists(s)
    /\ req' = [req EXCEPT ![r] = Started("find", token[s].uid, s)]
    /\ UNCHANGED <<user, sessionVars, faults>>

\* FindByID: the document is read again, the token's claims are not reused.
RefreshFind(r) ==
    /\ At(r, "find")
    /\ LET u == req[r].uid
       IN  IF Found(u)
           THEN req' = [req EXCEPT ![r].pc = "revoke", ![r].grant = user[u].grant]
           ELSE Finish(r)
    /\ UNCHANGED <<user, sessionVars, faults>>

\* RevokeSession, whose error is discarded.
RefreshRevoke(r) ==
    /\ At(r, "revoke")
    /\ \/ RevokeSession(req[r].sid) /\ UNCHANGED faults
       \/ UNCHANGED <<redis, revoked>> /\ Fault
    /\ GoTo(r, "issue")
    /\ UNCHANGED <<user, token, held, parent>>

-----------------------------------------------------------------------------
(* Authenticated requests *)

\* authJWTAccess: the access token's session must still be in Redis.
AccessCheck(r, s) ==
    /\ At(r, "idle")
    /\ s \in held
    /\ SessionExists(s)
    /\ \E route \in {"serve", "logout", "logoutAll"} :
          req' = [req EXCEPT ![r] = Started(route, token[s].uid, s)]
    /\ UNCHANGED <<user, sessionVars, faults>>

\* Any handler that leaves the sessions alone.
Serve(r) ==
    /\ At(r, "serve")
    /\ Finish(r)
    /\ UNCHANGED <<user, sessionVars, faults>>

Logout(r) ==
    /\ At(r, "logout")
    /\ RevokeSession(req[r].sid)
    /\ Finish(r)
    /\ UNCHANGED <<user, token, held, parent, faults>>

\* SCAN user_sessions:<uid>:*
UserSessionKeys(u) == {k \in redis : k[1] = "user_sessions" /\ k[2] = u}

\* RevokeSession is handed the whole scanned key, and prefixes it again.
LogoutAll(r) ==
    /\ At(r, "logoutAll")
    /\ redis' = redis \ {SessionKey(k) : k \in UserSessionKeys(req[r].uid)}
    /\ Finish(r)
    /\ UNCHANGED <<user, token, held, revoked, parent, faults>>

-----------------------------------------------------------------------------
(* Administration of the account *)

UpdateAccount(u, doc) ==
    /\ Found(u)
    /\ user' = [user EXCEPT ![u] = doc]

BlockUser(u) ==
    /\ UpdateAccount(u, [user[u] EXCEPT !.status = "blocked"])
    /\ UNCHANGED <<sessionVars, req, faults>>

UnblockUser(u) ==
    /\ UpdateAccount(u, [user[u] EXCEPT !.status = "active"])
    /\ UNCHANGED <<sessionVars, req, faults>>

DeleteUser(u) ==
    /\ UpdateAccount(u, [user[u] EXCEPT !.deleted = TRUE])
    /\ UNCHANGED <<sessionVars, req, faults>>

ResetPassword(u) ==
    /\ UpdateAccount(u, [user[u] EXCEPT !.attempts = 0, !.lock = "none"])
    /\ UNCHANGED <<sessionVars, req, faults>>

\* UserService.Update of the role and the permission lists.
UpdateAccess(u, g) ==
    /\ UpdateAccount(u, [user[u] EXCEPT !.grant = g])
    /\ req' = [r \in Reqs |-> IF req[r].uid = u
                              THEN [req[r] EXCEPT !.seen = @ \cup {g}] ELSE req[r]]
    /\ UNCHANGED <<sessionVars, faults>>

-----------------------------------------------------------------------------
(* The environment *)

LockExpires(u) ==
    /\ user[u].lock = "future"
    /\ user' = [user EXCEPT ![u].lock = "past"]
    /\ UNCHANGED <<sessionVars, req, faults>>

SessionExpires(s) ==
    /\ SessionExists(s)
    /\ redis' = redis \ {SessionKey(s)}
    /\ UNCHANGED <<user, token, held, req, faults, revoked, parent>>

\* The client went away, the process died or a call failed: the request ends
\* where it stands and nothing it did is undone.
Abort(r) ==
    /\ ~At(r, "idle")
    /\ Fault
    /\ Finish(r)
    /\ UNCHANGED <<user, sessionVars>>

-----------------------------------------------------------------------------

Next ==
    \/ \E r \in Reqs, u \in Users : Register(r, u) \/ LoginFind(r, u) \/ SocialLogin(r, u)
    \/ \E r \in Reqs, s \in Sids :
          IssueTokenPair(r, s) \/ RefreshCheck(r, s) \/ AccessCheck(r, s)
    \/ \E r \in Reqs :
          \/ IncrementPasswordAttempts(r) \/ LockAccount(r)
          \/ RecordLogin(r) \/ Respond(r)
          \/ RefreshFind(r) \/ RefreshRevoke(r)
          \/ Serve(r) \/ Logout(r) \/ LogoutAll(r)
          \/ Abort(r)
    \/ \E u \in Users :
          \/ BlockUser(u) \/ UnblockUser(u) \/ DeleteUser(u) \/ ResetPassword(u)
          \/ LockExpires(u)
          \/ \E g \in Grants : UpdateAccess(u, g)
    \/ \E s \in Sids : SessionExpires(s)

Spec == Init /\ [][Next]_vars

-----------------------------------------------------------------------------
(* Properties *)

\* Logout and rotation are final: a session some DEL has removed is never in
\* Redis again, whatever refreshes of it were already past their check.
RevokedStaysRevoked == \A s \in revoked : ~SessionExists(s)

Children(s) == {c \in Sids : parent[c] = s}

\* A refresh token may be replayed only by requests that passed the EXISTS
\* check together: its successors never outnumber them and the failed DELs.
RotationFanout ==
    \A s \in Sids : Cardinality(Children(s)) <= Cardinality(Reqs) + faults

\* A token never carries more than some grant its user had while the request
\* that minted it was running: a refresh does not launder old claims, and a
\* failed role lookup only takes permissions away.
ClaimsWithinGrant ==
    \A r \in Reqs : req[r].new # None =>
        \E g \in req[r].seen : token[req[r].new].perms \subseteq GrantedBy(g)

\* A request that began after its user was deleted mints no session.
NoSessionForDeleted ==
    \A r \in Reqs : req[r].orphan => req[r].new = None

\* How far concurrent failures, each judged by the counter it read, can run
\* past the threshold before the account is locked for the first time.
LockoutSlack ==
    \A u \in Users :
        user[u].lock = "none" /\ ~user[u].deleted =>
            user[u].attempts + 2 <= MaxPasswordAttempts + 2 * Cardinality(Reqs) + faults

\* "LogoutAll revokes ALL sessions belonging to a user."
LogoutAllRevokesAll ==
    [][\A r \in Reqs : LogoutAll(r) =>
          \A s \in Sids : token[s] # None /\ token[s].uid = req[r].uid
                              => SessionKey(s) \notin redis']_vars

-----------------------------------------------------------------------------
(* The inductive invariant behind the theorems of AuthSessionProofs *)

\* Whatever names a session names one that was minted.
MintedInv ==
    /\ \A s \in Sids : SessionExists(s) => token[s] # None
    /\ \A s \in held \cup revoked : token[s] # None
    /\ \A r \in Reqs : req[r].new # None => token[req[r].new] # None

\* What the locals of a request hold at each of its labels.
LocalsInv ==
    \A r \in Reqs :
        /\ req[r].pc # "idle" => req[r].uid # None /\ req[r].grant \in req[r].seen
        /\ req[r].pc \in {"find", "revoke", "serve", "logout", "logoutAll"}
              => req[r].sid # None /\ token[req[r].sid] # None
        /\ req[r].pc \in {"record", "respond"} <=> req[r].new # None

\* What a running request has seen of its user's grants includes today's.
SeenInv ==
    \A r \in Reqs : req[r].pc # "idle" => user[req[r].uid].grant \in req[r].seen

\* Deletion is for good, so a request that found its user deleted at the start
\* still does, and cannot be past a lookup.
OrphanInv ==
    /\ \A u \in Users : user[u].status = "absent" => ~user[u].deleted
    /\ \A r \in Reqs : req[r].orphan =>
          /\ user[req[r].uid].deleted
          /\ req[r].pc \in {"find", "serve", "logout", "logoutAll"}

Inv ==
    /\ TypeOK /\ MintedInv /\ LocalsInv /\ SeenInv /\ OrphanInv
    /\ RevokedStaysRevoked /\ ClaimsWithinGrant

-----------------------------------------------------------------------------
(* The abstract store this implements *)

Life == [s \in Sids |-> IF SessionExists(s) THEN "live"
                        ELSE IF token[s] = None THEN "unissued" ELSE "closed"]

Owner == [s \in Sids |-> IF token[s] = None THEN None ELSE token[s].uid]

Store == INSTANCE SessionLifecycle WITH life <- Life, owner <- Owner

StoreSpec == Store!Spec
=============================================================================
