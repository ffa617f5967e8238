------------------------- MODULE AuthSessionProofs -------------------------
(***************************************************************************)
(* Theorems of AuthSession for every set of users, sessions, requests and  *)
(* grants and every threshold.                                             *)
(***************************************************************************)
EXTENDS AuthSession, FiniteSetTheorems, TLAPS

\* The resolver only ever returns known slugs and the wildcard.
LEMMA EffectiveType ==
    ASSUME NEW g \in Grant, NEW rolePerms \in {SystemRoles(g.role), {}}
    PROVE  EffectivePermissions(rolePerms, g.extra, g.revoked)
               \in SUBSET (AllAssignablePermissions \cup {PermAll})
<1>1. g.extra \subseteq AllAssignablePermissions
  BY DEF Grant
<1>2. SystemRoles(g.role) \subseteq AllAssignablePermissions \cup {PermAll}
  BY DEF Grant, RoleSlugs, SystemRoles, AssignableTenantRoles,
         AllAssignablePermissions, PermAll
<1> QED
  BY <1>1, <1>2 DEF EffectivePermissions

\* Losing the role's permissions never adds one: a failed role lookup gives a
\* subset of what the user's grant gives.
LEMMA EffectiveMonotone ==
    ASSUME NEW g \in Grant
    PROVE  EffectivePermissions({}, g.extra, g.revoked) \subseteq GrantedBy(g)
<1>1. PermAll \notin g.extra
  BY DEF Grant, AllAssignablePermissions, PermAll
<1> QED
  BY <1>1 DEF EffectivePermissions, GrantedBy

\* The locals a request starts with are well typed.
LEMMA StartedType ==
    ASSUME TypeOK, NEW u \in Users, NEW s \in Sids \cup {None},
           NEW label \in {"count", "find", "issue", "serve", "logout", "logoutAll"}
    PROVE  /\ Started(label, u, s) \in Request
           /\ Started(label, u, s).pc = label
           /\ Started(label, u, s).uid = u
           /\ Started(label, u, s).sid = s
           /\ Started(label, u, s).new = None
           /\ Started(label, u, s).orphan = user[u].deleted
           /\ Started(label, u, s).grant \in Started(label, u, s).seen
<1>1. user[u] \in Account
  BY DEF TypeOK
<1>2. user[u].grant \in Grants /\ user[u].attempts \in Nat /\ user[u].deleted \in BOOLEAN
  BY <1>1 DEF Account
<1> QED
  BY <1>2, AuthAssumption DEF Started, Idle, Request

\* Every update of an account document leaves one.
LEMMA AccountType ==
    ASSUME NEW a \in Account
    PROVE  /\ [a EXCEPT !.attempts = a.attempts + 1] \in Account
           /\ \A l \in {"none", "future", "past"} : [a EXCEPT !.lock = l] \in Account
           /\ [a EXCEPT !.attempts = 0, !.lock = "none"] \in Account
           /\ \A x \in {"active", "blocked"} : [a EXCEPT !.status = x] \in Account
           /\ [a EXCEPT !.deleted = TRUE] \in Account
           /\ \A g \in Grants : [a EXCEPT !.grant = g] \in Account
<1>1. [a EXCEPT !.attempts = a.attempts + 1] \in Account
  BY DEF Account
<1>2. \A l \in {"none", "future", "past"} : [a EXCEPT !.lock = l] \in Account
  BY DEF Account
<1>3. [a EXCEPT !.attempts = 0, !.lock = "none"] \in Account
  BY DEF Account
<1>4. \A x \in {"active", "blocked"} : [a EXCEPT !.status = x] \in Account
  BY DEF Account
<1>5. [a EXCEPT !.deleted = TRUE] \in Account
  BY DEF Account
<1>6. \A g \in Grants : [a EXCEPT !.grant = g] \in Account
  BY DEF Account
<1> QED
  BY <1>1, <1>2, <1>3, <1>4, <1>5, <1>6

\* The locals of a request that is not running are well typed.
LEMMA IdleType == Idle \in Request
  BY AuthAssumption DEF Idle, Request

-----------------------------------------------------------------------------
(* Type correctness *)

\* An empty deployment is well typed.
LEMMA InitType == Init => TypeOK
  BY AuthAssumption, IdleType DEF Init, TypeOK, Account

\* Every step of a request, an administrator or a timer keeps the types.
LEMMA NextType == Inv /\ [Next]_vars => TypeOK'
<1> SUFFICES ASSUME Inv, [Next]_vars PROVE TypeOK'
  OBVIOUS
<1> USE AuthAssumption, IdleType
<1>0. TypeOK /\ MintedInv /\ LocalsInv
  BY DEF Inv
<1>1. ASSUME NEW r \in Reqs, NEW u \in Users, Register(r, u) PROVE TypeOK'
  <2>1. user' \in [Users -> Account]
    BY <1>0, <1>1 DEF Register, TypeOK, Account
  <2>2. req' \in [Reqs -> Request]
    BY <1>0, <1>1, StartedType DEF Register, TypeOK
  <2> QED
    BY <1>0, <1>1, <2>1, <2>2 DEF Register, TypeOK, sessionVars
<1>2. ASSUME NEW r \in Reqs, NEW u \in Users, LoginFind(r, u) \/ SocialLogin(r, u)
      PROVE TypeOK'
  <2>1. Started("issue", u, None) \in Request /\ Started("count", u, None) \in Request
    BY <1>0, StartedType
  <2>2. req' \in [Reqs -> Request]
    BY <1>0, <1>2, <2>1 DEF LoginFind, SocialLogin, TypeOK
  <2> QED
    BY <1>0, <1>2, <2>2 DEF LoginFind, SocialLogin, TypeOK, sessionVars
<1>3. ASSUME NEW r \in Reqs, NEW s \in Sids, RefreshCheck(r, s) \/ AccessCheck(r, s)
      PROVE TypeOK'
  <2>1. token[s].uid \in Users
    BY <1>0, <1>3 DEF RefreshCheck, AccessCheck, MintedInv, TypeOK, Claims
  <2>2. \A label \in {"find", "serve", "logout", "logoutAll"} :
           Started(label, token[s].uid, s) \in Request
    BY <1>0, <2>1, StartedType
  <2>3. req' \in [Reqs -> Request]
    BY <1>0, <1>3, <2>2 DEF RefreshCheck, AccessCheck, TypeOK
  <2> QED
    BY <1>0, <1>3, <2>3 DEF RefreshCheck, AccessCheck, TypeOK, sessionVars
<1>4. ASSUME NEW r \in Reqs, NEW s \in Sids, IssueTokenPair(r, s) PROVE TypeOK'
  <2>1. req[r] \in Request /\ req[r].pc = "issue"
    BY <1>0, <1>4 DEF IssueTokenPair, TypeOK, At
  <2>2. req[r].uid \in Users /\ req[r].sid \in Sids \cup {None} /\ req[r].grant \in Grants
    BY <1>0, <2>1 DEF Request, LocalsInv
  <2>3. /\ ClaimedPermissions(r, TRUE) \in SUBSET (AllAssignablePermissions \cup {PermAll})
        /\ ClaimedPermissions(r, FALSE) \in SUBSET (AllAssignablePermissions \cup {PermAll})
    BY <2>2, EffectiveType DEF ClaimedPermissions
  <2>4. token' \in [Sids -> Claims \cup {None}]
    <3>1. \A p \in SUBSET (AllAssignablePermissions \cup {PermAll}) :
             [uid |-> req[r].uid, perms |-> p] \in Claims
      BY <2>2 DEF Claims
    <3>2. PICK c \in Claims : token' = [token EXCEPT ![s] = c]
      BY <1>4, <2>3, <3>1 DEF IssueTokenPair
    <3> QED
      BY <1>0, <3>2 DEF TypeOK
  <2>5. redis' \in SUBSET ({"session"} \X Sids)
    BY <1>0, <1>4 DEF IssueTokenPair, TypeOK, SessionKey
  <2>6. parent' \in [Sids -> Sids \cup {None}]
    BY <1>0, <1>4, <2>2 DEF IssueTokenPair, TypeOK
  <2>8. faults' \in Nat
    <3>1. faults' = faults \/ faults' = faults + 1
      BY <1>4 DEF IssueTokenPair, Fault
    <3> QED
      BY <1>0, <3>1 DEF TypeOK
  <2>7. req' \in [Reqs -> Request]
    <3>1. \A x \in {"record", "respond"} :
             [[req[r] EXCEPT !.new = s] EXCEPT !.pc = x] \in Request
      BY <2>1 DEF Request
    <3> QED
      BY <1>0, <1>4, <2>1, <3>1 DEF IssueTokenPair, TypeOK, Request
  <2> QED
    BY <1>0, <1>4, <2>4, <2>5, <2>6, <2>7, <2>8 DEF IssueTokenPair, TypeOK
<1>5. ASSUME NEW r \in Reqs,
             \/ IncrementPasswordAttempts(r) \/ LockAccount(r) \/ RecordLogin(r)
      PROVE TypeOK'
  <2>1. req[r] \in Request /\ req[r].uid \in Users
    BY <1>0, <1>5 DEF IncrementPasswordAttempts, LockAccount, RecordLogin, At,
                      TypeOK, Request, LocalsInv
  <2>2. user[req[r].uid] \in Account
    BY <1>0, <2>1 DEF TypeOK
  <2>3. \E a \in Account : user' \in {user, [user EXCEPT ![req[r].uid] = a]}
    <3> DEFINE a == user[req[r].uid]
    <3>1. CASE IncrementPasswordAttempts(r)
      <4>1. [a EXCEPT !.attempts = a.attempts + 1] \in Account
        BY <2>2, AccountType
      <4>2. user' = [user EXCEPT ![req[r].uid] = [a EXCEPT !.attempts = a.attempts + 1]]
        BY <1>0, <2>1, <2>2, <3>1 DEF IncrementPasswordAttempts, TypeOK, Account
      <4> QED
        BY <4>1, <4>2
    <3>2. CASE LockAccount(r)
      <4>1. [a EXCEPT !.lock = "future"] \in Account
        BY <2>2, AccountType
      <4>2. user' \in {user, [user EXCEPT ![req[r].uid] = [a EXCEPT !.lock = "future"]]}
        BY <1>0, <2>1, <2>2, <3>2 DEF LockAccount, TypeOK, Account
      <4> QED
        BY <4>1, <4>2
    <3>3. CASE RecordLogin(r)
      <4>1. [a EXCEPT !.attempts = 0, !.lock = "none"] \in Account
        BY <2>2, AccountType
      <4>2. user' \in {user, [user EXCEPT ![req[r].uid] =
                                  [a EXCEPT !.attempts = 0, !.lock = "none"]]}
        BY <1>0, <2>1, <2>2, <3>3 DEF RecordLogin, TypeOK, Account
      <4> QED
        BY <4>1, <4>2
    <3> QED
      BY <1>5, <3>1, <3>2, <3>3
  <2>4. user' \in [Users -> Account]
    BY <1>0, <2>1, <2>3 DEF TypeOK
  <2>5. req' \in [Reqs -> Request]
    BY <1>0, <1>5, <2>1 DEF IncrementPasswordAttempts, LockAccount, RecordLogin,
                            GoTo, Finish, TypeOK, Request
  <2>6. faults' \in Nat /\ UNCHANGED sessionVars
    BY <1>0, <1>5 DEF IncrementPasswordAttempts, LockAccount, RecordLogin, Fault, TypeOK
  <2> QED
    BY <1>0, <2>4, <2>5, <2>6 DEF TypeOK, sessionVars
<1>6. ASSUME NEW r \in Reqs, Respond(r) PROVE TypeOK'
  <2>1. req[r] \in Request /\ req[r].new # None
    BY <1>0, <1>6 DEF Respond, At, TypeOK, LocalsInv
  <2> QED
    BY <1>0, <1>6, <2>1 DEF Respond, Finish, TypeOK, Request
<1>7. ASSUME NEW r \in Reqs,
             \/ RefreshFind(r) \/ RefreshRevoke(r) \/ Serve(r) \/ Logout(r)
             \/ LogoutAll(r) \/ Abort(r)
      PROVE TypeOK'
  <2>1. req[r] \in Request /\ req[r].uid \in Users
    BY <1>0, <1>7 DEF RefreshFind, RefreshRevoke, Serve, Logout, LogoutAll, Abort, At,
                      TypeOK, Request, LocalsInv
  <2>2. user[req[r].uid].grant \in Grants
    BY <1>0, <2>1 DEF TypeOK, Account
  <2>3. req' \in [Reqs -> Request]
    BY <1>0, <1>7, <2>1, <2>2 DEF RefreshFind, RefreshRevoke, Serve, Logout, LogoutAll,
                      Abort, GoTo, Finish, TypeOK, Request
  <2>4. revoked' \in SUBSET Sids
    BY <1>0, <1>7, <2>1 DEF RefreshFind, RefreshRevoke, Serve, Logout, LogoutAll, Abort,
                      At, RevokeSession, TypeOK, Request, LocalsInv, sessionVars
  <2>5. redis' \in SUBSET ({"session"} \X Sids) /\ faults' \in Nat
    BY <1>0, <1>7 DEF RefreshFind, RefreshRevoke, Serve, Logout, LogoutAll, Abort,
                      RevokeSession, Fault, TypeOK, sessionVars
  <2> QED
    BY <1>0, <1>7, <2>3, <2>4, <2>5 DEF RefreshFind, RefreshRevoke, Serve, Logout,
                      LogoutAll, Abort, TypeOK, sessionVars
<1>8. ASSUME NEW u \in Users,
             \/ BlockUser(u) \/ UnblockUser(u) \/ DeleteUser(u) \/ ResetPassword(u)
             \/ LockExpires(u)
      PROVE TypeOK'
  <2>1. user[u] \in Account
    BY <1>0 DEF TypeOK
  <2>2. \E a \in Account : user' = [user EXCEPT ![u] = a]
    <3>1. CASE BlockUser(u) \/ UnblockUser(u)
      BY <2>1, <3>1, AccountType DEF BlockUser, UnblockUser, UpdateAccount
    <3>2. CASE DeleteUser(u)
      BY <2>1, <3>2, AccountType DEF DeleteUser, UpdateAccount
    <3>3. CASE ResetPassword(u)
      BY <2>1, <3>3, AccountType DEF ResetPassword, UpdateAccount
    <3>4. CASE LockExpires(u)
      <4>1. user' = [user EXCEPT ![u] = [user[u] EXCEPT !.lock = "past"]]
        BY <1>0, <3>4 DEF LockExpires, TypeOK
      <4> QED
        BY <2>1, <4>1, AccountType
    <3> QED
      BY <1>8, <3>1, <3>2, <3>3, <3>4
  <2>3. user' \in [Users -> Account]
    BY <1>0, <2>2 DEF TypeOK
  <2> QED
    BY <1>0, <1>8, <2>3 DEF BlockUser, UnblockUser, DeleteUser, ResetPassword,
                      LockExpires, UpdateAccount, TypeOK, sessionVars
<1>9. ASSUME NEW u \in Users, NEW g \in Grants, UpdateAccess(u, g) PROVE TypeOK'
  <2>1. user' \in [Users -> Account]
    <3>1. [user[u] EXCEPT !.grant = g] \in Account
      BY <1>0, AccountType DEF TypeOK
    <3> QED
      BY <1>0, <1>9, <3>1 DEF UpdateAccess, UpdateAccount, TypeOK
  <2>2. req' \in [Reqs -> Request]
    BY <1>0, <1>9 DEF UpdateAccess, TypeOK, Request
  <2> QED
    BY <1>0, <1>9, <2>1, <2>2 DEF UpdateAccess, TypeOK, sessionVars
<1>10. ASSUME NEW s \in Sids, SessionExpires(s) PROVE TypeOK'
  BY <1>0, <1>10 DEF SessionExpires, TypeOK
<1>11. CASE UNCHANGED vars
  BY <1>0, <1>11 DEF TypeOK, vars
<1> QED
  BY <1>1, <1>2, <1>3, <1>4, <1>5, <1>6, <1>7, <1>8, <1>9, <1>10, <1>11 DEF Next

-----------------------------------------------------------------------------
(* What a step may do to the session store *)

\* Tokens are signed once; a key appears only together with a new token; a
\* session newly revoked was minted and has no key; whatever a client now holds
\* was minted.
LEMMA SessionStep ==
    ASSUME Inv, [Next]_vars, NEW s \in Sids
    PROVE  /\ token[s] # None => token'[s] = token[s]
           /\ SessionExists(s)' /\ ~SessionExists(s) => token[s] = None /\ token'[s] # None
           /\ s \in revoked' /\ s \notin revoked => ~SessionExists(s)' /\ token[s] # None
           /\ s \in held' => s \in held \/ token[s] # None
<1> USE AuthAssumption
<1>0. TypeOK /\ MintedInv /\ LocalsInv
  BY DEF Inv
<1>1. CASE UNCHANGED <<redis, token, held, revoked>>
  BY <1>1 DEF SessionExists
<1>2. ASSUME NEW r \in Reqs, NEW n \in Sids, IssueTokenPair(r, n)
      PROVE /\ token[s] # None => token'[s] = token[s]
            /\ SessionExists(s)' /\ ~SessionExists(s) => token[s] = None /\ token'[s] # None
            /\ UNCHANGED <<held, revoked>>
  <2>1. token[n] = None
    BY <1>2 DEF IssueTokenPair, FreshSid
  <2>2. req[r].uid \in Users
    BY <1>0, <1>2 DEF IssueTokenPair, At, TypeOK, Request, LocalsInv
  <2>3. \E p \in {ClaimedPermissions(r, TRUE), ClaimedPermissions(r, FALSE)} :
           token' = [token EXCEPT ![n] = [uid |-> req[r].uid, perms |-> p]]
    BY <1>2 DEF IssueTokenPair
  <2>4. token'[n] # None
    <3>0. req[r] \in Request
      BY <1>0 DEF TypeOK
    <3>1. req[r].grant \in Grants
      BY <3>0 DEF Request
    <3>2. /\ ClaimedPermissions(r, TRUE) \in SUBSET (AllAssignablePermissions \cup {PermAll})
          /\ ClaimedPermissions(r, FALSE) \in SUBSET (AllAssignablePermissions \cup {PermAll})
      BY <3>1, EffectiveType DEF ClaimedPermissions
    <3>3. \E c \in Claims : token' = [token EXCEPT ![n] = c]
      BY <2>2, <2>3, <3>2 DEF Claims
    <3>4. token'[n] \in Claims
      BY <1>0, <3>3 DEF TypeOK
    <3> QED
      BY <3>4
  <2>5. s # n => token'[s] = token[s] /\ (SessionExists(s)' <=> SessionExists(s))
    BY <1>0, <1>2, <2>3 DEF IssueTokenPair, TypeOK, SessionExists, SessionKey
  <2> QED
    BY <1>2, <2>1, <2>4, <2>5 DEF IssueTokenPair
<1>3. ASSUME NEW r \in Reqs, Respond(r)
      PROVE /\ UNCHANGED <<redis, token, revoked>>
            /\ s \in held' => s \in held \/ token[s] # None
  BY <1>0, <1>3 DEF Respond, At, MintedInv, LocalsInv, TypeOK, Request
<1>4. ASSUME NEW r \in Reqs, RefreshRevoke(r) \/ Logout(r)
      PROVE /\ UNCHANGED <<token, held>>
            /\ redis' \subseteq redis
            /\ s \in revoked' /\ s \notin revoked => ~SessionExists(s)' /\ token[s] # None
  BY <1>0, <1>4 DEF RefreshRevoke, Logout, At, RevokeSession, SessionExists, LocalsInv
<1>5. ASSUME NEW r \in Reqs, LogoutAll(r)
      PROVE redis' \subseteq redis /\ UNCHANGED <<token, held, revoked>>
  BY <1>5 DEF LogoutAll
<1>6. ASSUME NEW n \in Sids, SessionExpires(n)
      PROVE redis' \subseteq redis /\ UNCHANGED <<token, held, revoked>>
  BY <1>6 DEF SessionExpires
<1>7. redis' \subseteq redis => (SessionExists(s)' => SessionExists(s))
  BY DEF SessionExists, SessionKey
<1>8. \/ UNCHANGED <<redis, token, held, revoked>>
      \/ \E r \in Reqs : \/ \E n \in Sids : IssueTokenPair(r, n)
                         \/ Respond(r) \/ RefreshRevoke(r) \/ Logout(r) \/ LogoutAll(r)
      \/ \E n \in Sids : SessionExpires(n)
  BY DEF Next, vars, sessionVars, Register, LoginFind, SocialLogin, RefreshCheck,
         AccessCheck, IncrementPasswordAttempts, LockAccount, RecordLogin,
         RefreshFind, Serve, Abort, BlockUser, UnblockUser, DeleteUser,
         ResetPassword, LockExpires, UpdateAccess
<1> QED
  BY <1>1, <1>2, <1>3, <1>4, <1>5, <1>6, <1>7, <1>8 DEF SessionExists

-----------------------------------------------------------------------------
(* What a step may do to one request and one account *)

\* A step leaves a request alone, ends it, starts it on what is stored now,
\* moves it to its next label, or adds a grant to what it has seen.
LEMMA RequestStep ==
    ASSUME Inv, [Next]_vars, NEW q \in Reqs
    PROVE  \/ req'[q] \in {req[q], Idle}
           \/ \E u \in Users, label \in {"issue", "count"} :
                 /\ ~user[u].deleted /\ user'[u].status # "absent"
                 /\ req'[q] = Started(label, u, None)
           \/ \E s \in Sids, label \in {"find", "serve", "logout", "logoutAll"} :
                 token[s] # None /\ req'[q] = Started(label, token[s].uid, s)
           \/ \E s \in Sids : IssueTokenPair(q, s)
           \/ At(q, "count") /\ req'[q] = [req[q] EXCEPT !.pc = "lock"]
           \/ At(q, "record") /\ req'[q] = [req[q] EXCEPT !.pc = "respond"]
           \/ At(q, "revoke") /\ req'[q] = [req[q] EXCEPT !.pc = "issue"]
           \/ RefreshFind(q)
           \/ \E g \in Grants : req'[q] = [req[q] EXCEPT !.seen = @ \cup {g}]
<1>0. req \in [Reqs -> Request] /\ MintedInv /\ OrphanInv
  BY DEF Inv, TypeOK
<1>1. ASSUME NEW r \in Reqs, NEW u \in Users,
             Register(r, u) \/ LoginFind(r, u) \/ SocialLogin(r, u)
      PROVE  \/ req'[q] = req[q]
             \/ \E label \in {"issue", "count"} :
                   /\ ~user[u].deleted /\ user'[u].status # "absent"
                   /\ req'[q] = Started(label, u, None)
  <2>1. user \in [Users -> Account] /\ ~user[u].deleted
    BY <1>1 DEF Inv, TypeOK, OrphanInv, Register, LoginFind, SocialLogin, Found
  <2>2. user'[u].status # "absent"
    BY <1>1, <2>1 DEF Register, LoginFind, SocialLogin, Found, Account
  <2> QED
    BY <1>0, <1>1, <2>1, <2>2 DEF Register, LoginFind, SocialLogin
<1>2. ASSUME NEW r \in Reqs, NEW s \in Sids, RefreshCheck(r, s) \/ AccessCheck(r, s)
      PROVE  \/ req'[q] = req[q]
             \/ \E label \in {"find", "serve", "logout", "logoutAll"} :
                   token[s] # None /\ req'[q] = Started(label, token[s].uid, s)
  BY <1>0, <1>2 DEF RefreshCheck, AccessCheck, MintedInv
<1>3. ASSUME NEW r \in Reqs, NEW s \in Sids, IssueTokenPair(r, s), r # q
      PROVE  req'[q] = req[q]
  BY <1>0, <1>3 DEF IssueTokenPair
<1>4. ASSUME NEW r \in Reqs, IncrementPasswordAttempts(r)
      PROVE  \/ req'[q] \in {req[q], Idle}
             \/ At(q, "count") /\ req'[q] = [req[q] EXCEPT !.pc = "lock"]
  BY <1>0, <1>4 DEF IncrementPasswordAttempts, At, GoTo, Finish
<1>5. ASSUME NEW r \in Reqs, RecordLogin(r)
      PROVE  \/ req'[q] = req[q]
             \/ At(q, "record") /\ req'[q] = [req[q] EXCEPT !.pc = "respond"]
  BY <1>0, <1>5 DEF RecordLogin, At, GoTo
<1>6. ASSUME NEW r \in Reqs, RefreshRevoke(r)
      PROVE  \/ req'[q] = req[q]
             \/ At(q, "revoke") /\ req'[q] = [req[q] EXCEPT !.pc = "issue"]
  BY <1>0, <1>6 DEF RefreshRevoke, At, GoTo
<1>7. ASSUME NEW r \in Reqs, RefreshFind(r), r # q
      PROVE  req'[q] = req[q]
  BY <1>0, <1>7 DEF RefreshFind, Finish
<1>8. ASSUME NEW r \in Reqs,
             \/ LockAccount(r) \/ Respond(r) \/ Serve(r) \/ Logout(r)
             \/ LogoutAll(r) \/ Abort(r)
      PROVE  req'[q] \in {req[q], Idle}
  BY <1>0, <1>8 DEF LockAccount, Respond, Serve, Logout, LogoutAll, Abort, Finish
<1>9. ASSUME NEW u \in Users, NEW g \in Grants, UpdateAccess(u, g)
      PROVE  req'[q] = req[q] \/ req'[q] = [req[q] EXCEPT !.seen = @ \cup {g}]
  BY <1>0, <1>9 DEF UpdateAccess
<1>10. ASSUME NEW u \in Users,
              \/ BlockUser(u) \/ UnblockUser(u) \/ DeleteUser(u) \/ ResetPassword(u)
              \/ LockExpires(u)
       PROVE  req' = req
  BY <1>10 DEF BlockUser, UnblockUser, DeleteUser, ResetPassword, LockExpires
<1>11. ASSUME NEW s \in Sids, SessionExpires(s) PROVE req' = req
  BY <1>11 DEF SessionExpires
<1>12. CASE UNCHANGED vars
  BY <1>12 DEF vars
<1> QED
  BY <1>1, <1>2, <1>3, <1>4, <1>5, <1>6, <1>7, <1>8, <1>9, <1>10, <1>11, <1>12 DEF Next

\* Registration and deletion are for good, and an account that was never
\* registered is not deleted.
LEMMA AccountStep ==
    ASSUME Inv, [Next]_vars, NEW w \in Users
    PROVE  /\ user[w].deleted => user'[w].deleted
           /\ user'[w].status = "absent" => ~user'[w].deleted
           /\ user'[w].status = "absent" => user[w].status = "absent"
<1>0. user \in [Users -> Account] /\ (user[w].status = "absent" => ~user[w].deleted)
  BY DEF Inv, TypeOK, OrphanInv
<1>1. \A u \in Users : user[u] \in Account
  BY <1>0
<1>2. CASE user' = user
  BY <1>0, <1>2
<1>3. ASSUME NEW u \in Users, NEW r \in Reqs, Register(r, u)
      PROVE  /\ user'[w].deleted = user[w].deleted
             /\ user'[w].status = "absent" => user[w].status = "absent"
  BY <1>0, <1>1, <1>3 DEF Register, Account
<1>4. ASSUME NEW r \in Reqs,
             IncrementPasswordAttempts(r) \/ LockAccount(r) \/ RecordLogin(r)
      PROVE  /\ user'[w].deleted = user[w].deleted
             /\ user'[w].status = user[w].status
  <2>1. CASE IncrementPasswordAttempts(r)
    BY <1>0, <1>1, <2>1 DEF IncrementPasswordAttempts, Account
  <2>2. CASE LockAccount(r)
    BY <1>0, <1>1, <2>2 DEF LockAccount, Account
  <2>3. CASE RecordLogin(r)
    BY <1>0, <1>1, <2>3 DEF RecordLogin, Account
  <2> QED
    BY <1>4, <2>1, <2>2, <2>3
<1>5. ASSUME NEW u \in Users,
             \/ BlockUser(u) \/ UnblockUser(u) \/ DeleteUser(u) \/ ResetPassword(u)
             \/ \E g \in Grants : UpdateAccess(u, g)
      PROVE  /\ user[w].deleted => user'[w].deleted
             /\ user'[w].status = "absent" => user[w].status = "absent"
             /\ user'[w].deleted => user[w].deleted \/ user'[w].status # "absent"
  <2>1. Found(u)
    BY <1>5 DEF BlockUser, UnblockUser, DeleteUser, ResetPassword, UpdateAccess,
                UpdateAccount
  <2>2. CASE BlockUser(u) \/ UnblockUser(u)
    BY <1>0, <1>1, <2>1, <2>2 DEF BlockUser, UnblockUser, UpdateAccount, Found, Account
  <2>3. CASE DeleteUser(u)
    BY <1>0, <1>1, <2>1, <2>3 DEF DeleteUser, UpdateAccount, Found, Account
  <2>4. CASE ResetPassword(u)
    BY <1>0, <1>1, <2>1, <2>4 DEF ResetPassword, UpdateAccount, Found, Account
  <2>5. ASSUME NEW g \in Grants, UpdateAccess(u, g)
        PROVE  user'[w].deleted = user[w].deleted /\ user'[w].status = user[w].status
    BY <1>0, <1>1, <2>1, <2>5 DEF UpdateAccess, UpdateAccount, Found, Account
  <2> QED
    BY <1>5, <2>2, <2>3, <2>4, <2>5
<1>6. ASSUME NEW u \in Users, LockExpires(u)
      PROVE  user'[w].deleted = user[w].deleted /\ user'[w].status = user[w].status
  BY <1>0, <1>1, <1>6 DEF LockExpires, Account
<1>7. \/ user' = user
      \/ \E r \in Reqs, u \in Users : Register(r, u)
      \/ \E r \in Reqs :
            IncrementPasswordAttempts(r) \/ LockAccount(r) \/ RecordLogin(r)
      \/ \E u \in Users :
            \/ BlockUser(u) \/ UnblockUser(u) \/ DeleteUser(u) \/ ResetPassword(u)
            \/ LockExpires(u)
            \/ \E g \in Grants : UpdateAccess(u, g)
  BY DEF Next, vars, LoginFind, SocialLogin, RefreshCheck, AccessCheck, IssueTokenPair,
         Respond, RefreshFind, RefreshRevoke, Serve, Logout, LogoutAll, Abort,
         SessionExpires
<1> QED
  BY <1>0, <1>2, <1>3, <1>4, <1>5, <1>6, <1>7

\* Only an administrator's update changes a grant, and every request running
\* for that user sees it.
LEMMA GrantStep ==
    ASSUME Inv, [Next]_vars
    PROVE  \/ \A w \in Users : user'[w].grant = user[w].grant
           \/ \E u \in Users, g \in Grants : UpdateAccess(u, g)
<1>0. user \in [Users -> Account]
  BY DEF Inv, TypeOK
<1>1. \A u \in Users : user[u] \in Account
  BY <1>0
<1>2. ASSUME NEW r \in Reqs, NEW u \in Users, Register(r, u), NEW w \in Users
      PROVE  user'[w].grant = user[w].grant
  BY <1>0, <1>1, <1>2 DEF Register, Account
<1>3. ASSUME NEW r \in Reqs, NEW w \in Users,
             IncrementPasswordAttempts(r) \/ LockAccount(r) \/ RecordLogin(r)
      PROVE  user'[w].grant = user[w].grant
  <2>1. CASE IncrementPasswordAttempts(r)
    BY <1>0, <1>1, <2>1 DEF IncrementPasswordAttempts, Account
  <2>2. CASE LockAccount(r)
    BY <1>0, <1>1, <2>2 DEF LockAccount, Account
  <2>3. CASE RecordLogin(r)
    BY <1>0, <1>1, <2>3 DEF RecordLogin, Account
  <2> QED
    BY <1>3, <2>1, <2>2, <2>3
<1>4. ASSUME NEW u \in Users, NEW w \in Users,
             \/ BlockUser(u) \/ UnblockUser(u) \/ DeleteUser(u) \/ ResetPassword(u)
      PROVE  user'[w].grant = user[w].grant
  <2>1. CASE BlockUser(u) \/ UnblockUser(u)
    BY <1>0, <1>1, <2>1 DEF BlockUser, UnblockUser, UpdateAccount, Account
  <2>2. CASE DeleteUser(u)
    BY <1>0, <1>1, <2>2 DEF DeleteUser, UpdateAccount, Account
  <2>3. CASE ResetPassword(u)
    BY <1>0, <1>1, <2>3 DEF ResetPassword, UpdateAccount, Account
  <2> QED
    BY <1>4, <2>1, <2>2, <2>3
<1>5. ASSUME NEW u \in Users, NEW w \in Users, LockExpires(u)
      PROVE  user'[w].grant = user[w].grant
  BY <1>0, <1>1, <1>5 DEF LockExpires, Account
<1>6. \/ user' = user
      \/ \E r \in Reqs, u \in Users : Register(r, u)
      \/ \E r \in Reqs :
            IncrementPasswordAttempts(r) \/ LockAccount(r) \/ RecordLogin(r)
      \/ \E u \in Users :
            \/ BlockUser(u) \/ UnblockUser(u) \/ DeleteUser(u) \/ ResetPassword(u)
            \/ LockExpires(u)
            \/ \E g \in Grants : UpdateAccess(u, g)
  BY DEF Next, vars, LoginFind, SocialLogin, RefreshCheck, AccessCheck, IssueTokenPair,
         Respond, RefreshFind, RefreshRevoke, Serve, Logout, LogoutAll, Abort,
         SessionExpires
<1> QED
  BY <1>2, <1>3, <1>4, <1>5, <1>6

-----------------------------------------------------------------------------
(* The inductive invariant *)

\* With no session minted and no request running the invariant is vacuous.
LEMMA InitInv == Init => Inv
<1> SUFFICES ASSUME Init PROVE Inv
  OBVIOUS
<1>1. TypeOK
  BY InitType
<1>2. MintedInv
  BY DEF Init, MintedInv, SessionExists, Idle
<1>3. LocalsInv
  BY DEF Init, LocalsInv, Idle
<1>4. OrphanInv
  BY DEF Init, OrphanInv, Idle
<1>5. RevokedStaysRevoked
  BY DEF Init, RevokedStaysRevoked
<1>6. ClaimsWithinGrant
  BY DEF Init, ClaimsWithinGrant, Idle
<1>7. SeenInv
  BY DEF Init, SeenInv, Idle
<1> QED
  BY <1>1, <1>2, <1>3, <1>4, <1>5, <1>6, <1>7 DEF Inv

\* Nothing names a session that was not minted.
LEMMA NextMinted == Inv /\ [Next]_vars => MintedInv'
<1> SUFFICES ASSUME Inv, [Next]_vars PROVE MintedInv'
  OBVIOUS
<1>0. TypeOK /\ MintedInv /\ LocalsInv
  BY DEF Inv
<1>1. \A s \in Sids : SessionExists(s)' => token'[s] # None
  BY <1>0, SessionStep DEF MintedInv
<1>2. \A s \in held' \cup revoked' : token'[s] # None
  <2>1. held' \subseteq Sids /\ revoked' \subseteq Sids
    BY NextType DEF TypeOK
  <2> QED
    BY <1>0, <2>1, SessionStep DEF MintedInv
<1>3. ASSUME NEW q \in Reqs, req'[q].new # None PROVE token'[req'[q].new] # None
  <2>1. req[q] \in Request
    BY <1>0 DEF TypeOK
  <2>2. \A s \in Sids : token[s] # None => token'[s] # None
    BY SessionStep
  <2>3. CASE req'[q].new = req[q].new
    BY <1>0, <1>3, <2>1, <2>2, <2>3 DEF MintedInv, Request
  <2>4. ASSUME NEW s \in Sids, IssueTokenPair(q, s)
        PROVE  token'[req'[q].new] # None
    <3>1. req'[q].new = s
      BY <1>0, <2>1, <2>4 DEF IssueTokenPair, TypeOK, Request
    <3>2. SessionExists(s)'
      BY <2>4 DEF IssueTokenPair, SessionExists
    <3> QED
      BY <1>1, <3>1, <3>2
  <2>5. req'[q].new \in {req[q].new, None} \/ \E s \in Sids : IssueTokenPair(q, s)
    <3>1. CASE req'[q] \in {req[q], Idle}
      BY <3>1 DEF Idle
    <3>2. CASE \/ \E u \in Users, label \in {"issue", "count"} :
                     req'[q] = Started(label, u, None)
               \/ \E s \in Sids, label \in {"find", "serve", "logout", "logoutAll"} :
                     req'[q] = Started(label, token[s].uid, s)
      BY <3>2 DEF Started, Idle
    <3>3. CASE \E x \in {"lock", "respond", "issue"} : req'[q] = [req[q] EXCEPT !.pc = x]
      BY <2>1, <3>3 DEF Request
    <3>4. CASE RefreshFind(q)
      BY <1>0, <2>1, <3>4 DEF RefreshFind, Finish, Idle, TypeOK, Request
    <3>5. CASE \E g \in Grants : req'[q] = [req[q] EXCEPT !.seen = @ \cup {g}]
      BY <2>1, <3>5 DEF Request
    <3> QED
      BY <3>1, <3>2, <3>3, <3>4, <3>5, RequestStep
  <2> QED
    BY <1>3, <2>3, <2>4, <2>5
<1> QED
  BY <1>1, <1>2, <1>3 DEF MintedInv

\* A session some DEL has removed cannot come back: a key only appears under an
\* identifier with no token, and a revoked session has one.
LEMMA NextRevoked == Inv /\ [Next]_vars => RevokedStaysRevoked'
<1> SUFFICES ASSUME Inv, [Next]_vars, NEW s \in revoked' PROVE ~SessionExists(s)'
  BY DEF RevokedStaysRevoked
<1>0. MintedInv /\ RevokedStaysRevoked
  BY DEF Inv
<1>1. s \in Sids
  BY NextType DEF TypeOK
<1>2. CASE s \in revoked
  <2>1. token[s] # None /\ ~SessionExists(s)
    BY <1>0, <1>2 DEF MintedInv, RevokedStaysRevoked
  <2> QED
    BY <1>1, <2>1, SessionStep
<1>3. CASE s \notin revoked
  BY <1>1, <1>3, SessionStep
<1> QED
  BY <1>2, <1>3

\* The locals keep their meaning from label to label.
LEMMA NextLocals == Inv /\ [Next]_vars => LocalsInv'
<1> DEFINE
      Begun(x) == x.pc # "idle" => x.uid # None /\ x.grant \in x.seen
      Presents(x, tok) ==
          x.pc \in {"find", "revoke", "serve", "logout", "logoutAll"}
              => x.sid # None /\ tok[x.sid] # None
      Mints(x) == x.pc \in {"record", "respond"} <=> x.new # None
      Good(x, tok) == Begun(x) /\ Presents(x, tok) /\ Mints(x)
<1> SUFFICES ASSUME Inv, [Next]_vars, NEW q \in Reqs PROVE Good(req'[q], token')
  BY DEF LocalsInv
<1> USE AuthAssumption
<1>0. TypeOK /\ req[q] \in Request /\ req' \in [Reqs -> Request]
  BY NextType DEF Inv, TypeOK
<1>1. Good(req[q], token)
  BY DEF Inv, LocalsInv
<1>2. \A s \in Sids : token[s] # None => token'[s] # None
  BY SessionStep
<1>3. CASE req'[q] = req[q]
  BY <1>0, <1>1, <1>2, <1>3 DEF Request
<1>4. CASE req'[q] = Idle
  BY <1>4 DEF Idle
<1>5. ASSUME NEW u \in Users, NEW label \in {"issue", "count"},
             req'[q] = Started(label, u, None)
      PROVE  Good(req'[q], token')
  BY <1>0, <1>5, StartedType
<1>6. ASSUME NEW s \in Sids, NEW label \in {"find", "serve", "logout", "logoutAll"},
             token[s] # None, req'[q] = Started(label, token[s].uid, s)
      PROVE  Good(req'[q], token')
  <2>1. token[s].uid \in Users
    BY <1>0, <1>6 DEF TypeOK, Claims
  <2> QED
    BY <1>0, <1>2, <1>6, <2>1, StartedType
<1>7. ASSUME NEW s \in Sids, IssueTokenPair(q, s) PROVE Good(req'[q], token')
  <2>1. req'[q] = [req[q] EXCEPT !.new = s,
                      !.pc = IF req[q].sid = None THEN "record" ELSE "respond"]
    BY <1>0, <1>7 DEF IssueTokenPair, TypeOK, Request
  <2>2. req[q].pc = "issue"
    BY <1>7 DEF IssueTokenPair, At
  <2> QED
    BY <1>0, <1>1, <2>1, <2>2 DEF Request
<1>8. CASE \/ At(q, "count") /\ req'[q] = [req[q] EXCEPT !.pc = "lock"]
           \/ At(q, "record") /\ req'[q] = [req[q] EXCEPT !.pc = "respond"]
           \/ At(q, "revoke") /\ req'[q] = [req[q] EXCEPT !.pc = "issue"]
  BY <1>0, <1>1, <1>8 DEF At, Request
<1>9. CASE RefreshFind(q)
  <2>1. req[q].pc = "find" /\ req[q].uid \in Users
    BY <1>0, <1>1, <1>9 DEF RefreshFind, At, Request
  <2>2. user[req[q].uid].grant \in req[q].seen
    BY <2>1 DEF Inv, SeenInv
  <2>3. CASE Found(req[q].uid)
    <3>1. req'[q] = [req[q] EXCEPT !.pc = "revoke", !.grant = user[req[q].uid].grant]
      BY <1>0, <1>9, <2>3 DEF RefreshFind, TypeOK, Request
    <3> QED
      BY <1>0, <1>1, <1>2, <2>1, <2>2, <3>1 DEF Request
  <2>4. CASE ~Found(req[q].uid)
    BY <1>0, <1>4, <1>9, <2>4 DEF RefreshFind, Finish, TypeOK
  <2> QED
    BY <2>3, <2>4
<1>10. ASSUME NEW g \in Grants, req'[q] = [req[q] EXCEPT !.seen = @ \cup {g}]
       PROVE  Good(req'[q], token')
  BY <1>0, <1>1, <1>2, <1>10 DEF Request
<1> QED
  BY <1>3, <1>4, <1>5, <1>6, <1>7, <1>8, <1>9, <1>10, RequestStep

\* Today's grant is always among those a running request has seen.
LEMMA NextSeen == Inv /\ [Next]_vars => SeenInv'
<1> DEFINE Sees(x, doc) == x.pc # "idle" => doc[x.uid].grant \in x.seen
<1> SUFFICES ASSUME Inv, [Next]_vars, NEW q \in Reqs PROVE Sees(req'[q], user')
  BY DEF SeenInv
<1> USE AuthAssumption
<1>0. TypeOK /\ req[q] \in Request
  BY DEF Inv, TypeOK
<1>1. Sees(req[q], user) /\ (req[q].pc # "idle" => req[q].uid \in Users)
  BY <1>0 DEF Inv, SeenInv, LocalsInv, Request
<1>2. ASSUME NEW u \in Users, NEW g \in Grants, UpdateAccess(u, g)
      PROVE  Sees(req'[q], user')
  <2>1. user'[u].grant = g /\ \A w \in Users : w # u => user'[w] = user[w]
    BY <1>0, <1>2 DEF UpdateAccess, UpdateAccount, TypeOK, Account
  <2>2. req'[q] = IF req[q].uid = u THEN [req[q] EXCEPT !.seen = @ \cup {g}] ELSE req[q]
    BY <1>2 DEF UpdateAccess
  <2>3. CASE req[q].uid = u
    BY <1>0, <2>1, <2>2, <2>3 DEF Request
  <2>4. CASE req[q].uid # u
    BY <1>0, <1>1, <2>1, <2>2, <2>4 DEF Request
  <2> QED
    BY <2>3, <2>4
<1>3. CASE \A w \in Users : user'[w].grant = user[w].grant
  <2>1. CASE req'[q] \in {req[q], Idle}
    BY <1>1, <1>3, <2>1 DEF Idle
  <2>2. ASSUME NEW u \in Users, NEW label, NEW s, req'[q] = Started(label, u, s)
        PROVE  Sees(req'[q], user')
    BY <1>3, <2>2 DEF Started, Idle
  <2>3. ASSUME req'[q].uid = req[q].uid, req[q].seen \subseteq req'[q].seen,
               req[q].pc # "idle" \/ req'[q].pc = req[q].pc
        PROVE  Sees(req'[q], user')
    BY <1>1, <1>3, <2>3
  <2>4. ASSUME NEW s \in Sids, IssueTokenPair(q, s) PROVE Sees(req'[q], user')
    <3>1. /\ req'[q].uid = req[q].uid /\ req'[q].seen = req[q].seen
          /\ req[q].pc # "idle"
      BY <1>0, <2>4 DEF IssueTokenPair, At, TypeOK, Request
    <3> QED
      BY <2>3, <3>1
  <2>5. CASE \/ At(q, "count") /\ req'[q] = [req[q] EXCEPT !.pc = "lock"]
             \/ At(q, "record") /\ req'[q] = [req[q] EXCEPT !.pc = "respond"]
             \/ At(q, "revoke") /\ req'[q] = [req[q] EXCEPT !.pc = "issue"]
    BY <1>0, <2>3, <2>5 DEF At, Request
  <2>6. CASE RefreshFind(q)
    <3>1. CASE Found(req[q].uid)
      BY <1>0, <2>3, <2>6, <3>1 DEF RefreshFind, At, TypeOK, Request
    <3>2. CASE ~Found(req[q].uid)
      BY <1>0, <2>1, <2>6, <3>2 DEF RefreshFind, Finish, TypeOK
    <3> QED
      BY <3>1, <3>2
  <2>7. ASSUME NEW g \in Grants, req'[q] = [req[q] EXCEPT !.seen = @ \cup {g}]
        PROVE  Sees(req'[q], user')
    BY <1>0, <2>3, <2>7 DEF Request
  <2>8. \A s \in Sids : token[s] # None => token[s].uid \in Users
    BY <1>0 DEF TypeOK, Claims
  <2> QED
    BY <2>1, <2>2, <2>4, <2>5, <2>6, <2>7, <2>8, RequestStep
<1> QED
  BY <1>2, <1>3, GrantStep

\* A request that began after the deletion stays short of the token pair.
LEMMA NextOrphan == Inv /\ [Next]_vars => OrphanInv'
<1> DEFINE Stuck(x, doc) ==
        x.orphan => /\ doc[x.uid].deleted
                    /\ x.pc \in {"find", "serve", "logout", "logoutAll"}
<1> SUFFICES ASSUME Inv, [Next]_vars, NEW q \in Reqs PROVE Stuck(req'[q], user')
  BY AccountStep DEF OrphanInv
<1> USE AuthAssumption
<1>0. TypeOK /\ req[q] \in Request
  BY DEF Inv, TypeOK
<1>1. Stuck(req[q], user) /\ (req[q].orphan => req[q].uid \in Users)
  BY <1>0 DEF Inv, OrphanInv, LocalsInv, Request
<1>2. \A w \in Users : user[w].deleted => user'[w].deleted
  BY AccountStep
<1>3. CASE req'[q] = req[q]
  BY <1>1, <1>2, <1>3
<1>4. CASE req'[q] = Idle
  BY <1>4 DEF Idle
<1>5. ASSUME NEW u \in Users, NEW label, ~user[u].deleted,
             req'[q] = Started(label, u, None)
      PROVE  Stuck(req'[q], user')
  BY <1>5 DEF Started, Idle
<1>6. ASSUME NEW s \in Sids, NEW label \in {"find", "serve", "logout", "logoutAll"},
             token[s] # None, req'[q] = Started(label, token[s].uid, s)
      PROVE  Stuck(req'[q], user')
  <2>1. token[s].uid \in Users
    BY <1>0, <1>6 DEF TypeOK, Claims
  <2> QED
    BY <1>2, <1>6, <2>1 DEF Started, Idle
<1>7. ASSUME NEW s \in Sids, IssueTokenPair(q, s) PROVE Stuck(req'[q], user')
  <2>1. req'[q].orphan = req[q].orphan /\ req[q].pc = "issue"
    BY <1>0, <1>7 DEF IssueTokenPair, At, TypeOK, Request
  <2> QED
    BY <1>1, <2>1
<1>8. CASE \/ At(q, "count") /\ req'[q] = [req[q] EXCEPT !.pc = "lock"]
           \/ At(q, "record") /\ req'[q] = [req[q] EXCEPT !.pc = "respond"]
           \/ At(q, "revoke") /\ req'[q] = [req[q] EXCEPT !.pc = "issue"]
  BY <1>0, <1>1, <1>8 DEF At, Request
<1>9. CASE RefreshFind(q)
  <2>1. CASE Found(req[q].uid)
    BY <1>0, <1>1, <1>9, <2>1 DEF RefreshFind, Found, TypeOK, Request
  <2>2. CASE ~Found(req[q].uid)
    BY <1>0, <1>4, <1>9, <2>2 DEF RefreshFind, Finish, TypeOK
  <2> QED
    BY <2>1, <2>2
<1>10. ASSUME NEW g \in Grants, req'[q] = [req[q] EXCEPT !.seen = @ \cup {g}]
       PROVE  Stuck(req'[q], user')
  BY <1>0, <1>1, <1>2, <1>10 DEF Request
<1> QED
  BY <1>3, <1>4, <1>5, <1>6, <1>7, <1>8, <1>9, <1>10, RequestStep

\* The permissions signed into a token come from the grant its request read,
\* one of those it has seen.
LEMMA NextClaims == Inv /\ [Next]_vars => ClaimsWithinGrant'
<1> DEFINE Within(x, tok) ==
        x.new # None => \E g \in x.seen : tok[x.new].perms \subseteq GrantedBy(g)
<1> SUFFICES ASSUME Inv, [Next]_vars, NEW q \in Reqs PROVE Within(req'[q], token')
  BY DEF ClaimsWithinGrant
<1> USE AuthAssumption
<1>0. TypeOK /\ req[q] \in Request
  BY DEF Inv, TypeOK
<1>1. Within(req[q], token) /\ (req[q].new # None => token[req[q].new] # None)
  BY DEF Inv, ClaimsWithinGrant, MintedInv
<1>2. ASSUME req'[q].new = req[q].new, req[q].seen \subseteq req'[q].seen
      PROVE  Within(req'[q], token')
  <2>1. req[q].new # None => token'[req[q].new] = token[req[q].new]
    BY <1>0, <1>1, SessionStep DEF Request
  <2> QED
    BY <1>1, <1>2, <2>1
<1>3. CASE req'[q] \in {req[q], Idle}
  BY <1>2, <1>3 DEF Idle
<1>4. ASSUME NEW u, NEW label, NEW s, req'[q] = Started(label, u, s)
      PROVE  Within(req'[q], token')
  BY <1>4 DEF Started, Idle
<1>5. ASSUME NEW s \in Sids, IssueTokenPair(q, s) PROVE Within(req'[q], token')
  <2>1. req'[q].new = s /\ req'[q].seen = req[q].seen
    BY <1>0, <1>5 DEF IssueTokenPair, TypeOK, Request
  <2>2. req[q].grant \in req[q].seen
    BY <1>5 DEF Inv, LocalsInv, IssueTokenPair, At
  <2>3. token'[s].perms \in {ClaimedPermissions(q, TRUE), ClaimedPermissions(q, FALSE)}
    <3>1. PICK p \in {ClaimedPermissions(q, TRUE), ClaimedPermissions(q, FALSE)} :
             token' = [token EXCEPT ![s] = [uid |-> req[q].uid, perms |-> p]]
      BY <1>5 DEF IssueTokenPair
    <3> QED
      BY <1>0, <3>1 DEF TypeOK
  <2>4. req[q].grant \in Grant
    <3>1. req[q].grant \in Grants
      BY <1>0 DEF Request
    <3> QED
      BY <3>1
  <2>5. /\ ClaimedPermissions(q, TRUE) = GrantedBy(req[q].grant)
        /\ ClaimedPermissions(q, FALSE) \subseteq GrantedBy(req[q].grant)
    BY <2>4, EffectiveMonotone DEF ClaimedPermissions, GrantedBy
  <2> QED
    BY <2>1, <2>2, <2>3, <2>5
<1>6. CASE \/ At(q, "count") /\ req'[q] = [req[q] EXCEPT !.pc = "lock"]
           \/ At(q, "record") /\ req'[q] = [req[q] EXCEPT !.pc = "respond"]
           \/ At(q, "revoke") /\ req'[q] = [req[q] EXCEPT !.pc = "issue"]
  BY <1>0, <1>2, <1>6 DEF Request
<1>7. CASE RefreshFind(q)
  <2>1. CASE Found(req[q].uid)
    BY <1>0, <1>2, <1>7, <2>1 DEF RefreshFind, TypeOK, Request
  <2>2. CASE ~Found(req[q].uid)
    BY <1>0, <1>3, <1>7, <2>2 DEF RefreshFind, Finish, TypeOK
  <2> QED
    BY <2>1, <2>2
<1>8. ASSUME NEW g \in Grants, req'[q] = [req[q] EXCEPT !.seen = @ \cup {g}]
      PROVE  Within(req'[q], token')
  BY <1>0, <1>2, <1>8 DEF Request
<1> QED
  BY <1>3, <1>4, <1>5, <1>6, <1>7, <1>8, RequestStep

-----------------------------------------------------------------------------
(* Theorems *)

\* The strengthened invariant holds in every reachable state.
THEOREM Invariant == Spec => []Inv
<1>1. Inv /\ [Next]_vars => Inv'
  BY NextType, NextMinted, NextLocals, NextSeen, NextOrphan, NextRevoked, NextClaims
     DEF Inv
<1> QED
  BY <1>1, InitInv, PTL DEF Spec

\* The model is well typed.
THEOREM TypeCorrect == Spec => []TypeOK
<1>1. Inv => TypeOK
  BY DEF Inv
<1> QED
  BY <1>1, Invariant, PTL

\* Logout and rotation are final, for any number of concurrent refreshes and
\* failures.
THEOREM RevocationIsFinal == Spec => []RevokedStaysRevoked
<1>1. Inv => RevokedStaysRevoked
  BY DEF Inv
<1> QED
  BY <1>1, Invariant, PTL

\* No token carries more than a grant its user had while it was being minted.
THEOREM ClaimsAreGranted == Spec => []ClaimsWithinGrant
<1>1. Inv => ClaimsWithinGrant
  BY DEF Inv
<1> QED
  BY <1>1, Invariant, PTL

\* Deletion of an account stops every later request from minting a session.
THEOREM DeletionStopsSessions == Spec => []NoSessionForDeleted
<1>1. Inv => NoSessionForDeleted
  BY DEF Inv, OrphanInv, LocalsInv, NoSessionForDeleted
<1> QED
  BY <1>1, Invariant, PTL

-----------------------------------------------------------------------------
(* Refinement: the requests implement the abstract store *)

\* Signing a token opens its session.
LEMMA IssueOpens ==
    ASSUME Inv, NEW r \in Reqs, NEW n \in Sids, IssueTokenPair(r, n)
    PROVE  Store!Open(n, req[r].uid) /\ req[r].uid \in Users
<1> USE AuthAssumption
<1>0. TypeOK /\ MintedInv /\ req[r] \in Request
  BY DEF Inv, TypeOK
<1>1. token[n] = None /\ ~SessionExists(n)
  BY <1>0 DEF IssueTokenPair, FreshSid, MintedInv
<1>2. req[r].uid \in Users /\ req[r].grant \in Grants
  BY <1>0 DEF Inv, LocalsInv, IssueTokenPair, At, Request
<1>3. /\ ClaimedPermissions(r, TRUE) \in SUBSET (AllAssignablePermissions \cup {PermAll})
      /\ ClaimedPermissions(r, FALSE) \in SUBSET (AllAssignablePermissions \cup {PermAll})
  BY <1>2, EffectiveType DEF ClaimedPermissions
<1>4. PICK c \in Claims : c.uid = req[r].uid /\ token' = [token EXCEPT ![n] = c]
  BY <1>2, <1>3 DEF IssueTokenPair, Claims
<1>5. token'[n] # None /\ token'[n].uid = req[r].uid
  BY <1>0, <1>4 DEF TypeOK
<1>6. /\ SessionExists(n)'
      /\ \A s \in Sids \ {n} : /\ token'[s] = token[s]
                               /\ SessionExists(s)' <=> SessionExists(s)
  BY <1>0, <1>4 DEF IssueTokenPair, SessionExists, SessionKey, TypeOK
<1>7. Life[n] = "unissued" /\ Life' = [Life EXCEPT ![n] = "live"]
  BY <1>1, <1>6 DEF Life
<1>8. Owner' = [Owner EXCEPT ![n] = req[r].uid]
  BY <1>5, <1>6 DEF Owner
<1> QED
  BY <1>2, <1>7, <1>8 DEF Store!Open

\* Removing keys without signing anything closes their sessions.
LEMMA RemovalCloses ==
    ASSUME Inv, redis' \subseteq redis, token' = token
    PROVE  \E S \in SUBSET Sids : Store!Close(S)
<1> DEFINE S == {s \in Sids : SessionExists(s) /\ ~SessionExists(s)'}
<1>1. \A s \in Sids : SessionExists(s) => token[s] # None
  BY DEF Inv, MintedInv
<1>2. \A s \in Sids : SessionExists(s)' => SessionExists(s)
  BY DEF SessionExists, SessionKey
<1>3. \A s \in S : Life[s] = "live"
  BY DEF Life
<1>4. Life' = [s \in Sids |-> IF s \in S THEN "closed" ELSE Life[s]]
  BY <1>1, <1>2 DEF Life
<1>5. Owner' = Owner
  BY DEF Owner
<1> QED
  BY <1>3, <1>4, <1>5 DEF Store!Close

\* Every step opens one session, closes some, or is invisible to the store.
LEMMA StoreStep ==
    ASSUME Inv, [Next]_vars
    PROVE  Store!Next \/ UNCHANGED <<Life, Owner>>
<1>0. TypeOK
  BY DEF Inv
<1>1. CASE UNCHANGED <<redis, token>>
  BY <1>1 DEF Life, Owner, SessionExists
<1>2. ASSUME NEW r \in Reqs, NEW n \in Sids, IssueTokenPair(r, n) PROVE Store!Next
  BY <1>2, IssueOpens DEF Store!Next
<1>3. ASSUME NEW r \in Reqs, RefreshRevoke(r) \/ Logout(r) \/ LogoutAll(r)
      PROVE  redis' \subseteq redis /\ token' = token
  BY <1>3 DEF RefreshRevoke, Logout, LogoutAll, RevokeSession
<1>4. ASSUME NEW n \in Sids, SessionExpires(n)
      PROVE  redis' \subseteq redis /\ token' = token
  BY <1>4 DEF SessionExpires
<1>5. \/ UNCHANGED <<redis, token>>
      \/ \E r \in Reqs, n \in Sids : IssueTokenPair(r, n)
      \/ \E r \in Reqs : RefreshRevoke(r) \/ Logout(r) \/ LogoutAll(r)
      \/ \E n \in Sids : SessionExpires(n)
  BY DEF Next, vars, sessionVars, Register, LoginFind, SocialLogin, RefreshCheck,
         AccessCheck, IncrementPasswordAttempts, LockAccount, RecordLogin, Respond,
         RefreshFind, Serve, Abort, BlockUser, UnblockUser, DeleteUser,
         ResetPassword, LockExpires, UpdateAccess
<1>6. redis' \subseteq redis /\ token' = token => Store!Next
  BY RemovalCloses DEF Store!Next
<1> QED
  BY <1>1, <1>2, <1>3, <1>4, <1>5, <1>6

\* Login, refresh, logout and expiry implement the abstract session lifecycle:
\* an identifier is opened once, for one user, and never reopened.
THEOREM Refinement == Spec => StoreSpec
<1>1. Init => Store!Init
  BY DEF Init, Store!Init, Life, Owner, SessionExists
<1>2. Inv /\ [Next]_vars => [Store!Next]_<<Life, Owner>>
  BY StoreStep
<1> QED
  BY <1>1, <1>2, Invariant, PTL DEF Spec, StoreSpec, Store!Spec, Store!lifeVars

-----------------------------------------------------------------------------
(* Counting: how often one refresh token can be exchanged, and how far wrong *)
(* passwords can run past the threshold.  Both charge each excess to a       *)
(* request in flight or to a failed call.                                    *)


\* A smaller set counts no more.
LEMMA CountLess ==
    ASSUME NEW S, IsFiniteSet(S), NEW T, T \subseteq S
    PROVE  /\ IsFiniteSet(T) /\ Cardinality(T) \in Nat /\ Cardinality(S) \in Nat
           /\ Cardinality(T) <= Cardinality(S)
  BY FS_Subset, FS_CardinalityType

\* One element more counts at most one more.
LEMMA CountGrows ==
    ASSUME NEW S, IsFiniteSet(S), NEW x, NEW T, T \subseteq S \cup {x}
    PROVE  /\ IsFiniteSet(T) /\ Cardinality(T) \in Nat /\ Cardinality(S) \in Nat
           /\ Cardinality(T) <= Cardinality(S) + 1
<1>1. /\ IsFiniteSet(S \cup {x})
      /\ Cardinality(S \cup {x}) \in Nat /\ Cardinality(S) \in Nat
      /\ Cardinality(S \cup {x}) <= Cardinality(S) + 1
  BY FS_AddElement, FS_CardinalityType
<1>2. /\ IsFiniteSet(T) /\ Cardinality(T) \in Nat
      /\ Cardinality(T) <= Cardinality(S \cup {x})
  BY <1>1, CountLess
<1> QED
  BY <1>1, <1>2

\* One element fewer counts at least one less.
LEMMA CountDrops ==
    ASSUME NEW S, IsFiniteSet(S), NEW x \in S, NEW T, T \subseteq S \ {x}
    PROVE  /\ IsFiniteSet(T) /\ Cardinality(T) \in Nat /\ Cardinality(S) \in Nat
           /\ Cardinality(T) + 1 <= Cardinality(S)
<1>1. /\ IsFiniteSet(S \ {x})
      /\ Cardinality(S \ {x}) \in Nat /\ Cardinality(S) \in Nat
      /\ Cardinality(S \ {x}) = Cardinality(S) - 1
  BY FS_RemoveElement, FS_CardinalityType
<1>2. /\ IsFiniteSet(T) /\ Cardinality(T) \in Nat
      /\ Cardinality(T) <= Cardinality(S \ {x})
  BY <1>1, CountLess
<1> QED
  BY <1>1, <1>2

-----------------------------------------------------------------------------
(* Rotation *)

\* Requests about to mint a successor of session s.
Issuing(s) == {r \in Reqs : req[r].pc = "issue" /\ req[r].sid = s}

\* Requests that passed the session check of s and may still mint one.
Pending(s) ==
    {r \in Reqs : req[r].pc \in {"find", "revoke", "issue"} /\ req[r].sid = s}

\* A session's successors and its issuing requests are paid for by failed DELs
\* as long as its key lives; once it is gone nobody passes the check any more,
\* and those who have passed are at most the requests in flight.
FanoutInv ==
    \A s \in Sids :
        /\ token[s] = None => Children(s) = {} /\ Pending(s) = {}
        /\ SessionExists(s) =>
              Cardinality(Children(s)) + Cardinality(Issuing(s)) <= faults
        /\ ~SessionExists(s) =>
              Cardinality(Children(s)) + Cardinality(Pending(s))
                  <= Cardinality(Reqs) + faults

\* A step that adds nothing to what session s has minted or may mint.
Quiet(s) ==
    /\ token'[s] = token[s] /\ faults' >= faults
    /\ Children(s)' \subseteq Children(s)
    /\ Issuing(s)' \subseteq Issuing(s) /\ Pending(s)' \subseteq Pending(s)
    /\ SessionExists(s)' => SessionExists(s)

\* Session s is opened: it has no past.
Opened(s) ==
    /\ token[s] = None /\ SessionExists(s)'
    /\ Children(s)' = {} /\ Issuing(s)' = {} /\ token'[s] # None
    /\ faults' >= faults

\* A refresh of session s, which is live, passes its check.
Checked(s) ==
    /\ SessionExists(s) /\ SessionExists(s)'
    /\ token'[s] = token[s] /\ faults' = faults
    /\ Children(s)' = Children(s) /\ Issuing(s)' \subseteq Issuing(s)

\* A refresh of session s gets past its DEL, which removes the key or fails.
PastRevoke(s) ==
    /\ token'[s] = token[s] /\ Children(s)' = Children(s)
    /\ Pending(s)' \subseteq Pending(s)
    /\ \/ ~SessionExists(s)' /\ faults' = faults
       \/ /\ SessionExists(s)' => SessionExists(s)
          /\ faults' = faults + 1
          /\ \E r \in Reqs : Issuing(s)' \subseteq Issuing(s) \cup {r}

\* A refresh of session s mints its successor.
Succeeded(s) ==
    /\ token'[s] = token[s] /\ faults' >= faults
    /\ SessionExists(s)' => SessionExists(s)
    /\ \E r \in Issuing(s), n \in Sids :
          /\ Children(s)' \subseteq Children(s) \cup {n}
          /\ Issuing(s)' \subseteq Issuing(s) \ {r}
          /\ Pending(s)' \subseteq Pending(s) \ {r}

\* For one session every step is one of these.
LEMMA FanoutStep ==
    ASSUME Inv, FanoutInv, [Next]_vars, NEW s \in Sids
    PROVE  Quiet(s) \/ Opened(s) \/ Checked(s) \/ PastRevoke(s) \/ Succeeded(s)
<1> USE AuthAssumption
<1>0. /\ TypeOK /\ LocalsInv /\ MintedInv
      /\ req \in [Reqs -> Request] /\ parent \in [Sids -> Sids \cup {None}]
      /\ faults \in Nat /\ token \in [Sids -> Claims \cup {None}]
  BY DEF Inv, TypeOK
<1>1. ASSUME UNCHANGED <<token, parent>>, redis' \subseteq redis, faults' >= faults,
             \A q \in Reqs : req'[q] = req[q] \/ req'[q].pc \notin {"find", "revoke", "issue"}
                               \/ req'[q].sid = None
                               \/ /\ req'[q].sid = req[q].sid
                                  /\ req'[q].pc = "issue" => req[q].pc = "issue"
                                  /\ req[q].pc \in {"find", "revoke", "issue"}
      PROVE  Quiet(s)
  <2>1. SessionExists(s)' => SessionExists(s)
    BY <1>1 DEF SessionExists, SessionKey
  <2>2. Children(s)' = Children(s)
    BY <1>1 DEF Children
  <2>3. s # None
    OBVIOUS
  <2>4. Issuing(s)' \subseteq Issuing(s) /\ Pending(s)' \subseteq Pending(s)
    BY <1>1, <2>3 DEF Issuing, Pending
  <2> QED
    BY <1>1, <2>1, <2>2, <2>4 DEF Quiet
<1>2. ASSUME NEW r \in Reqs, NEW u \in Users,
             Register(r, u) \/ LoginFind(r, u) \/ SocialLogin(r, u)
      PROVE  Quiet(s)
  <2>1. \A l \in {"issue", "count"} : Started(l, u, None).sid = None
    BY <1>0, StartedType
  <2>2. \A q \in Reqs : req'[q] = req[q] \/ req'[q].sid = None
    BY <1>0, <1>2, <2>1 DEF Register, LoginFind, SocialLogin
  <2>3. UNCHANGED <<token, parent, redis, faults>>
    BY <1>2 DEF Register, LoginFind, SocialLogin, sessionVars
  <2> QED
    BY <1>0, <1>1, <2>2, <2>3
<1>3. ASSUME NEW r \in Reqs, NEW n \in Sids, AccessCheck(r, n) PROVE Quiet(s)
  <2>1. \A l \in {"serve", "logout", "logoutAll"} : Started(l, token[n].uid, n).pc = l
    BY DEF Started, Idle
  <2>2. \A q \in Reqs : \/ req'[q] = req[q]
                        \/ req'[q].pc \in {"serve", "logout", "logoutAll"}
    BY <1>0, <1>3, <2>1 DEF AccessCheck
  <2>3. UNCHANGED <<token, parent, redis, faults>>
    BY <1>3 DEF AccessCheck, sessionVars
  <2> QED
    BY <1>0, <1>1, <2>2, <2>3
<1>4. ASSUME NEW r \in Reqs, NEW n \in Sids, RefreshCheck(r, n)
      PROVE  Quiet(s) \/ Checked(s)
  <2>1. /\ Started("find", token[n].uid, n).pc = "find"
        /\ Started("find", token[n].uid, n).sid = n
    BY DEF Started, Idle
  <2>2. UNCHANGED <<token, parent, redis, faults>>
    BY <1>4 DEF RefreshCheck, sessionVars
  <2>3. \A q \in Reqs : req'[q] = req[q] \/ (req'[q].pc = "find" /\ req'[q].sid = n)
    BY <1>0, <1>4, <2>1 DEF RefreshCheck
  <2>4. CASE s = n
    <3>1. SessionExists(s) /\ SessionExists(s)'
      BY <1>4, <2>2, <2>4 DEF RefreshCheck, SessionExists
    <3>2. Children(s)' = Children(s) /\ Issuing(s)' \subseteq Issuing(s)
      BY <2>2, <2>3 DEF Children, Issuing
    <3> QED
      BY <2>2, <3>1, <3>2 DEF Checked
  <2>5. CASE s # n
    <3>1. Issuing(s)' \subseteq Issuing(s) /\ Pending(s)' \subseteq Pending(s)
      BY <2>3, <2>5 DEF Issuing, Pending
    <3>2. Children(s)' = Children(s) /\ (SessionExists(s)' => SessionExists(s))
      BY <2>2 DEF Children, SessionExists
    <3> QED
      BY <1>0, <2>2, <3>1, <3>2 DEF Quiet
  <2> QED
    BY <2>4, <2>5
<1>5. ASSUME NEW r \in Reqs, RefreshFind(r) PROVE Quiet(s)
  <2>1. req[r].pc = "find" /\ req[r] \in Request
    BY <1>0, <1>5 DEF RefreshFind, At
  <2>2. \/ req' = [req EXCEPT ![r] = Idle]
        \/ req' = [req EXCEPT ![r] = [req[r] EXCEPT !.pc = "revoke",
                                        !.grant = user[req[r].uid].grant]]
    BY <1>0, <1>5 DEF RefreshFind, Finish
  <2>3. Idle.pc = "idle"
    BY DEF Idle
  <2>4. \A q \in Reqs : \/ req'[q] = req[q]
                        \/ req'[q].pc = "idle"
                        \/ /\ req'[q].sid = req[q].sid /\ req'[q].pc = "revoke"
                           /\ req[q].pc = "find"
    <3>1. \A q \in Reqs : q # r => req'[q] = req[q]
      BY <1>0, <2>2
    <3>2. CASE req' = [req EXCEPT ![r] = Idle]
      BY <1>0, <2>3, <3>1, <3>2
    <3>3. CASE req' = [req EXCEPT ![r] = [req[r] EXCEPT !.pc = "revoke",
                                            !.grant = user[req[r].uid].grant]]
      <4>1. req'[r].sid = req[r].sid /\ req'[r].pc = "revoke"
        BY <1>0, <2>1, <3>3 DEF Request
      <4> QED
        BY <2>1, <3>1, <4>1
    <3> QED
      BY <2>2, <3>2, <3>3
  <2>5. UNCHANGED <<token, parent, redis, faults>>
    BY <1>5 DEF RefreshFind, sessionVars
  <2> QED
    BY <1>0, <1>1, <2>4, <2>5
<1>6. ASSUME NEW r \in Reqs, RefreshRevoke(r) PROVE Quiet(s) \/ PastRevoke(s)
  <2>1. req[r].pc = "revoke" /\ req[r] \in Request
    BY <1>0, <1>6 DEF RefreshRevoke, At
  <2>2. \A q \in Reqs : \/ req'[q] = req[q]
                        \/ /\ q = r /\ req'[q].sid = req[q].sid
                           /\ req'[q].pc = "issue"
    BY <1>0, <1>6, <2>1 DEF RefreshRevoke, GoTo, Request
  <2>3. Pending(s)' \subseteq Pending(s) /\ Issuing(s)' \subseteq Issuing(s) \cup {r}
    BY <2>1, <2>2 DEF Pending, Issuing
  <2>4. UNCHANGED <<token, parent>> /\ Children(s)' = Children(s)
    BY <1>6 DEF RefreshRevoke, Children
  <2>5. CASE RevokeSession(req[r].sid) /\ UNCHANGED faults
    <3>1. redis' = redis \ {SessionKey(req[r].sid)}
      BY <2>5 DEF RevokeSession
    <3>2. CASE req[r].sid = s
      BY <2>3, <2>4, <2>5, <3>1, <3>2 DEF PastRevoke, SessionExists
    <3>3. CASE req[r].sid # s
      <4>1. Issuing(s)' \subseteq Issuing(s)
        BY <2>2, <3>3 DEF Issuing
      <4> QED
        BY <1>0, <2>3, <2>4, <2>5, <3>1, <4>1 DEF Quiet, SessionExists
    <3> QED
      BY <3>2, <3>3
  <2>6. CASE UNCHANGED <<redis, revoked>> /\ Fault
    BY <2>3, <2>4, <2>6 DEF PastRevoke, Fault, SessionExists
  <2> QED
    BY <1>6, <2>5, <2>6 DEF RefreshRevoke
<1>7. ASSUME NEW r \in Reqs, NEW n \in Sids, IssueTokenPair(r, n)
      PROVE  Quiet(s) \/ Opened(s) \/ Succeeded(s)
  <2>1. req[r].pc = "issue" /\ req[r] \in Request /\ token[n] = None
    BY <1>0, <1>7 DEF IssueTokenPair, At, FreshSid
  <2>2. \A q \in Reqs : \/ q # r /\ req'[q] = req[q]
                        \/ q = r /\ req'[q].pc \in {"record", "respond"}
    BY <1>0, <1>7, <2>1 DEF IssueTokenPair, Request
  <2>3. /\ Issuing(s)' \subseteq Issuing(s) \ {r}
        /\ Pending(s)' \subseteq Pending(s) \ {r}
    BY <2>2 DEF Issuing, Pending
  <2>4. faults' >= faults
    <3>1. faults' = faults \/ faults' = faults + 1
      BY <1>7 DEF IssueTokenPair, Fault
    <3> QED
      BY <1>0, <3>1
  <2>5. \A c \in Sids : parent'[c] = IF c = n THEN req[r].sid ELSE parent[c]
    BY <1>0, <1>7 DEF IssueTokenPair
  <2>6. SessionExists(n)'
    BY <1>7 DEF IssueTokenPair, SessionExists
  <2>7. CASE s = n
    <3>1. Children(s) = {} /\ Pending(s) = {}
      BY <2>1, <2>7 DEF FanoutInv
    <3>2. req[r].sid # s
      BY <2>1, <3>1 DEF Pending
    <3>3. Children(s)' = {}
      BY <2>5, <2>7, <3>1, <3>2 DEF Children
    <3>4. Issuing(s)' = {}
      BY <2>3, <3>1 DEF Issuing, Pending
    <3>5. token[s] = None /\ token'[s] # None
      BY <2>1, <2>6, <2>7, SessionStep, <1>0 DEF MintedInv
    <3> QED
      BY <2>4, <2>6, <2>7, <3>3, <3>4, <3>5 DEF Opened
  <2>8. CASE s # n
    <3>1. token'[s] = token[s] /\ (SessionExists(s)' => SessionExists(s))
      BY <1>0, <1>7, <2>8 DEF IssueTokenPair, SessionExists, SessionKey
    <3>2. CASE req[r].sid = s
      <4>1. r \in Issuing(s) /\ Children(s)' \subseteq Children(s) \cup {n}
        BY <2>1, <2>5, <3>2 DEF Issuing, Children
      <4> QED
        BY <2>3, <2>4, <3>1, <4>1 DEF Succeeded
    <3>3. CASE req[r].sid # s
      <4>1. Children(s)' \subseteq Children(s)
        BY <2>5, <3>3 DEF Children
      <4> QED
        BY <2>3, <2>4, <3>1, <4>1 DEF Quiet
    <3> QED
      BY <3>2, <3>3
  <2> QED
    BY <2>7, <2>8
<1>8. ASSUME NEW r \in Reqs,
             \/ IncrementPasswordAttempts(r) \/ LockAccount(r) \/ RecordLogin(r)
             \/ Respond(r) \/ Serve(r) \/ Logout(r) \/ LogoutAll(r) \/ Abort(r)
      PROVE  Quiet(s)
  <2>1. Idle.pc = "idle" /\ req[r] \in Request
    BY <1>0 DEF Idle
  <2>2. \A q \in Reqs : req'[q] = req[q] \/ req'[q].pc \in {"idle", "lock", "respond"}
    BY <1>0, <1>8, <2>1 DEF IncrementPasswordAttempts, LockAccount, RecordLogin, Respond,
          Serve, Logout, LogoutAll, Abort, GoTo, Finish, Request
  <2>3. UNCHANGED <<token, parent>> /\ redis' \subseteq redis
    BY <1>8 DEF IncrementPasswordAttempts, LockAccount, RecordLogin, Respond,
          Serve, Logout, LogoutAll, Abort, RevokeSession, sessionVars
  <2>4. faults' >= faults
    BY <1>0, <1>8 DEF IncrementPasswordAttempts, LockAccount, RecordLogin, Respond,
          Serve, Logout, LogoutAll, Abort, Fault
  <2> QED
    BY <1>1, <2>2, <2>3, <2>4
<1>9. ASSUME NEW u \in Users, NEW g \in Grants, UpdateAccess(u, g) PROVE Quiet(s)
  <2>1. \A q \in Reqs : req'[q].sid = req[q].sid /\ req'[q].pc = req[q].pc
    BY <1>0, <1>9 DEF UpdateAccess, Request
  <2>2. UNCHANGED <<token, parent, redis, faults>>
    BY <1>9 DEF UpdateAccess, sessionVars
  <2>3. Issuing(s)' \subseteq Issuing(s) /\ Pending(s)' \subseteq Pending(s)
    BY <2>1 DEF Issuing, Pending
  <2> QED
    BY <1>0, <2>2, <2>3 DEF Quiet, Children, SessionExists
<1>10. ASSUME NEW u \in Users,
              \/ BlockUser(u) \/ UnblockUser(u) \/ DeleteUser(u) \/ ResetPassword(u)
              \/ LockExpires(u)
       PROVE  Quiet(s)
  <2>1. UNCHANGED <<req, token, parent, redis, faults>>
    BY <1>10 DEF BlockUser, UnblockUser, DeleteUser, ResetPassword, LockExpires, sessionVars
  <2> QED
    BY <1>0, <1>1, <2>1
<1>11. ASSUME NEW n \in Sids, SessionExpires(n) PROVE Quiet(s)
  <2>1. UNCHANGED <<req, token, parent, faults>> /\ redis' \subseteq redis
    BY <1>11 DEF SessionExpires
  <2> QED
    BY <1>0, <1>1, <2>1
<1>12. CASE UNCHANGED vars
  <2>1. UNCHANGED <<req, token, parent, redis, faults>>
    BY <1>12 DEF vars
  <2> QED
    BY <1>0, <1>1, <2>1
<1> QED
  BY <1>2, <1>3, <1>4, <1>5, <1>6, <1>7, <1>8, <1>9, <1>10, <1>11, <1>12 DEF Next

\* The sets the counting is about are finite, and issuing requests are pending.
LEMMA FanoutFinite ==
    ASSUME NEW s \in Sids
    PROVE  /\ IsFiniteSet(Children(s)) /\ IsFiniteSet(Issuing(s))
           /\ IsFiniteSet(Pending(s)) /\ Issuing(s) \subseteq Pending(s)
           /\ Cardinality(Pending(s)) <= Cardinality(Reqs)
           /\ Cardinality(Children(s)) \in Nat /\ Cardinality(Issuing(s)) \in Nat
           /\ Cardinality(Pending(s)) \in Nat /\ Cardinality(Reqs) \in Nat
<1>1. Children(s) \subseteq Sids /\ Issuing(s) \subseteq Pending(s) /\ Pending(s) \subseteq Reqs
  BY DEF Children, Issuing, Pending
<1>2. IsFiniteSet(Sids) /\ IsFiniteSet(Reqs)
  BY AuthAssumption
<1>3. Issuing(s) \subseteq Reqs
  BY <1>1
<1> QED
  BY <1>1, <1>2, <1>3, CountLess

\* Sums of counts are monotone in their parts and in the bound.
LEMMA SumWithin ==
    ASSUME NEW a \in Nat, NEW b \in Nat, NEW c \in Nat, NEW d \in Nat,
           NEW n \in Nat, NEW m \in Nat, NEW k \in Nat,
           c + d <= k + n, a + b <= c + d, n <= m
    PROVE  a + b <= k + m
  OBVIOUS

\* The accounting survives every step.
LEMMA NextFanout == Inv /\ FanoutInv /\ [Next]_vars => FanoutInv'
<1> SUFFICES ASSUME Inv, FanoutInv, [Next]_vars, NEW s \in Sids
             PROVE  /\ token'[s] = None => Children(s)' = {} /\ Pending(s)' = {}
                    /\ SessionExists(s)' =>
                          Cardinality(Children(s)') + Cardinality(Issuing(s)') <= faults'
                    /\ ~SessionExists(s)' =>
                          Cardinality(Children(s)') + Cardinality(Pending(s)')
                              <= Cardinality(Reqs) + faults'
  BY DEF FanoutInv
<1> DEFINE C  == Cardinality(Children(s))   C1 == Cardinality(Children(s)')
           I  == Cardinality(Issuing(s))    I1 == Cardinality(Issuing(s)')
           P  == Cardinality(Pending(s))    P1 == Cardinality(Pending(s)')
           R  == Cardinality(Reqs)
<1>1. /\ token[s] = None => Children(s) = {} /\ Pending(s) = {}
      /\ SessionExists(s) => C + I <= faults
      /\ ~SessionExists(s) => C + P <= R + faults
  BY DEF FanoutInv
<1>2. /\ C \in Nat /\ I \in Nat /\ P \in Nat /\ R \in Nat /\ P <= R
      /\ IsFiniteSet(Children(s)) /\ IsFiniteSet(Issuing(s)) /\ IsFiniteSet(Pending(s))
      /\ Issuing(s) \subseteq Pending(s)
  BY FanoutFinite
<1>3. faults \in Nat /\ faults' \in Nat
  BY NextType DEF Inv, TypeOK
<1>4. SessionExists(s) => token[s] # None
  BY DEF Inv, MintedInv
<1>5. C1 \in Nat /\ I1 \in Nat /\ P1 \in Nat /\ P1 <= R
  <2>1. Children(s)' \subseteq Sids /\ Issuing(s)' \subseteq Reqs /\ Pending(s)' \subseteq Reqs
    BY DEF Children, Issuing, Pending
  <2>2. IsFiniteSet(Sids) /\ IsFiniteSet(Reqs)
    BY AuthAssumption
  <2> QED
    BY <2>1, <2>2, CountLess
<1>6. CASE Quiet(s)
  <2>1. C1 <= C /\ I1 <= I /\ P1 <= P
    BY <1>2, <1>6, CountLess DEF Quiet
  <2>2. faults' >= faults /\ token'[s] = token[s] /\ (SessionExists(s)' => SessionExists(s))
        /\ Children(s)' \subseteq Children(s) /\ Pending(s)' \subseteq Pending(s)
    BY <1>6 DEF Quiet
  <2>3. C + P <= R + faults
    <3>1. SessionExists(s) => C <= faults
      BY <1>1, <1>2, <1>3
    <3> QED
      BY <1>1, <1>2, <1>3, <3>1
  <2> HIDE DEF C, C1, I, I1, P, P1, R
  <2>4. C + I <= faults => C1 + I1 <= faults'
    BY <1>2, <1>3, <1>5, <2>1, <2>2
  <2>5. C1 + P1 <= R + faults'
    <3>1. C1 + P1 <= C + P
      BY <1>2, <1>5, <2>1
    <3> QED
      BY <1>2, <1>3, <1>5, <2>2, <2>3, <3>1, SumWithin
  <2> QED
    BY <1>1, <2>2, <2>4, <2>5 DEF C, C1, I, I1, P, P1, R
<1>7. CASE Opened(s)
  <2>1. Cardinality({}) = 0
    BY FS_EmptySet
  <2> QED
    BY <1>3, <1>7, <2>1 DEF Opened
<1>8. CASE Checked(s)
  <2>1. I1 <= I /\ C1 = C
    BY <1>2, <1>8, CountLess DEF Checked
  <2>2. SessionExists(s)' /\ token'[s] # None /\ C + I <= faults /\ faults' = faults
    BY <1>1, <1>4, <1>8 DEF Checked
  <2> HIDE DEF C, C1, I, I1
  <2>3. C1 + I1 <= faults'
    BY <1>2, <1>3, <1>5, <2>1, <2>2
  <2> QED
    BY <2>2, <2>3 DEF C1, I1
<1>9. CASE PastRevoke(s)
  <2>1. /\ C1 = C /\ P1 <= P /\ token'[s] = token[s]
        /\ Children(s)' = Children(s) /\ Pending(s)' \subseteq Pending(s)
    BY <1>2, <1>9, CountLess DEF PastRevoke
  <2>2. faults' >= faults
    BY <1>3, <1>9 DEF PastRevoke
  <2>3. C + P <= R + faults
    <3>1. SessionExists(s) => C <= faults
      BY <1>1, <1>2, <1>3
    <3> QED
      BY <1>1, <1>2, <1>3, <3>1
  <2>4. SessionExists(s)' => SessionExists(s) /\ faults' = faults + 1 /\ I1 <= I + 1
    <3>1. SessionExists(s)' => /\ SessionExists(s) /\ faults' = faults + 1
                               /\ \E r \in Reqs : Issuing(s)' \subseteq Issuing(s) \cup {r}
      BY <1>9 DEF PastRevoke
    <3> QED
      BY <1>2, <3>1, CountGrows
  <2> HIDE DEF C, C1, I, I1, P, P1, R
  <2>5. C1 + P1 <= R + faults'
    <3>1. C1 + P1 <= C + P
      BY <1>2, <1>5, <2>1
    <3> QED
      BY <1>2, <1>3, <1>5, <2>2, <2>3, <3>1, SumWithin
  <2>6. SessionExists(s)' => C1 + I1 <= faults'
    BY <1>1, <1>2, <1>3, <1>5, <2>1, <2>4
  <2> QED
    BY <1>1, <2>1, <2>5, <2>6 DEF C1, I1, P1, R
<1>10. CASE Succeeded(s)
  <2>1. PICK r \in Issuing(s), n \in Sids :
           /\ Children(s)' \subseteq Children(s) \cup {n}
           /\ Issuing(s)' \subseteq Issuing(s) \ {r}
           /\ Pending(s)' \subseteq Pending(s) \ {r}
    BY <1>10 DEF Succeeded
  <2>2. C1 <= C + 1
    BY <1>2, <2>1, CountGrows
  <2>3. I1 + 1 <= I
    BY <1>2, <2>1, CountDrops
  <2>4. P1 + 1 <= P
    BY <1>2, <2>1, CountDrops
  <2>5. token'[s] # None /\ faults' >= faults /\ (SessionExists(s)' => SessionExists(s))
    BY <1>1, <1>2, <1>10 DEF Succeeded
  <2>6. C + P <= R + faults
    <3>1. SessionExists(s) => C <= faults
      BY <1>1, <1>2, <1>3
    <3> QED
      BY <1>1, <1>2, <1>3, <3>1
  <2> HIDE DEF C, C1, I, I1, P, P1, R
  <2>7. C1 + P1 <= R + faults'
    <3>1. C1 + P1 <= C + P
      BY <1>2, <1>5, <2>2, <2>4
    <3> QED
      BY <1>2, <1>3, <1>5, <2>5, <2>6, <3>1, SumWithin
  <2>8. C + I <= faults => C1 + I1 <= faults'
    BY <1>2, <1>3, <1>5, <2>2, <2>3, <2>5
  <2> QED
    BY <1>1, <2>5, <2>7, <2>8 DEF C, I, C1, I1, P1, R
<1> QED
  BY <1>6, <1>7, <1>8, <1>9, <1>10, FanoutStep

\* Nobody has exchanged a token before the first is signed.
LEMMA InitFanout == Init => FanoutInv
<1> SUFFICES ASSUME Init, NEW s \in Sids
             PROVE  /\ Children(s) = {} /\ Pending(s) = {} /\ ~SessionExists(s)
                    /\ Cardinality(Children(s)) + Cardinality(Pending(s))
                           <= Cardinality(Reqs) + faults
  BY DEF FanoutInv
<1>1. Children(s) = {} /\ Pending(s) = {} /\ ~SessionExists(s)
  BY AuthAssumption DEF Init, Children, Pending, Idle, SessionExists
<1>2. Cardinality({}) = 0 /\ Cardinality(Reqs) \in Nat /\ faults = 0
  BY FS_EmptySet, FS_CardinalityType, AuthAssumption DEF Init
<1> QED
  BY <1>1, <1>2

\* A refresh token is exchanged at most once for each request in flight and
\* each failed call, however the refreshes, logouts and expiries interleave.
THEOREM RotationIsBounded == Spec => []RotationFanout
<1>1. Inv /\ FanoutInv => RotationFanout
  <2> SUFFICES ASSUME Inv, FanoutInv, NEW s \in Sids
               PROVE  Cardinality(Children(s)) <= Cardinality(Reqs) + faults
    BY DEF RotationFanout
  <2>1. faults \in Nat
    BY DEF Inv, TypeOK
  <2>2. /\ SessionExists(s) =>
              Cardinality(Children(s)) + Cardinality(Issuing(s)) <= faults
        /\ ~SessionExists(s) =>
              Cardinality(Children(s)) + Cardinality(Pending(s))
                  <= Cardinality(Reqs) + faults
    BY DEF FanoutInv
  <2> QED
    BY <2>1, <2>2, FanoutFinite
<1> QED
  BY <1>1, InitFanout, NextFanout, Invariant, PTL DEF Spec

-----------------------------------------------------------------------------
(* Lockout *)

\* Failures of u still to be counted that will not lock the account, because
\* the counter they read was below the threshold.
Blind(u) ==
    {r \in Reqs : /\ req[r].pc = "count" /\ req[r].uid = u
                  /\ req[r].attempts + 1 < MaxPasswordAttempts}

\* Failures of u that were counted and are about to lock the account.
Locking(u) == {r \in Reqs : req[r].pc = "lock" /\ req[r].uid = u}

\* A failure belongs to an account that was found.
CountedInv ==
    \A r \in Reqs : req[r].pc \in {"count", "lock"} =>
        req[r].uid # None /\ user[req[r].uid].status # "absent"

\* As long as an account has not been locked, every failure counted or about to
\* be counted past the threshold is a request in flight, one about to lock it,
\* or one that a fault ended before it could.
SlackInv ==
    \A u \in Users :
        user[u].lock = "none" /\ ~user[u].deleted =>
            user[u].attempts + Cardinality(Blind(u)) + 2
                <= MaxPasswordAttempts + Cardinality(Reqs)
                       + Cardinality(Locking(u)) + faults

\* The account's counter, lock and deletion mark are left alone.
SameAccount(u) ==
    /\ user'[u].attempts = user[u].attempts
    /\ user'[u].lock = user[u].lock /\ user'[u].deleted = user[u].deleted

\* The account is locked, was locked once, or is deleted.
Exempt(u) == user'[u].lock # "none" \/ user'[u].deleted

\* The counter is below the threshold, or at zero.
Cleared(u) ==
    user'[u].attempts = 0 \/ user'[u].attempts + 2 <= MaxPasswordAttempts

\* Nothing is counted, and no request stops short of its lock but by a fault.
Uncounted(u) ==
    /\ SameAccount(u) /\ Blind(u)' \subseteq Blind(u)
    /\ \/ Locking(u) \subseteq Locking(u)' /\ faults' >= faults
       \/ /\ faults' = faults + 1
          /\ \E r \in Reqs : Locking(u) \subseteq Locking(u)' \cup {r}

\* A failure is counted: it was blind, or goes on to lock the account.
Counted(u) ==
    /\ user'[u].attempts = user[u].attempts + 1
    /\ user'[u].lock = user[u].lock /\ user'[u].deleted = user[u].deleted
    /\ faults' = faults
    /\ \E r \in Reqs :
          \/ /\ r \in Blind(u) /\ Blind(u)' \subseteq Blind(u) \ {r}
             /\ Locking(u) \subseteq Locking(u)'
          \/ /\ Blind(u)' \subseteq Blind(u)
             /\ r \in Locking(u)' /\ Locking(u) \subseteq Locking(u)' \ {r}

\* Requests that count or lock stay with their labels' account.
LEMMA NextCounted == Inv /\ CountedInv /\ [Next]_vars => CountedInv'
<1> SUFFICES ASSUME Inv, CountedInv, [Next]_vars, NEW q \in Reqs,
                    req'[q].pc \in {"count", "lock"}
             PROVE  req'[q].uid # None /\ user'[req'[q].uid].status # "absent"
  BY DEF CountedInv
<1> USE AuthAssumption
<1>0. TypeOK /\ req[q] \in Request
  BY DEF Inv, TypeOK
<1>1. \A u \in Users : user[u].status # "absent" => user'[u].status # "absent"
  BY AccountStep
<1>2. ASSUME req[q].pc \in {"count", "lock"}, req'[q].uid = req[q].uid
      PROVE  req'[q].uid # None /\ user'[req'[q].uid].status # "absent"
  BY <1>0, <1>1, <1>2 DEF CountedInv, Request
<1>3. CASE req'[q] = req[q]
  BY <1>2, <1>3
<1>4. ASSUME NEW u \in Users, NEW label, user'[u].status # "absent",
             req'[q] = Started(label, u, None)
      PROVE  req'[q].uid # None /\ user'[req'[q].uid].status # "absent"
  BY <1>4 DEF Started, Idle
<1>5. CASE At(q, "count") /\ req'[q] = [req[q] EXCEPT !.pc = "lock"]
  BY <1>0, <1>2, <1>5 DEF At, Request
<1>6. ASSUME NEW g \in Grants, req'[q] = [req[q] EXCEPT !.seen = @ \cup {g}]
      PROVE  req'[q].uid # None /\ user'[req'[q].uid].status # "absent"
  BY <1>0, <1>2, <1>6 DEF Request
<1>7. ASSUME NEW s \in Sids, NEW label \in {"find", "serve", "logout", "logoutAll"},
             req'[q] = Started(label, token[s].uid, s)
      PROVE  FALSE
  BY <1>7 DEF Started, Idle
<1>8. ASSUME NEW s \in Sids, IssueTokenPair(q, s) PROVE FALSE
  BY <1>0, <1>8 DEF IssueTokenPair, TypeOK, Request
<1>9. ~RefreshFind(q)
  <2>1. SUFFICES ASSUME RefreshFind(q) PROVE req'[q].pc \in {"idle", "revoke"}
    OBVIOUS
  <2>2. CASE Found(req[q].uid)
    BY <1>0, <2>1, <2>2 DEF RefreshFind, TypeOK, Request
  <2>3. CASE ~Found(req[q].uid)
    BY <1>0, <2>1, <2>3 DEF RefreshFind, Finish, Idle, TypeOK
  <2> QED
    BY <2>2, <2>3
<1>10. /\ req'[q] # Idle
       /\ At(q, "record") => req'[q] # [req[q] EXCEPT !.pc = "respond"]
       /\ At(q, "revoke") => req'[q] # [req[q] EXCEPT !.pc = "issue"]
  BY <1>0 DEF Idle, At, Request
<1>11. \/ req'[q] = req[q]
       \/ \E u \in Users, label \in {"issue", "count"} :
             /\ user'[u].status # "absent"
             /\ req'[q] = Started(label, u, None)
       \/ At(q, "count") /\ req'[q] = [req[q] EXCEPT !.pc = "lock"]
       \/ \E g \in Grants : req'[q] = [req[q] EXCEPT !.seen = @ \cup {g}]
  BY <1>7, <1>8, <1>9, <1>10, RequestStep
<1> QED
  BY <1>3, <1>4, <1>5, <1>6, <1>11

\* For one account every step is one of these.
LEMMA LockStep ==
    ASSUME Inv, CountedInv, [Next]_vars, NEW u \in Users
    PROVE  Uncounted(u) \/ Counted(u) \/ Cleared(u) \/ Exempt(u)
<1> USE AuthAssumption
<1>0. /\ user \in [Users -> Account] /\ req \in [Reqs -> Request] /\ faults \in Nat
      /\ user[u] \in Account /\ \A v \in Users : user[v] \in Account
      /\ user[u].attempts \in Nat /\ OrphanInv /\ LocalsInv
  BY DEF Inv, TypeOK, Account
<1>1. ASSUME SameAccount(u), faults' >= faults,
             \A q \in Reqs : \/ req'[q] = req[q]
                             \/ /\ req'[q].pc \notin {"count", "lock"}
                                /\ req[q].pc # "lock"
      PROVE  Uncounted(u)
  <2>1. Blind(u)' \subseteq Blind(u) /\ Locking(u) \subseteq Locking(u)'
    BY <1>1 DEF Blind, Locking
  <2> QED
    BY <1>1, <2>1 DEF Uncounted
<1>2. user' = user => SameAccount(u)
  BY DEF SameAccount
<1>3. ASSUME NEW r \in Reqs, NEW v \in Users, Register(r, v) PROVE Uncounted(u)
  <2>1. SameAccount(u)
    BY <1>0, <1>3 DEF Register, SameAccount, Account
  <2>2. \A q \in Reqs : req'[q] = req[q] \/ (req'[q].pc = "issue" /\ req[q].pc = "idle")
    BY <1>0, <1>3 DEF Register, At, Started, Idle
  <2> QED
    BY <1>0, <1>1, <1>3, <2>1, <2>2 DEF Register
<1>4. ASSUME NEW r \in Reqs, NEW v \in Users, LoginFind(r, v) \/ SocialLogin(r, v)
      PROVE  Uncounted(u) \/ Cleared(u)
  <2>1. SameAccount(u) /\ faults' >= faults /\ user' = user
    BY <1>0, <1>4 DEF LoginFind, SocialLogin, SameAccount
  <2>2. req[r].pc = "idle"
    BY <1>4 DEF LoginFind, SocialLogin, At
  <2>3. CASE req' = [req EXCEPT ![r] = Started("issue", v, None)]
    <3>1. \A q \in Reqs : req'[q] = req[q] \/ (req'[q].pc = "issue" /\ req[q].pc = "idle")
      BY <1>0, <2>2, <2>3 DEF Started, Idle
    <3> QED
      BY <1>1, <2>1, <3>1
  <2>4. CASE req' = [req EXCEPT ![r] = Started("count", v, None)]
    <3>1. /\ \A q \in Reqs : q # r => req'[q] = req[q]
          /\ req'[r].pc = "count" /\ req'[r].uid = v
          /\ req'[r].attempts = user[v].attempts
      BY <1>0, <2>4 DEF Started, Idle
    <3>2. Locking(u) \subseteq Locking(u)'
      BY <2>2, <3>1 DEF Locking
    <3>3. CASE v = u /\ user[u].attempts + 1 < MaxPasswordAttempts
      BY <1>0, <2>1, <3>3 DEF Cleared
    <3>4. CASE ~(v = u /\ user[u].attempts + 1 < MaxPasswordAttempts)
      <4>1. Blind(u)' \subseteq Blind(u)
        BY <3>1, <3>4 DEF Blind
      <4> QED
        BY <2>1, <3>2, <4>1 DEF Uncounted
    <3> QED
      BY <3>3, <3>4
  <2> QED
    BY <1>4, <2>3, <2>4 DEF LoginFind, SocialLogin
<1>5. ASSUME NEW r \in Reqs, NEW n \in Sids,
             IssueTokenPair(r, n) \/ RefreshCheck(r, n) \/ AccessCheck(r, n)
      PROVE  Uncounted(u)
  <2>1. req[r].pc \in {"issue", "idle"} /\ req[r] \in Request
    BY <1>0, <1>5 DEF IssueTokenPair, RefreshCheck, AccessCheck, At
  <2>2. \A l, x, y : Started(l, x, y).pc = l
    BY DEF Started, Idle
  <2>3. \A q \in Reqs :
           req'[q] = req[q] \/ (req'[q].pc \notin {"count", "lock"} /\ req[q].pc # "lock")
    <3>1. CASE IssueTokenPair(r, n)
      BY <1>0, <2>1, <3>1 DEF IssueTokenPair, Request
    <3>2. CASE RefreshCheck(r, n)
      BY <1>0, <2>1, <2>2, <3>2 DEF RefreshCheck
    <3>3. CASE AccessCheck(r, n)
      BY <1>0, <2>1, <2>2, <3>3 DEF AccessCheck
    <3> QED
      BY <1>5, <3>1, <3>2, <3>3
  <2>4. user' = user /\ (faults' = faults \/ faults' = faults + 1)
    BY <1>5 DEF IssueTokenPair, RefreshCheck, AccessCheck, Fault
  <2> QED
    BY <1>0, <1>1, <1>2, <2>3, <2>4
<1>6. ASSUME NEW r \in Reqs, IncrementPasswordAttempts(r)
      PROVE  Uncounted(u) \/ Counted(u)
  <2>1. req[r].pc = "count" /\ req[r] \in Request /\ faults' = faults
    BY <1>0, <1>6 DEF IncrementPasswordAttempts, At
  <2>2. \A q \in Reqs : q # r => req'[q] = req[q]
    BY <1>0, <1>6 DEF IncrementPasswordAttempts, GoTo, Finish
  <2>3. IF req[r].attempts + 1 >= MaxPasswordAttempts
        THEN req'[r].pc = "lock" /\ req'[r].uid = req[r].uid
        ELSE req'[r].pc = "idle"
    BY <1>0, <1>6, <2>1 DEF IncrementPasswordAttempts, HitsThreshold, GoTo, Finish,
                            Idle, Request
  <2>4. Blind(u)' \subseteq Blind(u) \ {r} /\ Locking(u) \subseteq Locking(u)' \ {r}
    BY <2>1, <2>2, <2>3 DEF Blind, Locking
  <2>5. CASE req[r].uid = u
    <3>1. /\ user'[u].attempts = user[u].attempts + 1
          /\ user'[u].lock = user[u].lock /\ user'[u].deleted = user[u].deleted
      BY <1>0, <1>6, <2>5 DEF IncrementPasswordAttempts, Account
    <3>2. req[r].attempts \in Nat /\ MaxPasswordAttempts \in Nat
      BY <2>1 DEF Request
    <3>3. r \in Blind(u) \/ r \in Locking(u)'
      BY <2>1, <2>3, <2>5, <3>2 DEF Blind, Locking
    <3> QED
      BY <2>1, <2>4, <3>1, <3>3 DEF Counted
  <2>6. CASE req[r].uid # u
    <3>1. user'[u] = user[u]
      BY <1>0, <1>6, <2>6 DEF IncrementPasswordAttempts
    <3>2. Locking(u) \subseteq Locking(u)' /\ Blind(u)' \subseteq Blind(u)
      BY <2>4
    <3> QED
      BY <1>0, <2>1, <3>1, <3>2 DEF Uncounted, SameAccount
  <2> QED
    BY <2>5, <2>6
<1>7. ASSUME NEW r \in Reqs, LockAccount(r) PROVE Uncounted(u) \/ Exempt(u)
  <2>1. req[r].pc = "lock" /\ req[r] \in Request /\ faults' = faults
    BY <1>0, <1>7 DEF LockAccount, At
  <2>2. req[r].uid \in Users /\ user[req[r].uid].status # "absent"
    BY <2>1 DEF CountedInv, Request
  <2>3. \A q \in Reqs : IF q = r THEN req'[q].pc = "idle" ELSE req'[q] = req[q]
    BY <1>0, <1>7 DEF LockAccount, Finish, Idle
  <2>4. CASE req[r].uid = u
    <3>1. CASE Found(u)
      BY <1>0, <1>7, <2>4, <3>1 DEF LockAccount, Exempt
    <3>2. CASE ~Found(u)
      BY <1>0, <1>7, <2>2, <2>4, <3>2 DEF LockAccount, Found, Exempt
    <3> QED
      BY <3>1, <3>2
  <2>5. CASE req[r].uid # u
    <3>1. user'[u] = user[u]
      BY <1>0, <1>7, <2>2, <2>5 DEF LockAccount
    <3>2. Locking(u) \subseteq Locking(u)' /\ Blind(u)' \subseteq Blind(u)
      BY <2>3, <2>5 DEF Locking, Blind
    <3> QED
      BY <1>0, <2>1, <3>1, <3>2 DEF Uncounted, SameAccount
  <2> QED
    BY <2>4, <2>5
<1>8. ASSUME NEW r \in Reqs, RecordLogin(r) PROVE Uncounted(u) \/ Cleared(u)
  <2>1. req[r].pc = "record" /\ req[r] \in Request
    BY <1>0, <1>8 DEF RecordLogin, At
  <2>2. \A q \in Reqs :
           req'[q] = req[q] \/ (req'[q].pc \notin {"count", "lock"} /\ req[q].pc # "lock")
    BY <1>0, <1>8, <2>1 DEF RecordLogin, GoTo, Request
  <2>3. faults' >= faults
    BY <1>0, <1>8 DEF RecordLogin, Fault
  <2>4. user'[u] = user[u] \/ user'[u].attempts = 0
    BY <1>0, <1>8 DEF RecordLogin, Account
  <2>5. user'[u] = user[u] => SameAccount(u)
    BY DEF SameAccount
  <2> QED
    BY <1>1, <2>2, <2>3, <2>4, <2>5 DEF Cleared
<1>9. ASSUME NEW r \in Reqs,
             \/ Respond(r) \/ RefreshFind(r) \/ RefreshRevoke(r)
             \/ Serve(r) \/ Logout(r) \/ LogoutAll(r)
      PROVE  Uncounted(u)
  <2>1. req[r] \in Request /\ req[r].pc \notin {"count", "lock"}
    BY <1>0, <1>9 DEF Respond, RefreshFind, RefreshRevoke, Serve, Logout, LogoutAll, At
  <2>2. \A q \in Reqs : q # r => req'[q] = req[q]
    BY <1>0, <1>9 DEF Respond, RefreshFind, RefreshRevoke, Serve, Logout, LogoutAll,
                      GoTo, Finish
  <2>3. req'[r].pc \in {"idle", "issue", "revoke"}
    <3>1. CASE RefreshFind(r)
      BY <1>0, <2>1, <3>1 DEF RefreshFind, Finish, Idle, Request
    <3>2. CASE RefreshRevoke(r)
      BY <1>0, <2>1, <3>2 DEF RefreshRevoke, GoTo, Request
    <3>3. CASE Respond(r) \/ Serve(r) \/ Logout(r) \/ LogoutAll(r)
      BY <1>0, <3>3 DEF Respond, Serve, Logout, LogoutAll, Finish, Idle
    <3> QED
      BY <1>9, <3>1, <3>2, <3>3
  <2>4. user' = user /\ (faults' = faults \/ faults' = faults + 1)
    BY <1>9 DEF Respond, RefreshFind, RefreshRevoke, Serve, Logout, LogoutAll, Fault
  <2> QED
    BY <1>0, <1>1, <1>2, <2>1, <2>2, <2>3, <2>4
<1>10. ASSUME NEW r \in Reqs, Abort(r) PROVE Uncounted(u)
  <2>1. \A q \in Reqs : IF q = r THEN req'[q].pc = "idle" ELSE req'[q] = req[q]
    BY <1>0, <1>10 DEF Abort, Finish, Idle
  <2>2. user' = user /\ faults' = faults + 1
    BY <1>10 DEF Abort, Fault
  <2>3. Blind(u)' \subseteq Blind(u) /\ Locking(u) \subseteq Locking(u)' \cup {r}
    BY <2>1 DEF Blind, Locking
  <2> QED
    BY <1>2, <2>2, <2>3 DEF Uncounted
<1>11. ASSUME NEW v \in Users,
              \/ BlockUser(v) \/ UnblockUser(v) \/ DeleteUser(v) \/ ResetPassword(v)
              \/ LockExpires(v)
       PROVE  Uncounted(u) \/ Cleared(u) \/ Exempt(u)
  <2>1. UNCHANGED <<req, faults>>
    BY <1>11 DEF BlockUser, UnblockUser, DeleteUser, ResetPassword, LockExpires
  <2>2. CASE BlockUser(v) \/ UnblockUser(v)
    <3>1. SameAccount(u)
      BY <1>0, <2>2 DEF BlockUser, UnblockUser, UpdateAccount, SameAccount, Account
    <3> QED
      BY <1>0, <1>1, <2>1, <3>1
  <2>3. CASE DeleteUser(v)
    <3>1. user'[u] = user[u] \/ user'[u].deleted
      BY <1>0, <2>3 DEF DeleteUser, UpdateAccount, Account
    <3> QED
      BY <1>0, <1>1, <2>1, <3>1 DEF Exempt, SameAccount
  <2>4. CASE ResetPassword(v)
    <3>1. user'[u] = user[u] \/ user'[u].attempts = 0
      BY <1>0, <2>4 DEF ResetPassword, UpdateAccount, Account
    <3> QED
      BY <1>0, <1>1, <2>1, <3>1 DEF Cleared, SameAccount
  <2>5. CASE LockExpires(v)
    <3>1. user'[u] = user[u] \/ user'[u].lock = "past"
      BY <1>0, <2>5 DEF LockExpires, Account
    <3> QED
      BY <1>0, <1>1, <2>1, <3>1 DEF Exempt, SameAccount
  <2> QED
    BY <1>11, <2>2, <2>3, <2>4, <2>5
<1>12. ASSUME NEW v \in Users, NEW g \in Grants, UpdateAccess(v, g) PROVE Uncounted(u)
  <2>1. SameAccount(u)
    BY <1>0, <1>12 DEF UpdateAccess, UpdateAccount, SameAccount, Account
  <2>2. \A q \in Reqs : /\ req'[q].pc = req[q].pc /\ req'[q].uid = req[q].uid
                        /\ req'[q].attempts = req[q].attempts
    BY <1>0, <1>12 DEF UpdateAccess, Request
  <2>3. faults' = faults
    BY <1>12 DEF UpdateAccess
  <2>4. Blind(u)' = Blind(u) /\ Locking(u)' = Locking(u)
    BY <2>2 DEF Blind, Locking
  <2> QED
    BY <1>0, <2>1, <2>3, <2>4 DEF Uncounted
<1>13. ASSUME NEW n \in Sids, SessionExpires(n) PROVE Uncounted(u)
  BY <1>0, <1>1, <1>2, <1>13 DEF SessionExpires
<1>14. CASE UNCHANGED vars
  BY <1>0, <1>1, <1>2, <1>14 DEF vars
<1> QED
  BY <1>3, <1>4, <1>5, <1>6, <1>7, <1>8, <1>9, <1>10, <1>11, <1>12, <1>13, <1>14 DEF Next

\* The requests counted here are requests in flight.
LEMMA SlackFinite ==
    ASSUME NEW u \in Users
    PROVE  /\ IsFiniteSet(Blind(u)) /\ IsFiniteSet(Locking(u))
           /\ Cardinality(Blind(u)) \in Nat /\ Cardinality(Locking(u)) \in Nat
           /\ Cardinality(Reqs) \in Nat /\ Cardinality(Reqs) >= 1
           /\ Cardinality(Blind(u)) + Cardinality(Locking(u)) <= Cardinality(Reqs)
<1>1. IsFiniteSet(Reqs) /\ Cardinality(Reqs) \in Nat /\ Cardinality(Reqs) >= 1
  BY AuthAssumption, FS_CardinalityType, FS_EmptySet
<1>2. /\ Blind(u) \subseteq Reqs /\ Locking(u) \subseteq Reqs
      /\ Blind(u) \cup Locking(u) \subseteq Reqs /\ Blind(u) \cap Locking(u) = {}
  BY DEF Blind, Locking
<1>3. /\ IsFiniteSet(Blind(u)) /\ IsFiniteSet(Locking(u))
      /\ Cardinality(Blind(u)) \in Nat /\ Cardinality(Locking(u)) \in Nat
      /\ Cardinality(Blind(u) \cup Locking(u)) <= Cardinality(Reqs)
  BY <1>1, <1>2, CountLess
<1>4. Cardinality(Blind(u) \cup Locking(u)) =
          Cardinality(Blind(u)) + Cardinality(Locking(u))
  <2>1. Cardinality(Blind(u) \cup Locking(u)) =
          Cardinality(Blind(u)) + Cardinality(Locking(u)) - Cardinality(Blind(u) \cap Locking(u))
    BY <1>3, FS_Union
  <2> QED
    BY <1>2, <1>3, <2>1, FS_EmptySet
<1> QED
  BY <1>1, <1>3, <1>4

\* Counting less against a bound that grows.
LEMMA SlackArithmetic ==
    ASSUME NEW a \in Nat, NEW b \in Nat, NEW k \in Nat, NEW x \in Nat, NEW f \in Nat,
           NEW b1 \in Nat, NEW x1 \in Nat, NEW f1 \in Nat
    PROVE  /\ a + b1 + 2 <= k => a + b1 + 2 <= k + x1 + f1
           /\ a + b + 2 <= k + x + f /\ b1 <= b /\ x + f <= x1 + f1
                  => a + b1 + 2 <= k + x1 + f1
  OBVIOUS

\* The slack survives every step.
LEMMA NextSlack == Inv /\ CountedInv /\ SlackInv /\ [Next]_vars => SlackInv'
<1> SUFFICES ASSUME Inv, CountedInv, SlackInv, [Next]_vars, NEW u \in Users,
                    user'[u].lock = "none", ~user'[u].deleted
             PROVE  user'[u].attempts + Cardinality(Blind(u)') + 2
                        <= MaxPasswordAttempts + Cardinality(Reqs)
                               + Cardinality(Locking(u)') + faults'
  BY DEF SlackInv
<1> DEFINE A == user[u].attempts            A1 == user'[u].attempts
           B == Cardinality(Blind(u))       B1 == Cardinality(Blind(u)')
           L == Cardinality(Locking(u))     L1 == Cardinality(Locking(u)')
           R == Cardinality(Reqs)           M == MaxPasswordAttempts
<1>1. /\ B \in Nat /\ L \in Nat /\ R \in Nat /\ R >= 1 /\ M \in Nat /\ M >= 1
      /\ faults \in Nat /\ faults' \in Nat /\ A \in Nat /\ A1 \in Nat
  <2>1. user[u] \in Account /\ user'[u] \in Account /\ faults \in Nat /\ faults' \in Nat
    BY NextType DEF Inv, TypeOK
  <2> QED
    BY <2>1, SlackFinite, AuthAssumption DEF Account
<1>2. IsFiniteSet(Blind(u)) /\ IsFiniteSet(Locking(u))
  BY SlackFinite
<1>3. Blind(u)' \subseteq Reqs /\ Locking(u)' \subseteq Reqs
  BY DEF Blind, Locking
<1>4. B1 \in Nat /\ L1 \in Nat /\ B1 <= R /\ IsFiniteSet(Locking(u)')
  BY <1>3, CountLess, AuthAssumption
<1>5. user[u].lock = "none" /\ ~user[u].deleted => A + B + 2 <= M + R + L + faults
  BY DEF SlackInv
<1>6. CASE Uncounted(u)
  <2>1. A1 = A /\ B1 <= B
    BY <1>2, <1>6, CountLess DEF Uncounted, SameAccount
  <2>2. A + B + 2 <= M + R + L + faults
    BY <1>5, <1>6 DEF Uncounted, SameAccount
  <2>3. L + faults <= L1 + faults'
    <3>1. CASE Locking(u) \subseteq Locking(u)' /\ faults' >= faults
      BY <1>1, <1>4, <3>1, CountLess
    <3>2. ASSUME NEW r \in Reqs, Locking(u) \subseteq Locking(u)' \cup {r},
                 faults' = faults + 1
          PROVE  L + faults <= L1 + faults'
      <4>1. L <= L1 + 1
        BY <1>4, <3>2, CountGrows
      <4> QED
        BY <1>1, <1>4, <3>2, <4>1
    <3> QED
      BY <1>6, <3>1, <3>2 DEF Uncounted
  <2> HIDE DEF A, A1, B, B1, L, L1, R, M
  <2>4. A1 + B1 + 2 <= M + R + L1 + faults'
    <3>1. M + R \in Nat /\ A + B + 2 <= (M + R) + L + faults
      BY <1>1, <2>2
    <3>2. A1 + B1 + 2 <= (M + R) + L1 + faults'
      BY <1>1, <1>4, <2>1, <2>3, <3>1, SlackArithmetic
    <3> QED
      BY <3>2
  <2> QED
    BY <2>4 DEF A1, B1, L1, R, M
<1>7. CASE Counted(u)
  <2>1. A1 = A + 1 /\ faults' = faults /\ A + B + 2 <= M + R + L + faults
    BY <1>5, <1>7 DEF Counted
  <2>2. PICK r \in Reqs :
          \/ /\ r \in Blind(u) /\ Blind(u)' \subseteq Blind(u) \ {r}
             /\ Locking(u) \subseteq Locking(u)'
          \/ /\ Blind(u)' \subseteq Blind(u)
             /\ r \in Locking(u)' /\ Locking(u) \subseteq Locking(u)' \ {r}
    BY <1>7 DEF Counted
  <2>3. \/ B1 + 1 <= B /\ L <= L1
        \/ B1 <= B /\ L + 1 <= L1
    <3>1. CASE /\ r \in Blind(u) /\ Blind(u)' \subseteq Blind(u) \ {r}
               /\ Locking(u) \subseteq Locking(u)'
      <4>1. B1 + 1 <= B
        BY <1>2, <3>1, CountDrops
      <4>2. L <= L1
        BY <1>4, <3>1, CountLess
      <4> QED
        BY <4>1, <4>2
    <3>2. CASE /\ Blind(u)' \subseteq Blind(u)
               /\ r \in Locking(u)' /\ Locking(u) \subseteq Locking(u)' \ {r}
      <4>1. B1 <= B
        BY <1>2, <3>2, CountLess
      <4>2. L + 1 <= L1
        BY <1>4, <3>2, CountDrops
      <4> QED
        BY <4>1, <4>2
    <3> QED
      BY <2>2, <3>1, <3>2
  <2> HIDE DEF A, A1, B, B1, L, L1, R, M
  <2>4. A1 + B1 + 2 <= M + R + L1 + faults'
    BY <1>1, <1>4, <2>1, <2>3
  <2> QED
    BY <2>4 DEF A1, B1, L1, R, M
<1>8. CASE Cleared(u)
  <2>1. A1 = 0 \/ A1 + 2 <= M
    BY <1>8 DEF Cleared
  <2>2. M < 2 => B1 = 0
    <3>1. \A q \in Reqs : req'[q].attempts \in Nat
      BY NextType DEF Inv, TypeOK, Request
    <3>2. M < 2 => Blind(u)' = {}
      BY <1>1, <3>1 DEF Blind
    <3> QED
      BY <3>2, FS_EmptySet
  <2> HIDE DEF A, A1, B, B1, L, L1, R, M
  <2>3. A1 + B1 + 2 <= M + R
    <3>1. CASE M >= 2
      BY <1>1, <1>4, <2>1, <3>1
    <3>2. CASE M < 2
      BY <1>1, <1>4, <2>1, <2>2, <3>2
    <3> QED
      BY <1>1, <3>1, <3>2
  <2>4. A1 + B1 + 2 <= M + R + L1 + faults'
    <3>1. M + R \in Nat
      BY <1>1
    <3>2. A1 + B1 + 2 <= (M + R) + L1 + faults'
      BY <1>1, <1>4, <2>3, <3>1, SlackArithmetic
    <3> QED
      BY <3>2
  <2> QED
    BY <2>4 DEF A1, B1, L1, R, M
<1>9. CASE Exempt(u)
  BY <1>9 DEF Exempt
<1> QED
  BY <1>6, <1>7, <1>8, <1>9, LockStep

\* Before the first request nothing has been counted.
LEMMA InitSlack == Init => CountedInv /\ SlackInv
<1> SUFFICES ASSUME Init PROVE CountedInv /\ SlackInv
  OBVIOUS
<1>1. CountedInv
  BY DEF Init, Idle, CountedInv
<1>2. ASSUME NEW u \in Users
      PROVE  user[u].attempts + Cardinality(Blind(u)) + 2
                 <= MaxPasswordAttempts + Cardinality(Reqs)
                        + Cardinality(Locking(u)) + faults
  <2>1. user[u].attempts = 0 /\ faults = 0
    BY DEF Init
  <2>2. Blind(u) = {} /\ Locking(u) = {}
    BY DEF Init, Idle, Blind, Locking
  <2>3. Cardinality({}) = 0 /\ Cardinality(Reqs) \in Nat /\ Cardinality(Reqs) >= 1
    BY FS_EmptySet, SlackFinite
  <2>4. MaxPasswordAttempts \in Nat \ {0}
    BY AuthAssumption
  <2> QED
    BY <2>1, <2>2, <2>3, <2>4
<1> QED
  BY <1>1, <1>2 DEF SlackInv

\* The books on the failures in flight bound the counter of an account that is not locked.
LEMMA SlackPromises == Inv /\ SlackInv => LockoutSlack
<1> SUFFICES ASSUME Inv, SlackInv, NEW u \in Users,
                    user[u].lock = "none", ~user[u].deleted
             PROVE  user[u].attempts + 2
                        <= MaxPasswordAttempts + 2 * Cardinality(Reqs) + faults
  BY DEF LockoutSlack
<1>1. user[u].attempts \in Nat /\ faults \in Nat
  BY DEF Inv, TypeOK, Account
<1>2. MaxPasswordAttempts \in Nat
  BY AuthAssumption
<1>3. user[u].attempts + Cardinality(Blind(u)) + 2
          <= MaxPasswordAttempts + Cardinality(Reqs) + Cardinality(Locking(u)) + faults
  BY DEF SlackInv
<1> QED
  BY <1>1, <1>2, <1>3, SlackFinite

\* Wrong passwords that race each other take the counter past the threshold by
\* no more than the requests in flight, each twice, and the faults, before the
\* account is locked.
THEOREM LockoutIsBounded == Spec => []LockoutSlack
  BY SlackPromises, InitSlack, NextCounted, NextSlack, Invariant, PTL DEF Spec
=============================================================================
