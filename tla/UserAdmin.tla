----------------------------- MODULE UserAdmin -----------------------------
(***************************************************************************)
(* Accounts as administrators and their owners edit them, and as logins    *)
(* count on them (modules/user, modules/role, the gates of                 *)
(* shared/middleware).  A request is a goroutine; every MongoDB call it    *)
(* makes is one atomic step, and what it read is kept in its locals until  *)
(* it writes.  Profile fields are one name here, email and username follow *)
(* the same path one after the other.  The lock of an account and the      *)
(* session of a login are AuthSession's.                                   *)
(***************************************************************************)
EXTENDS FiniteSets, Naturals, Permissions

CONSTANTS
    Rows,        \* the documents of the users collection, fresh uuids
    Ops,         \* requests in flight together
    Requests,    \* what the requests may ask
    Seeded,      \* the documents there are at the start, [Rows -> document]
    MaxRequests, \* bound on the requests of a behaviour
    MaxFaults,   \* bound on failed calls
    None

VARIABLES
    users,     \* the users collection
    claims,    \* the access token each account holds
    links,     \* accounts with a password-reset token in Redis
    op,        \* the locals of each request
    begun,     \* requests so far
    faults,    \* failed calls so far
    asked,     \* history: the lists the last access change of a row asked for
    crossed    \* history: rows where two access changes overlapped

vars == <<users, claims, links, op, begun, faults, asked, crossed>>

Kept == None         \* a field the request does not give

\* The body of a request of one kind with no field given yet.
Ask(kind) == [kind |-> kind, route |-> "users", role |-> Kept, extra |-> Kept, revoked |-> Kept,
              name |-> Kept, email |-> Kept, username |-> Kept, old |-> "old", new |-> "new"]

Lists == SUBSET AllAssignablePermissions

\* A body that passed the validator; a new account names all its fields.
Request ==
    {q \in [kind : {"create", "update", "password", "reset", "link", "block", "unblock", "delete",
                    "login", "failedLogin"},
            route : {"users", "me", "public"}, role : RoleSlugs \cup {Kept},
            extra : Lists \cup {Kept}, revoked : Lists \cup {Kept},
            name : STRING \cup {Kept}, email : STRING \cup {Kept},
            username : STRING \cup {Kept}, old : STRING, new : STRING] :
        q.kind = "create" =>
            Kept \notin {q.role, q.extra, q.revoked, q.name, q.email, q.username}}

Idle == [pc |-> "idle", req |-> None, actor |-> None, target |-> None, read |-> None]

\* What issueTokenPair signs for a document.
Claimed(u) == [role |-> u.role, perms |-> GrantedBy(u)]

Init ==
    /\ users = Seeded
    /\ claims = [r \in Rows |-> IF Seeded[r] = None THEN None ELSE Claimed(Seeded[r])]
    /\ links = {}
    /\ op = [o \in Ops |-> Idle]
    /\ begun = 0 /\ faults = 0
    /\ asked = [r \in Rows |-> IF Seeded[r] = None THEN None
                               ELSE [extra |-> Seeded[r].extra, revoked |-> Seeded[r].revoked]]
    /\ crossed = {}

-----------------------------------------------------------------------------
(* The gates *)

\* authMw: a token whose session still stands; what became of the account since
\* it was issued is not looked at.
Authenticated(a) == claims[a] # None

\* adminMw: the role slug of the token.
RoleProtected(a) == claims[a].role = "admin"

HasWildcard(a) == PermAll \in claims[a].perms

\* The /me routes take the target from the token, the /users routes from the path, and a
\* login names the account it is for.
Admits(q, a, t) ==
    CASE q.route = "users" -> Authenticated(a) /\ RoleProtected(a)
      [] q.route = "me" -> Authenticated(a) /\ t = a
      [] OTHER -> t = a

-----------------------------------------------------------------------------
(* The repository *)

\* The filter {deletedAt: nil}.
FindByID(r) == users[r] # None /\ ~users[r].deleted

Exists(field, name) == \E r \in Rows : FindByID(r) /\ users[r][field] = name

\* Bug for comparison: deleted accounts free their names.
DuplicateLive(u) == Exists("email", u.email) \/ Exists("username", u.username)

\* The unique indexes know nothing of deletedAt: the name of a deleted account
\* is still taken, which Exists has just denied.
Duplicate(u) ==
    \E r \in Rows : users[r] # None /\ (users[r].email = u.email \/ users[r].username = u.username)

\* Bug for comparison: the filter without deletedAt.
UpdateAny(r, u) == users' = [users EXCEPT ![r] = u]

\* UpdateOne: nothing matches when the row was deleted since, which is no error.  All
\* writers but IncrementPasswordAttempts go through it.
Update(r, u) == users' = IF FindByID(r) THEN [users EXCEPT ![r] = u] ELSE users

-----------------------------------------------------------------------------
(* The service *)

Begins(o, locals) ==
    /\ op[o] = Idle /\ begun < MaxRequests
    /\ op' = [op EXCEPT ![o] = locals]
    /\ begun' = begun + 1

Goes(o, pc) == op' = [op EXCEPT ![o].pc = pc]
Ends(o) == op' = [op EXCEPT ![o] = Idle]

ChangesAccess(q) == q.role # Kept \/ q.extra # Kept \/ q.revoked # Kept
ChangesLists(q) == q.extra # Kept \/ q.revoked # Kept
ListsOf(q) == q.kind = "update" /\ ChangesLists(q)

\* guardAssignableRole: a wildcard actor assigns any role.
GuardAssignableRole(a, role) == HasWildcard(a) \/ role \in AssignableTenantRoles

\* targetFor: only a wildcard actor acts on an administrator's password; the guard is
\* skipped when the role of the target cannot be read.
TargetFor(a, t) ==
    \/ HasWildcard(a) /\ UNCHANGED faults
    \/ ~HasWildcard(a) /\ users[t].role # "admin" /\ UNCHANGED faults
    \/ ~HasWildcard(a) /\ faults < MaxFaults /\ faults' = faults + 1

Given(new, old) == IF new = Kept THEN old ELSE new

\* Bug for comparison: a list that is not given is emptied.
OnlyGiven(q, u) ==
    [u EXCEPT !.extra = IF q.extra = Kept THEN {} ELSE q.extra,
              !.revoked = IF q.revoked = Kept THEN {} ELSE q.revoked]

\* The lists to write: the one that is not given is completed from the document
\* as it was read.
Completed(q, u) ==
    [u EXCEPT !.extra = Given(q.extra, u.extra), !.revoked = Given(q.revoked, u.revoked)]

AllowsPassword(q, t) == users[t].password = q.old /\ q.old # q.new

\* Update checks that nobody changes their own access; a login fails or not by the password
\* of the document it read.
Allows(q, a, t) ==
    CASE q.kind = "update" ->
            /\ ChangesAccess(q) => a # t
            /\ q.role # Kept => GuardAssignableRole(a, q.role)
            /\ ChangesLists(q) =>
                  LET u == Completed(q, users[t]) IN ValidPermissionGrant(u.extra, u.revoked)
      [] q.kind = "password" -> AllowsPassword(q, t)
      [] q.kind = "login" -> users[t].status = "active" /\ users[t].password = q.old
      [] q.kind = "failedLogin" -> users[t].status = "active" /\ users[t].password # q.old
      [] OTHER -> TRUE

\* GetByID, FindByEmail for a login, with the checks made on what it returns.
Read(o, q, a, t) ==
    /\ q.kind # "create"
    /\ Admits(q, a, t) /\ FindByID(t) /\ Allows(q, a, t)
    /\ IF q.kind \in {"reset", "link"} THEN TargetFor(a, t) ELSE UNCHANGED faults
    /\ Begins(o, [pc |-> "write", req |-> q, actor |-> a, target |-> t,
                  read |-> [extra |-> users[t].extra, revoked |-> users[t].revoked]])
    /\ crossed' = crossed \cup
          (IF ListsOf(q) /\ \E p \in Ops : /\ op[p].pc = "write" /\ op[p].target = t
                                          /\ ListsOf(op[p].req)
           THEN {t} ELSE {})
    /\ UNCHANGED <<users, claims, links, asked>>

\* Bug for comparison: each list is written by itself.
UpdatedApart(q, read, u) ==
    [u EXCEPT !.extra = Given(q.extra, @), !.revoked = Given(q.revoked, @),
              !.role = Given(q.role, @), !.name = Given(q.name, @)]

\* $set with the fields the request gives, over the document as it is now. The
\* two lists are always written together.
UpdatedUser(q, read, u) ==
    LET v == IF ChangesLists(q)
             THEN [u EXCEPT !.extra = Completed(q, read).extra,
                            !.revoked = Completed(q, read).revoked]
             ELSE u
    IN  [v EXCEPT !.role = Given(q.role, @), !.name = Given(q.name, @)]

SetFields(q, read, u) ==
    CASE q.kind = "update" -> UpdatedUser(q, read, u)
      [] q.kind = "password" -> [u EXCEPT !.password = q.new]
      [] q.kind = "reset" -> [u EXCEPT !.password = q.new, !.attempts = 0]
      [] q.kind = "login" -> [u EXCEPT !.attempts = 0]
      [] q.kind = "block" -> [u EXCEPT !.status = "blocked"]
      [] q.kind = "unblock" -> [u EXCEPT !.status = "active"]
      [] q.kind = "delete" -> [u EXCEPT !.deleted = TRUE]

\* The write; an update then reads the row again and answers "not found" when it
\* is gone.
Write(o) ==
    /\ op[o].pc = "write" /\ op[o].req.kind \notin {"link", "failedLogin"}
    /\ LET q == op[o].req
           t == op[o].target
       IN  /\ Update(t, SetFields(q, op[o].read, users[t]))
           /\ asked' = IF ListsOf(q) /\ FindByID(t)
                       THEN [asked EXCEPT ![t] = [extra |-> Given(q.extra, @.extra),
                                                  revoked |-> Given(q.revoked, @.revoked)]]
                       ELSE asked
    /\ Ends(o)
    /\ UNCHANGED <<claims, links, begun, faults, crossed>>

\* HandleFailedLogin: the filter is the id alone, a deleted account counts too.
IncrementPasswordAttempts(o) ==
    /\ op[o].pc = "write" /\ op[o].req.kind = "failedLogin"
    /\ users' = [users EXCEPT ![op[o].target].attempts = @ + 1]
    /\ Ends(o)
    /\ UNCHANGED <<claims, links, begun, faults, asked, crossed>>

\* SendSetPasswordLink leaves a token in Redis, whatever became of the row.
Link(o) ==
    /\ op[o].pc = "write" /\ op[o].req.kind = "link"
    /\ links' = links \cup {op[o].target}
    /\ Ends(o)
    /\ UNCHANGED <<users, claims, begun, faults, asked, crossed>>

\* Create: both names are looked up first, each with a call of its own.
CheckEmail(o, q, a) ==
    /\ q.kind = "create" /\ Admits(q, a, None)
    /\ ~Exists("email", q.email)
    /\ Begins(o, [Idle EXCEPT !.pc = "username", !.req = q, !.actor = a])
    /\ UNCHANGED <<users, claims, links, faults, asked, crossed>>

\* The guards come after both look-ups.
CheckUsername(o) ==
    /\ op[o].pc = "username"
    /\ LET q == op[o].req
       IN  IF /\ ~Exists("username", q.username)
              /\ GuardAssignableRole(op[o].actor, q.role)
              /\ ValidPermissionGrant(q.extra, q.revoked)
           THEN Goes(o, "insert") ELSE Ends(o)
    /\ UNCHANGED <<users, claims, links, begun, faults, asked, crossed>>

NewUser(q) ==
    [email |-> q.email, username |-> q.username, role |-> q.role, extra |-> q.extra,
     revoked |-> q.revoked, status |-> "active", password |-> q.new, name |-> q.name,
     attempts |-> 0, deleted |-> FALSE]

\* A duplicate key is an error like any other.
InsertUser(o) ==
    /\ op[o].pc = "insert"
    /\ LET u == NewUser(op[o].req)
       IN  IF Duplicate(u) THEN UNCHANGED <<users, asked>>
           ELSE \E r \in Rows :
                  /\ users[r] = None
                  /\ users' = [users EXCEPT ![r] = u]
                  /\ asked' = [asked EXCEPT ![r] = [extra |-> u.extra, revoked |-> u.revoked]]
    /\ Ends(o)
    /\ UNCHANGED <<claims, links, begun, faults, crossed>>

\* A call fails: the request ends where it is.
Fail(o) ==
    /\ op[o].pc # "idle" /\ faults < MaxFaults
    /\ faults' = faults + 1
    /\ Ends(o)
    /\ UNCHANGED <<users, claims, links, begun, asked, crossed>>

\* A new token for an account, by a sign-in or a refresh (AuthSession).
SignIn(a) ==
    /\ FindByID(a) /\ users[a].status = "active"
    /\ claims' = [claims EXCEPT ![a] = Claimed(users[a])]
    /\ UNCHANGED <<users, links, op, begun, faults, asked, crossed>>

Create(o) ==
    \/ \E q \in Requests, a \in Rows : CheckEmail(o, q, a)
    \/ CheckUsername(o) \/ InsertUser(o)

Next ==
    \/ \E o \in Ops : Create(o) \/ Write(o) \/ IncrementPasswordAttempts(o) \/ Link(o) \/ Fail(o)
    \/ \E o \in Ops, q \in Requests, a, t \in Rows : Read(o, q, a, t)
    \/ \E a \in Rows : SignIn(a)

Spec == Init /\ [][Next]_vars

-----------------------------------------------------------------------------
(* Correctness *)

User == [email : STRING, username : STRING, role : RoleSlugs, extra : Lists, revoked : Lists,
         status : {"active", "blocked"}, password : STRING, name : STRING, attempts : Nat,
         deleted : BOOLEAN]

TypeOK ==
    /\ \A r \in Rows : users[r] = None \/ users[r] \in User
    /\ \A r \in Rows : claims[r] = None \/ claims[r].role \in RoleSlugs
    /\ links \subseteq {r \in Rows : users[r] # None}
    /\ \A o \in Ops : op[o].pc \in {"idle", "write", "username", "insert"}
    /\ begun <= MaxRequests /\ faults <= MaxFaults

\* No permission is ever both granted to and withdrawn from an account: each
\* update validates a pair of lists and writes that pair, so that overlapping
\* updates can lose one another but never mix (UserService.Update, Create).
GrantUnambiguous ==
    \A r \in Rows : users[r] # None => ValidPermissionGrant(users[r].extra, users[r].revoked)

\* An account has the lists that were last asked for it, each list by itself,
\* unless two changes of its lists overlapped.
LostOnlyToOverlap ==
    \A r \in Rows : users[r] # None /\ r \notin crossed =>
        users[r].extra = asked[r].extra /\ users[r].revoked = asked[r].revoked

\* No two accounts ever share an address or a user name, whatever the requests
\* that looked them up see of each other; a deleted account keeps its names.
NamesUnique ==
    \A r, s \in Rows : r # s /\ users[r] # None /\ users[s] # None =>
        users[r].email # users[s].email /\ users[r].username # users[s].username

\* The request is a failed login that has read the account and not yet counted on it.
Counts(o, r) == op[o].pc = "write" /\ op[o].req.kind = "failedLogin" /\ op[o].target = r

\* A deleted account is never changed again, by requests that read it before it was deleted
\* either, but for its counter: each failed login that was under way at the deletion adds
\* one to it at most, and no further one comes (UserRepository.Update,
\* IncrementPasswordAttempts).
DeletedKept ==
    \A r \in Rows : users[r] # None /\ users[r].deleted =>
        /\ \A o \in Ops : Counts(o, r)' => Counts(o, r)
        /\ \/ users'[r] = users[r]
           \/ /\ users'[r] = [users[r] EXCEPT !.attempts = @ + 1]
              /\ \E o \in Ops : Counts(o, r) /\ ~Counts(o, r)'

DeletedIsFinal == [][DeletedKept]_vars
=============================================================================
