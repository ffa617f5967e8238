----------------------------- MODULE Bootstrap -----------------------------
(***************************************************************************)
(* How a database comes by its system roles and first accounts: the seed   *)
(* script, the migration script and every boot of an API instance write    *)
(* them independently and in any order (scripts/seed, scripts/migrate,     *)
(* RoleRepository.EnsureRoles).  A document's _id is the pair of the       *)
(* process that made it and its key.  An upsert looks its key up and then  *)
(* writes; only a unique index makes the two steps one.                    *)
(***************************************************************************)
EXTENDS FiniteSets, Naturals, Sequences, SequencesExt

CONSTANTS
    Apis,         \* instances of the API
    Seeds,        \* runs of the seed script
    Migration,    \* the run of the migration script
    SystemSlugs,  \* the slugs of the system roles, in the order they are written
    Accounts,     \* the accounts of the seed, in order; each holds the role of its name
    Releases,     \* versions of SystemSlugs an instance may carry
    MaxBoots,     \* bound on boots
    MaxFaults,    \* bound on failed calls
    None

VARIABLES
    roles,      \* SUBSET [id, slug, perms], perms by the release that wrote them
    slugIndex,  \* the name of the unique index on roles.slug, or None
    users,      \* SUBSET [id, email, role, password]
    userIndex,  \* the unique index on users.email is there
    proc,       \* [processes -> [pc, n, seen, release]]: the n-th document is next
    boots,
    faults,
    kept        \* history: the writes of a seed run that inserted nothing

vars == <<roles, slugIndex, users, userIndex, proc, boots, faults, kept>>

Slugs == ToSet(SystemSlugs)
Procs == Apis \cup Seeds \cup {Migration}

Init ==
    /\ roles = {} /\ slugIndex = None
    /\ users = {} /\ userIndex = FALSE
    /\ proc = [p \in Procs |-> [pc |-> "off", n |-> 1, seen |-> FALSE, release |-> 1]]
    /\ boots = 0 /\ faults = 0 /\ kept = {}

At(p, pc) == proc[p].pc = pc
Goto(p, pc, n) == proc' = [proc EXCEPT ![p].pc = pc, ![p].n = n, ![p].seen = FALSE]

\* A loop over `list`: its next element, and `next` after the last.
Loop(p, list, next) ==
    IF proc[p].n < Len(list) THEN Goto(p, proc[p].pc, proc[p].n + 1) ELSE Goto(p, next, 1)

Fault == faults < MaxFaults /\ faults' = faults + 1

Unique(docs, Key(_)) == \A d, e \in docs : Key(d) = Key(e) => d = e
SlugOf(d) == d.slug
EmailOf(d) == d.email

-----------------------------------------------------------------------------
(* Upserts *)

Roles(s) == {d \in roles : d.slug = s}
UsersOf(e) == {u \in users : u.email = e}

\* The first half of an upsert where no index holds the key: it found nothing.
LookUp(p) ==
    /\ ~proc[p].seen
    /\ \/ At(p, "roles") /\ slugIndex = None /\ Roles(SystemSlugs[proc[p].n]) = {}
       \/ At(p, "users") /\ ~userIndex /\ UsersOf(Accounts[proc[p].n]) = {}
    /\ proc' = [proc EXCEPT ![p].seen = TRUE]
    /\ UNCHANGED <<roles, slugIndex, users, userIndex, boots, faults, kept>>

\* The second half; an index sends an upsert that lost the race back to the match.
Ready(p, docs, indexed) == indexed \/ docs # {} \/ proc[p].seen
Inserts(p, docs, indexed) == docs = {} \/ (proc[p].seen /\ ~indexed)

-----------------------------------------------------------------------------
(* Boot of an API instance *)

\* main and New, up to EnsureRoles: MongoDB and Redis answered.
Boot(a, r) ==
    /\ At(a, "off") /\ boots < MaxBoots
    /\ boots' = boots + 1
    /\ proc' = [proc EXCEPT ![a] = [pc |-> "index", n |-> 1, seen |-> FALSE, release |-> r]]
    /\ UNCHANGED <<roles, slugIndex, users, userIndex, faults, kept>>

\* An index under one name: the same key under another name is refused, and so is
\* a unique index over documents that are not.
CanIndex(name) == slugIndex \in {None, name} /\ Unique(roles, SlugOf)

\* Bug for comparison: the roles are written whether or not there is an index.
NoIndexNeeded(a) ==
    /\ At(a, "index")
    /\ Goto(a, "roles", 1)
    /\ UNCHANGED <<roles, slugIndex, users, userIndex, boots, faults, kept>>

\* An error ends EnsureRoles, and New only warns of it.
CreateSlugIndex(a) ==
    /\ At(a, "index")
    /\ \/ /\ CanIndex("idx_role_slug")
          /\ slugIndex' = "idx_role_slug"
          /\ Goto(a, "roles", 1)
          /\ UNCHANGED faults
       \/ /\ ~CanIndex("idx_role_slug")
          /\ Goto(a, "serving", 1)
          /\ UNCHANGED <<slugIndex, faults>>
       \/ Fault /\ Goto(a, "serving", 1) /\ UNCHANGED slugIndex
    /\ UNCHANGED <<roles, users, userIndex, boots, kept>>

\* Bug for comparison: the id is written on every boot.
Replaced(docs, doc) == {doc}

\* $set of the permissions, _id on insert only.
Refreshed(docs, doc) == IF docs = {} THEN {doc} ELSE {[d EXCEPT !.perms = doc.perms] : d \in docs}

EnsureRole(a) ==
    /\ At(a, "roles")
    /\ LET s == SystemSlugs[proc[a].n]
           doc == [id |-> <<a, s>>, slug |-> s, perms |-> proc[a].release]
       IN  \/ /\ Ready(a, Roles(s), slugIndex # None)
              /\ roles' = (roles \ Roles(s)) \cup
                    IF Inserts(a, Roles(s), slugIndex # None)
                    THEN Roles(s) \cup {doc} ELSE Refreshed(Roles(s), doc)
              /\ Loop(a, SystemSlugs, "serving")
              /\ UNCHANGED faults
           \/ Fault /\ Goto(a, "serving", 1) /\ UNCHANGED roles
    /\ UNCHANGED <<slugIndex, users, userIndex, boots, kept>>

Stop(a) ==
    /\ At(a, "serving")
    /\ Goto(a, "off", 1)
    /\ UNCHANGED <<roles, slugIndex, users, userIndex, boots, faults, kept>>

-----------------------------------------------------------------------------
(* The migration script: users first, then roles.  A collection whose indexes
   cannot be made is reported and skipped. *)

MigrateUsers ==
    /\ At(Migration, "off")
    /\ Goto(Migration, "roles", 1)
    /\ \/ userIndex' = Unique(users, EmailOf) /\ UNCHANGED faults
       \/ Fault /\ UNCHANGED userIndex
    /\ UNCHANGED <<roles, slugIndex, users, boots, kept>>

MigrateRoles ==
    /\ At(Migration, "roles")
    /\ Goto(Migration, "end", 1)
    /\ slugIndex' = IF CanIndex("idx_slug_unique") THEN "idx_slug_unique" ELSE slugIndex
    /\ UNCHANGED <<roles, users, userIndex, boots, faults, kept>>

-----------------------------------------------------------------------------
(* The seed script *)

StartSeed(p) ==
    /\ At(p, "off")
    /\ Goto(p, "roles", 1)
    /\ UNCHANGED <<roles, slugIndex, users, userIndex, boots, faults, kept>>

\* Bug for comparison: the server makes the id up when it inserts.
ServerId(p, s) == <<None, s>>

\* The id seedRoles hands on is the one it made up, inserted or not.
SeededId(p, s) == <<p, s>>

\* What is written when a role or an account is inserted.
RoleDoc(p, s) == [id |-> SeededId(p, s), slug |-> s, perms |-> 1]

\* A failure is reported and the next document follows.
SeedRole(p) ==
    /\ At(p, "roles") /\ p \in Seeds
    /\ LET s == SystemSlugs[proc[p].n]
           inserts == Inserts(p, Roles(s), slugIndex # None)
       IN  /\ \/ /\ Ready(p, Roles(s), slugIndex # None)
                 /\ roles' = roles \cup {d \in {RoleDoc(p, s)} : inserts}
                 /\ kept' = kept \cup {x \in {<<p, s>>} : ~inserts}
                 /\ UNCHANGED faults
              \/ Fault /\ kept' = kept \cup {<<p, s>>} /\ UNCHANGED roles
           /\ Loop(p, SystemSlugs, "users")
    /\ UNCHANGED <<slugIndex, users, userIndex, boots>>

\* Bug for comparison: an account seeded again is put back.
Reset(docs, doc) == IF docs = {} THEN {doc} ELSE {[d EXCEPT !.password = "seeded"] : d \in docs}

\* $setOnInsert of the whole document.
UpsertUser(docs, doc) == IF docs = {} THEN {doc} ELSE docs

SeedUser(p) ==
    /\ At(p, "users")
    /\ LET e == Accounts[proc[p].n]
           doc == [id |-> <<p, e>>, email |-> e, role |-> <<p, e>>, password |-> "seeded"]
       IN  /\ \/ /\ Ready(p, UsersOf(e), userIndex)
                 /\ users' = (users \ UsersOf(e)) \cup
                       IF Inserts(p, UsersOf(e), userIndex)
                       THEN UsersOf(e) \cup {doc} ELSE UpsertUser(UsersOf(e), doc)
                 /\ UNCHANGED faults
              \/ Fault /\ UNCHANGED users
           /\ Loop(p, Accounts, "end")
    /\ UNCHANGED <<roles, slugIndex, userIndex, boots, kept>>

-----------------------------------------------------------------------------
(* The owner of a seeded account changes its password through an instance. *)
ChangePassword(u) ==
    /\ \E a \in Apis : At(a, "serving")
    /\ u.password = "seeded"
    /\ users' = (users \ {u}) \cup {[u EXCEPT !.password = "own"]}
    /\ UNCHANGED <<roles, slugIndex, userIndex, proc, boots, faults, kept>>

Next ==
    \/ \E a \in Apis : \/ \E r \in Releases : Boot(a, r)
                       \/ CreateSlugIndex(a) \/ EnsureRole(a) \/ Stop(a)
    \/ MigrateUsers \/ MigrateRoles
    \/ \E p \in Seeds : StartSeed(p) \/ SeedRole(p) \/ SeedUser(p)
    \/ \E p \in Apis \cup Seeds : LookUp(p)
    \/ \E u \in users : ChangePassword(u)

Spec == Init /\ [][Next]_vars

-----------------------------------------------------------------------------
(* Correctness *)

TypeOK ==
    /\ \A d \in roles : d.slug \in Slugs /\ d.id \in Procs \X Slugs /\ d.perms \in Releases
    /\ slugIndex \in {None, "idx_role_slug", "idx_slug_unique"} /\ userIndex \in BOOLEAN
    /\ \A p \in Procs : proc[p].pc \in {"off", "index", "roles", "serving", "users", "end"}
    /\ boots <= MaxBoots /\ faults <= MaxFaults

\* The identity of a role, and so every reference to it, survives all later boots,
\* seeds and migrations in any order (the comment of EnsureRoles).
IdentityKept == \A d \in roles : \E e \in roles' : e.id = d.id /\ e.slug = d.slug

RoleIdentity == [][IdentityKept]_vars

\* Seeding again, whatever else runs, never undoes what the owner did to a seeded
\* account (seedUser: $setOnInsert only).
OwnAccountKept == \A u \in users : u.password = "own" => u \in users'

OwnPasswordKept == [][OwnAccountKept]_vars

\* Two documents of one role come of overlapping seed runs only: instances boot
\* together, and beside a seed run, without ever making a second one, because
\* EnsureRoles has the index before it writes.
TwinsAreSeeded ==
    \A d, e \in roles : d.slug = e.slug /\ d # e => d.id[1] \in Seeds /\ e.id[1] \in Seeds

\* A seeded account names a role that exists, unless its seed run failed to write
\* that role or found the role made by somebody else.
DanglesOnlyIfOvertaken ==
    \A u \in users : (\E d \in roles : d.id = u.role) \/ u.role \in kept
=============================================================================
