----------------------------- MODULE MCRecords -----------------------------
(***************************************************************************)
(* Records for TLC.  The publishers of the hub are also the calls of the   *)
(* other parts and the runs of the seed script, the topics the instances,  *)
(* which keeps the symmetry small.                                         *)
(***************************************************************************)
EXTENDS Records, TLC

CONSTANTS r1, r2, r3    \* documents of the users collection

Symmetry == Permutations(Publishers) \cup Permutations(Topics)

-----------------------------------------------------------------------------
(* Notifications: two users, one device, two calls and two changes *)

Send(kind, type, channel, to) == [kind |-> kind, type |-> type, channel |-> channel, to |-> to]

Sends ==
    {Send("send", "promotion", "push", {"u1"}), Send("send", "alert", "silent", {"u1"}),
     Send("send", "alert", "email", {"u1"}), Send("send", "alert", "in_app", {"u1"}),
     Send("broadcast", "alert", "push", {"u1", "u2"}),
     Send("broadcast", "alert", "email", {"u1", "u2"}),
     Send("preferences", None, None, {"u1"})}

Muted == {<<"any", "push">>}

\* The calls that nobody competes with run alone, and one of two is a broadcast at most.
Contended ==
    \A o, p \in Calls : o # p =>
        /\ op[o].req.channel \in {"email", "in_app", "silent"} => op[p].pc = "idle"
        /\ op[o].req.kind = "broadcast" => op[p].req.kind # "broadcast"

-----------------------------------------------------------------------------
(* Accounts: an administrator, a user and a free document; every kind of request,
   one failing call *)

Documents == {r1, r2, r3}

Doc(n, role) == [email |-> n, username |-> n, role |-> role, extra |-> {}, revoked |-> {},
                 status |-> "active", password |-> "old", name |-> n, attempts |-> 0,
                 deleted |-> FALSE]

SeededAccounts == (r1 :> Doc("a", "admin")) @@ (r2 :> Doc("b", "user")) @@ (r3 :> None)

Ask(kind) == [kind |-> kind, route |-> "users", role |-> None, extra |-> None, revoked |-> None,
              name |-> None, email |-> None, username |-> None, old |-> "old", new |-> "new"]

Create(email, name, extra) ==
    [Ask("create") EXCEPT !.email = email, !.username = name, !.name = name, !.role = "user",
                          !.extra = extra, !.revoked = {}]

AdminAsks ==
    {[Ask("update") EXCEPT !.extra = {"audit:read"}],
     [Ask("update") EXCEPT !.revoked = {"audit:read"}],
     [Ask("update") EXCEPT !.extra = {}],
     [Ask("update") EXCEPT !.role = "admin"],
     [Ask("update") EXCEPT !.route = "me", !.name = "x", !.role = "admin"],
     [Ask("update") EXCEPT !.route = "me", !.name = "x"],
     [Ask("password") EXCEPT !.route = "me"],
     Ask("reset"), Ask("link"), Ask("block"), Ask("unblock"), Ask("delete"),
     [Ask("login") EXCEPT !.route = "public"],
     [Ask("failedLogin") EXCEPT !.route = "public", !.old = "guess"],
     Create("c", "c", {}), Create("b", "d", {"audit:read"})}

-----------------------------------------------------------------------------
(* Seeding: two instances of the API with two releases of the roles, two runs of the
   seed script, the migration, and boots and failures together two *)

RolesInOrder == <<"admin", "user">>

MCNext ==
    /\ RecordsNext
    /\ focus = "notice" => Contended'
    /\ focus = "boot" => (boots + failures <= 2)'

MCSpec == RecordsInit /\ [][MCNext]_recordsVars
=============================================================================
