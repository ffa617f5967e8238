------------------------------ MODULE MCAccess ------------------------------
(***************************************************************************)
(* Access for TLC: two requests of one account over two sessions; one      *)
(* authenticator, two ceremonies, two answers, one signature each; two API *)
(* keys drawn from two prefixes and one caller; one flag, two readers, two *)
(* updates; one address with a limit of two in three ticks; three entries, *)
(* two columns of two values, every mode of the query; two members over    *)
(* two days and one administrator.  The parts share model values, which    *)
(* keeps the symmetry small.                                               *)
(***************************************************************************)
EXTENDS Access, MCAuthSession

CONSTANT c1

\* The seed script switches the flag off.
Switched == [f \in {c1} |-> FALSE]

\* The passkey is one of the platform.
OnPlatform == [p \in {c1} |-> "platform"]

Query(by, paged, all, except, size, export) ==
    [page |-> 0, perPage |-> size, groupBy |-> by, groupPaging |-> paged, expandAll |-> all,
     exceptions |-> except, export |-> export]

\* Every mode: plain, grouped, group-paged with groups open and closed, the export.
EveryMode ==
    {Query(<<>>, paged, FALSE, {}, size, FALSE) : paged \in BOOLEAN, size \in {0, 1}}
    \cup {Query(by, FALSE, FALSE, {}, size, FALSE) :
             by \in {<<"action">>, <<"risk", "action">>, <<"risk", "risk">>}, size \in {1, 2}}
    \cup {Query(<<"risk", "action">>, TRUE, all, except, size, FALSE) :
             all \in BOOLEAN, size \in {1, 2, 9},
             except \in {{}, {<<1>>}, {<<0>>}, {<<0>>, <<0, 1>>}, {<<0>>, <<1>>, <<1, 0>>}}}
    \cup {Query(<<"action">>, TRUE, TRUE, {}, 1, TRUE)}

\* Every report over both days; the churn also with the days to come.
EveryReport ==
    {[report |-> r, from |-> 1, to |-> 2] :
        r \in {"registrations", "lockout", "adoption", "mobile", "fraud", "signups", "logins"}}
    \cup {[report |-> "churn", from |-> 1, to |-> t] : t \in {2, 3}}

-----------------------------------------------------------------------------
(* Bounds *)

\* Two sessions while the access of the account changes ("claims"), or wrong passwords
\* beside one sign-in ("lockout").
VARIABLE view

Views == {"claims", "lockout"}

WithinClaims == \A r \in Reqs : req[r].pc # "count"

WithinLockout ==
    /\ \A u \in Users : user[u].grant = RegisteredGrant
    /\ Cardinality({s \in Sids : token[s] # None}) <= 1

\* The administrator asks for another report when the last has left the cache.
OneReport == \A a \in Admins, k \in Asked : cache[k] # None => admin[a].key = k

MCInit ==
    /\ AccessInit
    /\ view \in Views /\ (focus # "sessions" => view = "claims")

MCNext ==
    /\ AccessNext /\ UNCHANGED view
    /\ focus = "sessions" => IF view = "claims" THEN WithinClaims' ELSE WithinLockout'
    /\ focus = "reports" => OneReport'

MCSpec == MCInit /\ [][MCNext]_<<accessVars, view>>
=============================================================================
