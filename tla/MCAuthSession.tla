--------------------------- MODULE MCAuthSession ---------------------------
EXTENDS AuthSession, TLC

\* The access of a self-registered account, and of a member an administrator
\* has given one permission and taken one from.
TwoGrants ==
    {RegisteredGrant,
     [role |-> "member", extra |-> {"audit:read"}, revoked |-> {"users:read"}]}

OneGrant == {RegisteredGrant}

\* Wrong passwords are counted before there is a session (MCAccess has them beside one).
CountedAlone ==
    \/ \A s \in Sids : token[s] = None
    \/ /\ \A u \in Users : user[u].attempts = 0 /\ user[u].lock = "none"
       /\ \A r \in Reqs : req[r].pc # "count"

Symmetry == Permutations(Reqs) \cup Permutations(Sids)
=============================================================================
