-------------------------- MODULE SessionLifecycle --------------------------
(***************************************************************************)
(* What a stateful session store promises whoever holds a token: a session *)
(* identifier is opened at most once, for one user, and once it is closed  *)
(* nothing opens it again.                                                 *)
(***************************************************************************)
CONSTANTS Sids, Users, None

VARIABLES life,   \* [Sids -> {"unissued", "live", "closed"}]
          owner   \* [Sids -> Users \cup {None}]

lifeVars == <<life, owner>>

Init == /\ life = [s \in Sids |-> "unissued"]
        /\ owner = [s \in Sids |-> None]

Open(s, u) ==
    /\ life[s] = "unissued"
    /\ life' = [life EXCEPT ![s] = "live"]
    /\ owner' = [owner EXCEPT ![s] = u]

\* Several sessions may be closed at once.
Close(S) ==
    /\ \A s \in S : life[s] = "live"
    /\ life' = [s \in Sids |-> IF s \in S THEN "closed" ELSE life[s]]
    /\ UNCHANGED owner

Next == \/ \E s \in Sids, u \in Users : Open(s, u)
        \/ \E S \in SUBSET Sids : Close(S)

Spec == Init /\ [][Next]_lifeVars
=============================================================================
