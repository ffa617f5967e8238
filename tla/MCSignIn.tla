------------------------------ MODULE MCSignIn ------------------------------
(***************************************************************************)
(* SignIn, for TLC.  The two parts share the model values, which keeps the *)
(* symmetry small.                                                         *)
(***************************************************************************)
EXTENDS SignIn, MCMobileOTP

\* Two people of GitHub, whose logins are the usernames.
Persons == {"g1", "g2"}
Names == {"n1", "n2"}
Logins == [g \in Persons |-> IF g = "g1" THEN "n1" ELSE "n2"]

\* One change of address or one failing lookup.
MCNext == SignInNext /\ (focus = "social" => moves + lookups <= 1)'

MCSpec == SignInInit /\ [][MCNext]_signInVars
=============================================================================
