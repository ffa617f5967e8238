------------------------------- MODULE SignIn -------------------------------
(***************************************************************************)
(* How a person proves who she is: the one-time codes of a phone number    *)
(* (MobileOTP) and the sign-in with a GitHub identity (SocialSignIn).  The *)
(* two share no state: a behaviour follows one of them.                    *)
(***************************************************************************)
EXTENDS MobileOTP

CONSTANTS People, Emails, Usernames, Login, Docs, Callbacks, MaxMoves, MaxLookups

VARIABLES
    focus,    \* the part this behaviour follows
    account, mail, call, keys, home, apart, crossed, ghosts, blind, moves, lookups

socialVars == <<account, mail, call, keys, home, apart, crossed, ghosts, blind, moves, lookups>>

signInVars == <<focus, vars, socialVars>>

Social == INSTANCE SocialSignIn
    WITH Calls <- Callbacks, MaxFaults <- MaxLookups, faults <- lookups

\* None identifies nothing; every person has a login at GitHub.
ASSUME SocialAssumption ==
    /\ None \notin People \cup Emails \cup Usernames \cup Docs
    /\ None \notin Social!Account
    /\ Login \in [People -> Usernames]
    /\ IsFiniteSet(Callbacks)
    /\ MaxMoves \in Nat /\ MaxLookups \in Nat

-----------------------------------------------------------------------------

\* Numbers may have been verified before: the states a run without any overlap
\* reaches, so that the interesting overlaps are near.
WarmInit ==
    /\ otp = [n \in Numbers |-> NoOTP]
    /\ mobile \in [Numbers -> [owner : Users \cup {None}, isPrimary : {FALSE}]]
    /\ req = [r \in Reqs |-> Idle]
    /\ faults = 0
    /\ issued = {}
    /\ tried = [c \in Codes |-> 0]
    /\ accepted = [c \in Codes |-> 0]
    /\ takeovers = [u \in Users |-> 0]

\* What is not followed is not there, or rests as it began.
SignInInit ==
    \/ focus = "mobile" /\ WarmInit
       /\ account = None /\ mail = None /\ call = None /\ keys = None /\ home = None
       /\ apart = None /\ crossed = None /\ ghosts = None /\ blind = None /\ moves = None
       /\ lookups = None
    \/ focus = "social" /\ Init /\ Social!Init

SignInNext ==
    \/ focus = "mobile" /\ Next /\ UNCHANGED <<focus, socialVars>>
    \/ focus = "social" /\ Social!Next /\ UNCHANGED <<focus, vars>>

SignInSpec == SignInInit /\ [][SignInNext]_signInVars

-----------------------------------------------------------------------------

\* The types of both.
TypesOK == TypeOK /\ (focus = "social" => Social!TypeOK)

\* GitHubHandler.Callback: a session for no account is issued only where the error of a
\* lookup is dropped; an identity keeps coming back to the account it first signed in to,
\* and two accounts are linked to one identity only by overlapping callbacks of it.
IdentityKeepsAccount ==
    focus = "social" => Social!GhostBudget /\ Social!HomeIsKept /\ Social!LinkedOnce
=============================================================================
