---------------------------- MODULE SocialSignIn ----------------------------
(***************************************************************************)
(* Sign-in with GitHub and with Apple (modules/auth/handler/               *)
(* github.handler.go) against the users collection.  A callback looks for  *)
(* the GitHub identity, then for its e-mail address, links or creates an   *)
(* account and issues a session: one call of MongoDB after the other, with *)
(* callbacks, registrations and deletions in between.  The errors of both  *)
(* lookups and of the link are discarded.  Apple's callback ends at its    *)
(* key set, which is fetched but not parsed.                               *)
(***************************************************************************)
EXTENDS Naturals

CONSTANTS
    People,      \* GitHub identities
    Emails, Usernames,
    Login,       \* [People -> Usernames]: the GitHub login, made a username
    Docs,        \* account documents
    Calls,       \* callbacks in flight
    MaxMoves,    \* bound: changes of a GitHub e-mail address
    MaxFaults,   \* bound: calls of Redis, MongoDB or GitHub that fail
    None

VARIABLES
    account,   \* users: [Docs -> None or Account]
    mail,      \* [People -> the verified primary address at GitHub, or None]
    call,      \* the locals of each callback
    keys,      \* Apple's key set: what is cached, and whether it was fetched in the last day
    home,      \* history: the first account each identity signed in to
    apart,     \* history: identities whose link was lost or refused
    crossed,   \* history: pairs of identities whose callbacks overlapped
    ghosts,    \* history: sessions issued for no account
    blind,     \* history: lookups whose error was discarded
    moves, faults

vars == <<account, mail, call, keys, home, apart, crossed, ghosts, blind, moves, faults>>

Account == [email : Emails, username : Usernames, googleId : People \cup {None},
            emailVerified : BOOLEAN, deleted : BOOLEAN]

Idle == [pc |-> "idle", person |-> None, email |-> None, user |-> None]

Init ==
    /\ account = [d \in Docs |-> None]
    /\ mail \in [People -> Emails \cup {None}]
    /\ \A g, h \in People : g # h /\ mail[g] # None => mail[g] # mail[h]
    /\ call = [c \in Calls |-> Idle]
    /\ keys = [cached |-> {}, fresh |-> FALSE]
    /\ home = [g \in People |-> None]
    /\ apart = {} /\ crossed = {}
    /\ ghosts = 0 /\ blind = 0 /\ moves = 0 /\ faults = 0

Fault == faults < MaxFaults /\ faults' = faults + 1

Live(d) == account[d] # None /\ ~account[d].deleted
GoTo(c, label) == call' = [call EXCEPT ![c].pc = label]
Refuse(c) == call' = [call EXCEPT ![c] = Idle]

history == <<home, apart, crossed, ghosts, blind>>

-----------------------------------------------------------------------------
(* GitHub *)

\* The profile at GitHub, and the verified primary address when the profile shows none.
Exchange(c, g) ==
    /\ mail[g] # None
    /\ call' = [call EXCEPT ![c] = [Idle EXCEPT !.pc = "byId", !.person = g, !.email = mail[g]]]

\* A person comes back from GitHub.  A callback that is refused up to here (by an error of
\* Redis or GitHub, or for want of an address) leaves no trace.  Nor does the state that
\* Redirect keeps in Redis: DEL's count is not looked at.
Callback(c, g) ==
    /\ call[c].pc = "idle"
    /\ Exchange(c, g)
    /\ UNCHANGED <<account, mail, keys, history, moves, faults>>

\* findOne: no document is nil, and an error comes with an empty user, whose identifier
\* is that of nobody.
Found(c, d) ==
    call' = [call EXCEPT ![c].user = d,
                 ![c].pc = IF account[d].googleId = None THEN "link" ELSE "issue"]

LookupFails(c) ==
    /\ Fault /\ blind' = blind + 1
    /\ call' = [call EXCEPT ![c].user = None, ![c].pc = "link"]

\* History: the callbacks between their first lookup and their end.
Working == {c \in Calls : call[c].pc \in {"byEmail", "link", "create", "issue"}}
Crossing(c) == crossed \cup UNION {{<<call[c].person, call[b].person>>,
                                    <<call[b].person, call[c].person>>} : b \in Working \ {c}}

\* Bug for comparison: the address is asked first, the identity is not.
AddressFirst(c) ==
    /\ call[c].pc = "byId"
    /\ GoTo(c, "byEmail") /\ crossed' = Crossing(c)
    /\ UNCHANGED <<account, mail, keys, home, apart, ghosts, blind, moves, faults>>

FindByGoogleID(c) ==
    /\ call[c].pc = "byId"
    /\ LET matching == {d \in Docs : Live(d) /\ account[d].googleId = call[c].person}
       IN  \/ \E d \in matching : Found(c, d) /\ UNCHANGED <<blind, faults>>
           \/ matching = {} /\ GoTo(c, "byEmail") /\ UNCHANGED <<blind, faults>>
           \/ LookupFails(c)
    /\ crossed' = Crossing(c)
    /\ UNCHANGED <<account, mail, keys, home, apart, ghosts, moves>>

FindByEmail(c) ==
    /\ call[c].pc = "byEmail"
    /\ LET matching == {d \in Docs : Live(d) /\ account[d].email = call[c].email}
       IN  \/ /\ \E d \in matching :
                    /\ Found(c, d)
                    /\ apart' = IF account[d].googleId \in {None, call[c].person} THEN apart
                                ELSE apart \cup {call[c].person}
              /\ UNCHANGED <<blind, faults>>
           \/ matching = {} /\ GoTo(c, "create") /\ UNCHANGED <<apart, blind, faults>>
           \/ LookupFails(c) /\ UNCHANGED apart
    /\ UNCHANGED <<account, mail, keys, home, crossed, ghosts, moves>>

\* The unique indexes count removed documents too.
Taken(email, username) ==
    \E d \in Docs : account[d] # None /\ (account[d].email = email \/ account[d].username = username)

Inserted(d, email, username, g) ==
    /\ account[d] = None
    /\ account' = [account EXCEPT ![d] = [email |-> email, username |-> username, googleId |-> g,
                                          emailVerified |-> g # None, deleted |-> FALSE]]

\* Bug for comparison: the error of the insert is only logged.
CreateAnyway(c) ==
    /\ call[c].pc = "create"
    /\ IF Taken(call[c].email, Login[call[c].person])
       THEN GoTo(c, "issue") /\ UNCHANGED account
       ELSE \E d \in Docs : /\ Inserted(d, call[c].email, Login[call[c].person], call[c].person)
                            /\ call' = [call EXCEPT ![c].user = d, ![c].pc = "issue"]
    /\ UNCHANGED <<mail, keys, history, moves, faults>>

Create(c) ==
    /\ call[c].pc = "create"
    /\ \/ /\ ~Taken(call[c].email, Login[call[c].person])
          /\ \E d \in Docs : /\ Inserted(d, call[c].email, Login[call[c].person], call[c].person)
                             /\ call' = [call EXCEPT ![c].user = d, ![c].pc = "issue"]
          /\ UNCHANGED faults
       \/ /\ Taken(call[c].email, Login[call[c].person])
          /\ Refuse(c) /\ UNCHANGED <<account, faults>>
       \/ Fault /\ Refuse(c) /\ UNCHANGED account
    /\ UNCHANGED <<mail, keys, history, moves>>

\* Bug for comparison: the address is marked as verified and the identity is not kept.
VerifiedOnly(c, d) == [account EXCEPT ![d].emailVerified = TRUE]

Linked(c, d) == [account EXCEPT ![d].googleId = call[c].person, ![d].emailVerified = TRUE]

\* Update of a live document by its identifier; its error is discarded.
Link(c) ==
    /\ call[c].pc = "link"
    /\ GoTo(c, "issue")
    /\ \/ /\ account' = IF call[c].user # None /\ Live(call[c].user)
                        THEN Linked(c, call[c].user) ELSE account
          /\ UNCHANGED <<apart, faults>>
       \/ Fault /\ apart' = apart \cup {call[c].person} /\ UNCHANGED account
    /\ UNCHANGED <<mail, keys, home, crossed, ghosts, blind, moves>>

\* LoginWithGitHub; Redis may refuse the session.
Issue(c) ==
    /\ call[c].pc = "issue" /\ Refuse(c)
    /\ LET g == call[c].person
       IN  \/ /\ home' = IF home[g] = None /\ call[c].user # None
                         THEN [home EXCEPT ![g] = call[c].user] ELSE home
              /\ ghosts' = IF call[c].user = None THEN ghosts + 1 ELSE ghosts
              /\ UNCHANGED faults
           \/ Fault /\ UNCHANGED <<home, ghosts>>
    /\ UNCHANGED <<account, mail, keys, apart, crossed, blind, moves>>

-----------------------------------------------------------------------------
(* Apple *)

\* getPublicKey, refreshKeys: the time of the fetch is kept, its keys are not, and the
\* token is refused; a failed fetch changes nothing.
AppleCallback ==
    /\ ~(keys.cached # {} /\ keys.fresh)
    /\ \/ keys' = [keys EXCEPT !.fresh = TRUE] /\ UNCHANGED faults
       \/ Fault /\ UNCHANGED keys
    /\ UNCHANGED <<account, mail, call, history, moves>>

KeysExpire ==
    /\ keys.fresh /\ keys' = [keys EXCEPT !.fresh = FALSE]
    /\ UNCHANGED <<account, mail, call, history, moves, faults>>

-----------------------------------------------------------------------------
(* The rest of the system and of the world *)

\* UserService.Create, for a person who registers with a password.
Register(d, email, username) ==
    /\ ~Taken(email, username)
    /\ Inserted(d, email, username, None)
    /\ UNCHANGED <<mail, call, keys, history, moves, faults>>

SoftDelete(d) ==
    /\ Live(d)
    /\ account' = [account EXCEPT ![d].deleted = TRUE]
    /\ UNCHANGED <<mail, call, keys, history, moves, faults>>

\* An address belongs to one GitHub identity at a time.
MoveMail(g, email) ==
    /\ moves < MaxMoves /\ moves' = moves + 1
    /\ email # None => \A h \in People : mail[h] # email
    /\ mail' = [mail EXCEPT ![g] = email]
    /\ UNCHANGED <<account, call, keys, history, faults>>

Next ==
    \/ \E c \in Calls :
          \/ FindByGoogleID(c) \/ FindByEmail(c)
          \/ Create(c) \/ Link(c) \/ Issue(c)
          \/ \E g \in People : Callback(c, g)
    \/ AppleCallback \/ KeysExpire
    \/ \E d \in Docs : SoftDelete(d) \/ \E e \in Emails, n \in Usernames : Register(d, e, n)
    \/ \E g \in People, e \in Emails \cup {None} : MoveMail(g, e)

Spec == Init /\ [][Next]_vars

-----------------------------------------------------------------------------
(* Correctness *)

TypeOK ==
    /\ account \in [Docs -> Account \cup {None}]
    /\ mail \in [People -> Emails \cup {None}]
    /\ home \in [People -> Docs \cup {None}]
    /\ apart \subseteq People /\ crossed \subseteq People \X People
    /\ moves \in 0..MaxMoves /\ faults \in 0..MaxFaults

\* A session is issued for nobody only by a callback whose lookup failed: "findOne"
\* gives an empty user with its error, and the callback discards the error.
GhostBudget == ghosts <= blind

\* The account an identity first signed in to stays the one it is linked to, while that
\* account lives: unless the link could not be written, the account was another's, or
\* another callback was under way ("Try by GitHub ID first, then email").
HomeIsKept ==
    \A g \in People :
        home[g] # None /\ Live(home[g]) =>
            \/ account[home[g]].googleId = g
            \/ g \in apart
            \/ \E h \in People : <<g, h>> \in crossed

\* No index keeps a GitHub identity to one account, but only two callbacks of one person
\* that overlap may link two accounts to it: without those it has one at most.
LinkedOnce ==
    \A d, e \in Docs :
        d # e /\ Live(d) /\ Live(e) /\ account[d].googleId = account[e].googleId =>
            \/ account[d].googleId = None
            \/ <<account[d].googleId, account[d].googleId>> \in crossed
=============================================================================
