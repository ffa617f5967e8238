------------------------------ MODULE Records ------------------------------
(***************************************************************************)
(* What is written for others to find: the subscriptions of the hub, the   *)
(* notifications and devices of a user, the accounts an administrator      *)
(* keeps, the roles and accounts every start seeds.  They share no state:  *)
(* a behaviour follows one of them, and the others rest.                   *)
(***************************************************************************)
EXTENDS RealtimeHub

CONSTANTS
    Calls,            \* calls in flight, of the notifications and of the accounts
    Users, Tokens, NoticeRequests, MutedKeys, MaxChanges,        \* Notification
    Rows, AdminRequests, Seeded, MaxRequests,                    \* UserAdmin
    Instances, SeedRuns, Migration, SystemSlugs, Accounts, Releases, MaxBoots, \* Bootstrap
    MaxFaults         \* bound on the failed calls of a part

VARIABLES
    focus,    \* the part this behaviour follows
    prefs, device, inbox, op, choice, holder, optedOut, held, reached, refused, changes,
    users, claims, links, request, begun, faults, asked, crossed,
    roles, slugIndex, accounts, userIndex, proc, boots, failures, kept

noticeVars == <<prefs, device, inbox, op, choice, holder, optedOut, held, reached, refused,
                changes>>
adminVars == <<users, claims, links, request, begun, faults, asked, crossed>>
bootVars == <<roles, slugIndex, accounts, userIndex, proc, boots, failures, kept>>
recordsVars == <<focus, vars, noticeVars, adminVars, bootVars>>

Notice == INSTANCE Notification WITH Ops <- Calls, Requests <- NoticeRequests

Admin == INSTANCE UserAdmin WITH Ops <- Calls, Requests <- AdminRequests, op <- request

Boot == INSTANCE Bootstrap
    WITH Apis <- Instances, Seeds <- SeedRuns, users <- accounts, faults <- failures

\* No token has the name of a way a notice goes; calls are what the service is called with.
ASSUME NoticeAssumption ==
    /\ None \notin Users /\ Tokens \cap {"email", "live"} = {}
    /\ NoticeRequests \subseteq Notice!Request

\* The accounts there at first differ in address and name, and their permissions are valid.
ASSUME AdminAssumption ==
    /\ None \notin Rows /\ None \notin Admin!User
    /\ AdminRequests \subseteq Admin!Request
    /\ Seeded \in [Rows -> Admin!User \cup {None}]
    /\ \A r \in Rows : Seeded[r] # None =>
          Admin!ValidPermissionGrant(Seeded[r].extra, Seeded[r].revoked)
    /\ \A r, s \in Rows : r # s /\ Seeded[r] # None /\ Seeded[s] # None =>
          Seeded[r].email # Seeded[s].email /\ Seeded[r].username # Seeded[s].username
    /\ MaxRequests \in Nat

\* Every account of the seed holds one of the roles of the seed.
ASSUME BootAssumption ==
    /\ Instances \cap SeedRuns = {} /\ Migration \notin Instances \cup SeedRuns
    /\ SystemSlugs \in Seq(STRING) /\ SystemSlugs # <<>>
    /\ Accounts \in Seq(Boot!Slugs) /\ Accounts # <<>>
    /\ 1 \in Releases
    /\ None \notin {"idx_role_slug", "idx_slug_unique"}
    /\ MaxBoots \in Nat /\ MaxFaults \in Nat

-----------------------------------------------------------------------------

\* What is not followed is not there; the hub rests as it began.
RecordsInit ==
    /\ focus \in {"hub", "notice", "admin", "boot"}
    /\ Init
    /\ \/ focus = "notice" /\ Notice!Init
       \/ focus # "notice" /\ prefs = None /\ device = None /\ inbox = None /\ op = None
          /\ choice = None /\ holder = None /\ optedOut = None /\ held = None
          /\ reached = None /\ refused = None /\ changes = None
    /\ \/ focus = "admin" /\ Admin!Init
       \/ focus # "admin" /\ users = None /\ claims = None /\ links = None /\ request = None
          /\ begun = None /\ faults = None /\ asked = None /\ crossed = None
    /\ \/ focus = "boot" /\ Boot!Init
       \/ focus # "boot" /\ roles = None /\ slugIndex = None /\ accounts = None
          /\ userIndex = None /\ proc = None /\ boots = None /\ failures = None /\ kept = None

Resting(part) ==
    /\ part # "hub" => UNCHANGED vars
    /\ part # "notice" => UNCHANGED noticeVars
    /\ part # "admin" => UNCHANGED adminVars
    /\ part # "boot" => UNCHANGED bootVars

Step(part, Action) == focus = part /\ Action /\ Resting(part) /\ UNCHANGED focus

RecordsNext ==
    \/ Step("hub", Next)
    \/ Step("notice", Notice!Next)
    \/ Step("admin", Admin!Next)
    \/ Step("boot", Boot!Next)

RecordsSpec == RecordsInit /\ [][RecordsNext]_recordsVars

-----------------------------------------------------------------------------
(* What the parts promise *)

\* The types of all four.
TypesOK ==
    CASE focus = "notice" -> Notice!TypeOK
      [] focus = "admin" -> Admin!TypeOK
      [] focus = "boot" -> Boot!TypeOK
      [] OTHER -> TypeOK

\* NotificationService: a push reaches a device its user had registered while the call
\* ran; a device stays active while its holder keeps it, unless FCM refused its token;
\* what a user switched off stays off and a later send heeds it.
NoticesReachTheRight ==
    focus = "notice" =>
        Notice!PushReachesHolder /\ Notice!SilencedOnlyIfRefused /\ Notice!OptOutKept

\* README: per-user preferences control which channels a notification type is delivered
\* through.
OptOutHonoured == focus = "notice" => Notice!OptOutHonoured

\* UserService: no permission is both granted and withdrawn, nobody shares an address or a
\* name, and a list that was asked for is there unless two changes of it overlapped.
AccountsSound ==
    focus = "admin" => Admin!GrantUnambiguous /\ Admin!NamesUnique /\ Admin!LostOnlyToOverlap

\* UserRepository.Update: a deleted account is never changed again, but for the failed
\* logins that were under way, which count on it (IncrementPasswordAttempts has no filter).
DeletedIsFinal == [][focus = "admin" => Admin!DeletedKept]_adminVars

\* RoleRepository.EnsureRoles, seedUser: a role keeps its id through every later start,
\* and seeding again leaves alone what the owner of a seeded account changed.
SeedingKeeps == [][focus = "boot" => Boot!IdentityKept /\ Boot!OwnAccountKept]_bootVars

\* Only overlapping seed runs make two documents of one role, and a seeded account names
\* a role that exists unless its seed run failed to write the role or found it made by
\* somebody else, as it does after a boot.
SeedsMatch == focus = "boot" => Boot!TwinsAreSeeded /\ Boot!DanglesOnlyIfOvertaken
=============================================================================
