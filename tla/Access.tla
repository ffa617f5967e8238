------------------------------- MODULE Access -------------------------------
(***************************************************************************)
(* What lets a request in: the claims of a session and the lock of an      *)
(* account (AuthSession), sign-in with a passkey, API keys, feature flags  *)
(* and the rate limiter; and the lists and reports it then reads.  They    *)
(* share no state: a behaviour follows one of them.                        *)
(***************************************************************************)
EXTENDS AuthSession, Integers, Sequences

CONSTANTS
    Creds, Finishers, MaxCeremonies, MaxSigns,            \* passkeys
    ApiKeyIds, Prefixes, MaxAttempts, Callers, MaxRevokes,  \* API keys
    Flags, Readers, Updaters, Seeded, MaxVersion,         \* feature flags
    Clients, RateLimitRequests, RateLimitWindow, MaxPerTick,  \* the rate limiter
    Entries, GroupValues, Columns, Queries,               \* lists
    DefaultPageSize, LargestPage, GroupDepth, MaxRows, MaxWrites,
    Members, Passkeys, Numbers, Attachment, BackedUp, Admins, Asked,  \* reports
    LastDay, MaxChanges

VARIABLES
    focus,    \* the part this behaviour follows
    passkeys, made, ceremony, issued, op, losses, accepted, shared, reused,
    row, create, revoking, caller, lastUsed, touching, trail, during, revokes, lost, failures,
    flag, version, cached, reader, updater, excused, misses,
    count, ttl, told, counted, served, errors,
    log, q, pc, total, plan, rows, answer, walked, first, writes, late,
    account, nearLock, owner, mobiles, day, cache, admin, changes, mishaps

passkeyVars == <<passkeys, made, ceremony, issued, op, losses, accepted, shared, reused>>
keyVars == <<row, create, revoking, caller, lastUsed, touching, trail, during, revokes, lost,
             failures>>
flagVars == <<flag, version, cached, reader, updater, excused, misses>>
rateVars == <<count, ttl, told, counted, served, errors>>
pagesVars == <<log, q, pc, total, plan, rows, answer, walked, first, writes, late>>
reportsVars == <<account, nearLock, owner, mobiles, day, cache, admin, changes, mishaps>>

accessVars == <<focus, vars, passkeyVars, keyVars, flagVars, rateVars, pagesVars, reportsVars>>

-----------------------------------------------------------------------------
(* The parts *)

Ceremony == INSTANCE Passkey
    WITH Ops <- Finishers, faults <- losses, crossed <- reused

ApiKey == INSTANCE ApiKeys
    WITH Keys <- ApiKeyIds, faults <- failures

Flag == INSTANCE FlagCache WITH faults <- misses

Rate == INSTANCE RateLimit
    WITH Limit <- RateLimitRequests, Window <- RateLimitWindow, faults <- errors

Pages == INSTANCE ListPages
    WITH Records <- Entries, Keys <- GroupValues, GroupFields <- Columns, Requests <- Queries,
         DefaultPerPage <- DefaultPageSize, MaxPerPage <- LargestPage,
         MaxGroupDepth <- GroupDepth, trail <- log

Reports == INSTANCE Analytics
    WITH Users <- Members, Ops <- Admins, Keys <- Asked, op <- admin, faults <- mishaps

\* A limit and a window of zero would count nothing (RATE_LIMIT_REQUESTS, RATE_LIMIT_PERIOD).
ASSUME RateAssumption ==
    RateLimitRequests \in Nat \ {0} /\ RateLimitWindow \in Nat \ {0}

\* Some flags are there from the start, switched on or off; versions are counted up to a bound.
ASSUME FlagAssumption ==
    MaxVersion \in Nat /\ DOMAIN Seeded \subseteq Flags /\ \A f \in DOMAIN Seeded : Seeded[f] \in BOOLEAN

\* A new key is drawn at least once; None is neither a key nor an answer.
ASSUME KeyAssumption ==
    /\ IsFiniteSet(ApiKeyIds) /\ MaxAttempts \in Nat \ {0}
    /\ None \notin [prefix : Prefixes, isActive : BOOLEAN, expired : BOOLEAN]
    /\ None \notin {"invalid", "expired"}

\* The requests that can finish a ceremony are finitely many, and so are the ceremonies.
ASSUME PasskeyAssumption ==
    IsFiniteSet(Finishers) /\ MaxCeremonies \in Nat /\ MaxSigns \in Nat

\* Days are numbered from 1 (0 is never); every report is one the service has.
ASSUME ReportAssumption ==
    /\ IsFiniteSet(Members) /\ IsFiniteSet(Passkeys) /\ IsFiniteSet(Numbers)
    /\ BackedUp \subseteq Passkeys
    /\ None \notin {"active", "blocked"} /\ MaxChanges \in Nat
    /\ \A key \in Asked :
          /\ key.from \in Nat \ {0} /\ key.to \in Nat
          /\ key.report \in {"registrations", "churn", "lockout", "adoption", "mobile",
                             "fraud", "signups", "logins"}

\* Entries and group values are numbers; the default page is one that may be asked for
\* (DefaultPerPage, MaxPerPage); a query is what the endpoint can bind.
ASSUME PageAssumption ==
    /\ IsFiniteSet(Entries) /\ Entries \subseteq Nat /\ GroupValues \subseteq Nat
    /\ DefaultPageSize \in 1..LargestPage /\ LargestPage \in Nat
    /\ MaxRows \in Nat /\ MaxWrites \in Nat
    /\ Queries \subseteq [page : Int, perPage : Int, groupBy : Seq(STRING), groupPaging : BOOLEAN,
                         expandAll : BOOLEAN, exceptions : SUBSET Seq(GroupValues), export : BOOLEAN]

-----------------------------------------------------------------------------

Parts == {"sessions", "passkey", "keys", "flags", "rate", "pages", "reports"}

\* What is not followed is not there; the sessions rest as they began.
AccessInit ==
    /\ focus \in Parts
    /\ Init
    /\ \/ focus = "passkey" /\ Ceremony!Init
       \/ focus # "passkey"
          /\ passkeys = None /\ made = None /\ ceremony = None /\ issued = None /\ op = None
          /\ losses = None /\ accepted = None /\ shared = None /\ reused = None
    /\ \/ focus = "keys" /\ ApiKey!Init
       \/ focus # "keys"
          /\ row = None /\ create = None /\ revoking = None /\ caller = None /\ lastUsed = None
          /\ touching = None /\ trail = None /\ during = None /\ revokes = None /\ lost = None
          /\ failures = None
    /\ \/ focus = "flags" /\ Flag!Init
       \/ focus # "flags"
          /\ flag = None /\ version = None /\ cached = None /\ reader = None /\ updater = None
          /\ excused = None /\ misses = None
    /\ \/ focus = "rate" /\ Rate!Init
       \/ focus # "rate"
          /\ count = None /\ ttl = None /\ told = None /\ counted = None /\ served = None
          /\ errors = None
    /\ \/ focus = "pages" /\ Pages!Init
       \/ focus # "pages" /\ log = None /\ q = None /\ pc = None /\ total = None /\ plan = None
          /\ rows = None /\ answer = None /\ walked = None /\ first = None /\ writes = None
          /\ late = None
    /\ \/ focus = "reports" /\ Reports!Init
       \/ focus # "reports" /\ account = None /\ nearLock = None /\ owner = None
          /\ mobiles = None /\ day = None /\ cache = None /\ admin = None /\ changes = None /\ mishaps = None

Resting(part) ==
    /\ part # "sessions" => UNCHANGED vars
    /\ part # "passkey" => UNCHANGED passkeyVars
    /\ part # "keys" => UNCHANGED keyVars
    /\ part # "flags" => UNCHANGED flagVars
    /\ part # "rate" => UNCHANGED rateVars
    /\ part # "pages" => UNCHANGED pagesVars
    /\ part # "reports" => UNCHANGED reportsVars

Step(part, Action) == focus = part /\ Action /\ Resting(part) /\ UNCHANGED focus

AccessNext ==
    \/ Step("sessions", Next)
    \/ Step("passkey", Ceremony!Next)
    \/ Step("keys", ApiKey!Next)
    \/ Step("flags", Flag!Next)
    \/ Step("rate", Rate!Next)
    \/ Step("pages", Pages!Next)
    \/ Step("reports", Reports!Next)

AccessSpec == AccessInit /\ [][AccessNext]_accessVars

-----------------------------------------------------------------------------
(* What the parts promise *)

\* The types of all.
TypesOK ==
    CASE focus = "passkey" -> Ceremony!TypeOK
      [] focus = "keys" -> ApiKey!TypeOK
      [] focus = "flags" -> Flag!TypeOK
      [] focus = "rate" -> Rate!TypeOK
      [] focus = "pages" -> Pages!TypeOK
      [] focus = "reports" -> Reports!TypeOK
      [] OTHER -> TypeOK

\* PasskeyService: a challenge is accepted again only by requests that had read it together,
\* and the signature count of a credential goes back only when it is used twice at once.
ReplayBudget == focus = "passkey" => Ceremony!ReplayBudget
CountNeverBack == [][focus = "passkey" => Ceremony!CountKept]_passkeyVars

\* APIKeyService: a caller with an active key is refused only if its prefix was drawn twice
\* at once, and the audit trail follows what happened to each key.
KeysAnswer == focus = "keys" => ApiKey!RefusedOnlyIfRaced /\ ApiKey!TrailFollowsTheKeys

\* FeatureFlagService.IsEnabled: the cache is behind the collection only where a fill
\* overlapped an update, a call failed, or the seed script wrote behind it.
StaleOnlyIfRaced == focus = "flags" => Flag!StaleOnlyIfRaced

\* RateLimit: nobody is refused below the limit, and no stretch of time as long as the window
\* lets through more than twice of it.  That is the fixed window of ratelimit.go and weaker
\* than the "sliding-window counter per IP" of src/README.md:58, which would be once the limit.
WindowHolds == focus = "rate" => Rate!RefusedOnlyAtLimit /\ Rate!AtMostTwice

\* The pages a client is led through are the list, each row under the headers of its
\* group but for one row per header and entry that came between the reads, no group's count
\* below the rows shown of it (pagination.GroupPagedFind, GroupedFind).
PagesAreTheList ==
    focus = "pages" => Pages!WalkIsTheList /\ Pages!NoOrphanRows /\ Pages!CountCoversRows

\* A spreadsheet is complete or refused, never cut off (export.Respond).
NoTruncatedExport == [][focus = "pages" => Pages!ExportWhole]_pagesVars

\* A part of a report is not larger than a whole that was counted by more than was added
\* while it was read, and no error is given as a zero but those the service drops
\* (AnalyticsService).
PartsWithinWhole == focus = "reports" => Reports!PartsWithinWhole
=============================================================================
