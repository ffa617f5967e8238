----------------------------- MODULE RateLimit ------------------------------
(***************************************************************************)
(* The fixed-window limiter in front of every route (shared/middleware,    *)
(* RateLimiter): one counter in Redis for each caller address, counted and *)
(* given its expiry by one script.  Time passes in ticks; the last Window  *)
(* of them are remembered by their age, to say what a caller got.          *)
(***************************************************************************)
EXTENDS FiniteSets, Naturals

CONSTANTS
    Clients,     \* client addresses
    Limit,       \* max
    Window,      \* window, in ticks
    MaxPerTick,  \* bound on the scripts run for a client in one tick
    MaxFaults    \* bound on scripts that fail and on keys Redis loses

VARIABLES
    count,   \* [Clients -> Nat], 0 without a key
    ttl,     \* ticks until the key expires
    told,    \* what each client was last told in this tick
    counted, \* history: [Clients -> [age -> scripts run]]
    served,  \* history: [Clients -> [age -> requests let through]]
    faults

vars == <<count, ttl, told, counted, served, faults>>

Ages == 0..(Window - 1)
Nothing == [a \in Ages |-> 0]
Total(h) == Cardinality(UNION {{a} \X (1..h[a]) : a \in Ages})

Init ==
    /\ count = [c \in Clients |-> 0] /\ ttl = [c \in Clients |-> 0]
    /\ told = [c \in Clients |-> "nothing"]
    /\ counted = [c \in Clients |-> Nothing] /\ served = [c \in Clients |-> Nothing]
    /\ faults = 0

Fault == faults < MaxFaults /\ faults' = faults + 1

-----------------------------------------------------------------------------

\* Bug for comparison: every request pushes the window forward.
ExpireEach(c) == Window

\* EXPIRE only when INCR has made the key.
Expiry(c) == IF count[c] = 0 THEN Window ELSE ttl[c]

IncrWithWindow(c) ==
    /\ count' = [count EXCEPT ![c] = @ + 1]
    /\ ttl' = [ttl EXCEPT ![c] = Expiry(c)]
    /\ counted' = [counted EXCEPT ![c][0] = @ + 1]

\* Bug for comparison: the count is taken for the one before this request.
OverBefore(n) == n > Limit + 1

Over(n) == n > Limit

Tell(c, verdict) ==
    /\ told' = [told EXCEPT ![c] = verdict]
    /\ served' = [served EXCEPT ![c][0] = IF verdict = "passed" THEN @ + 1 ELSE @]

\* The middleware: an error lets the request through, whether or not the script ran.
Request(c) ==
    /\ counted[c][0] < MaxPerTick
    /\ \/ /\ IncrWithWindow(c)
          /\ Tell(c, IF Over(count'[c]) THEN "refused" ELSE "passed")
          /\ UNCHANGED faults
       \/ /\ Fault
          /\ IncrWithWindow(c) \/ UNCHANGED <<count, ttl, counted>>
          /\ Tell(c, "passed")

Later(h) == [a \in Ages |-> IF a = 0 THEN 0 ELSE h[a - 1]]

\* A tick: keys run out.
Tick ==
    /\ ttl' = [c \in Clients |-> IF ttl[c] = 0 THEN 0 ELSE ttl[c] - 1]
    /\ count' = [c \in Clients |-> IF ttl[c] <= 1 THEN 0 ELSE count[c]]
    /\ told' = [c \in Clients |-> "nothing"]
    /\ counted' = [c \in Clients |-> Later(counted[c])]
    /\ served' = [c \in Clients |-> Later(served[c])]
    /\ UNCHANGED faults

\* Redis restarts without its keys.
Restart ==
    /\ Fault
    /\ count' = [c \in Clients |-> 0] /\ ttl' = [c \in Clients |-> 0]
    /\ UNCHANGED <<told, counted, served>>

Next == (\E c \in Clients : Request(c)) \/ Tick \/ Restart

Spec == Init /\ [][Next]_vars

-----------------------------------------------------------------------------
(* Correctness *)

TypeOK ==
    /\ count \in [Clients -> Nat] /\ ttl \in [Clients -> 0..Window]
    /\ \A c \in Clients : count[c] = 0 <=> ttl[c] = 0
    /\ told \in [Clients -> {"nothing", "passed", "refused"}]
    /\ counted \in [Clients -> [Ages -> Nat]] /\ served \in [Clients -> [Ages -> Nat]]
    /\ faults \in 0..MaxFaults

\* Who is refused has used up the limit within the last window: "a client that keeps
\* hitting the limit" is not "blocked indefinitely" (the comment of incrWithWindow).
RefusedOnlyAtLimit ==
    \A c \in Clients : told[c] = "refused" => Total(counted[c]) > Limit

\* No stretch of time as long as the window sees more than two limits of requests, one
\* at the end of a fixed window and one at the start of the next, and what the limiter
\* lets through when Redis does not answer or has lost its keys.  It is what the fixed
\* window of the script gives, and ratelimit_test.go:44-47 calls a sliding one a bug; yet
\* src/README.md:58 ("sliding-window counter per IP via Redis") and
\* src/docs/feature-parity.md:38 ("Redis sliding window") announce a window that slides, in
\* which nobody could pass more than once the limit.  The code does not keep that.
AtMostTwice ==
    \A c \in Clients : Total(served[c]) <= (2 + faults) * Limit
=============================================================================
