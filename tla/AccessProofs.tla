---------------------------- MODULE AccessProofs ----------------------------
(***************************************************************************)
(* Theorems of Access for every number of users, sessions, requests,       *)
(* authenticators, keys, flags, callers, windows, entries and reports.     *)
(***************************************************************************)
EXTENDS AccessLemmas

-----------------------------------------------------------------------------
(* One part at a time *)

\* A behaviour stays with its part, and a step is one of that part or leaves it alone.
LEMMA PartSteps ==
    ASSUME focus \in Parts, [AccessNext]_accessVars
    PROVE  /\ focus' = focus
           /\ focus = "sessions" => [Next]_vars
           /\ focus # "sessions" => UNCHANGED vars
           /\ focus = "passkey" => [Ceremony!Next]_passkeyVars
           /\ focus = "keys" => [ApiKey!Next]_keyVars
           /\ focus = "flags" => [Flag!Next]_flagVars
           /\ focus = "rate" => [Rate!Next]_rateVars
           /\ focus = "pages" => [Pages!Next]_pagesVars
           /\ focus = "reports" => [Reports!Next]_reportsVars
<1>1. CASE UNCHANGED accessVars
  BY <1>1 DEF accessVars
<1>2. CASE AccessNext
  BY <1>2 DEF AccessNext, Step, Resting, Parts
<1> QED
  BY <1>1, <1>2

-----------------------------------------------------------------------------
(* The rate limiter *)

\* The tokens of a history of scripts or requests, one for each, of the ages given.
Tokens(h, ages) == UNION {{a} \X (1..h[a]) : a \in ages}

\* How many there were at each age.
Histories == [Rate!Ages -> Nat]

\* How many there are of the ages up to k.
Upto(h, k) == Cardinality(Tokens(h, 0..k))

\* They are finitely many.
LEMMA TokensFinite ==
    ASSUME NEW h \in Histories, NEW ages \in SUBSET Rate!Ages
    PROVE  IsFiniteSet(Tokens(h, ages)) /\ Cardinality(Tokens(h, ages)) \in Nat
<1> DEFINE Block(a) == {a} \X (1..h[a])
           Blocks == {Block(a) : a \in ages}
<1>1. IsFiniteSet(Rate!Ages)
  BY RateAssumption, FS_Interval DEF Rate!Ages
<1>2. IsFiniteSet(ages)
  BY <1>1, FS_Subset
<1>3. ASSUME NEW a \in ages PROVE IsFiniteSet(Block(a))
  <2>1. h[a] \in Nat
    BY DEF Histories
  <2>2. IsFiniteSet({a})
    BY FS_Singleton
  <2>3. IsFiniteSet(1..h[a])
    BY <2>1, FS_Interval
  <2> QED
    BY <2>2, <2>3, FS_Product
<1>4. IsFiniteSet(Blocks)
  <2> DEFINE f == [a \in ages |-> Block(a)]
  <2> HIDE DEF Block
  <2>1. f \in Surjection(ages, Blocks)
    BY DEF Surjection
  <2> HIDE DEF f
  <2> QED
    BY <1>2, <2>1, FS_Surjection
<1> QED
  BY <1>3, <1>4, FS_UNION, FS_CardinalityType DEF Tokens

\* A token is an age and a number.
LEMMA TokenOf ==
    ASSUME NEW h \in Histories, NEW ages \in SUBSET Rate!Ages, NEW x, x \in Tokens(h, ages)
    PROVE  \E a \in ages, i \in Nat : x = <<a, i>> /\ i >= 1 /\ i <= h[a]
  BY DEF Tokens, Histories

\* There is one for each number up to the count of an age.
LEMMA TokenIn ==
    ASSUME NEW h \in Histories, NEW ages \in SUBSET Rate!Ages, NEW a \in ages, NEW i \in Nat,
           i >= 1, i <= h[a]
    PROVE  <<a, i>> \in Tokens(h, ages)
  BY DEF Tokens, Histories

\* All of them.
LEMMA TotalIs == ASSUME NEW h PROVE Rate!Total(h) = Upto(h, RateLimitWindow - 1)
  BY SameCount DEF Rate!Total, Rate!Ages, Upto, Tokens

\* The younger are fewer.
LEMMA UptoFacts ==
    ASSUME NEW h \in Histories, NEW k \in Rate!Ages
    PROVE  /\ Upto(h, k) \in Nat /\ IsFiniteSet(Tokens(h, 0..k))
           /\ Upto(h, k) <= Upto(h, RateLimitWindow - 1)
           /\ Upto(h, 0) <= Upto(h, k)
           /\ Upto(h, RateLimitWindow - 1) \in Nat /\ Upto(h, 0) \in Nat
<1>1. /\ 0..k \in SUBSET Rate!Ages /\ 0..0 \in SUBSET Rate!Ages
      /\ 0..(RateLimitWindow - 1) \in SUBSET Rate!Ages
  BY RateAssumption DEF Rate!Ages
<1>2. IsFiniteSet(Tokens(h, 0..k)) /\ IsFiniteSet(Tokens(h, 0..(RateLimitWindow - 1)))
  BY <1>1, TokensFinite
<1>3. Tokens(h, 0..k) \in SUBSET Tokens(h, 0..(RateLimitWindow - 1))
  <2>1. 0..k \subseteq 0..(RateLimitWindow - 1)
    BY RateAssumption DEF Rate!Ages
  <2> QED
    BY <2>1 DEF Tokens
<1>4. Tokens(h, 0..0) \in SUBSET Tokens(h, 0..k)
  <2>1. 0..0 \subseteq 0..k
    BY RateAssumption DEF Rate!Ages
  <2> QED
    BY <2>1 DEF Tokens
<1>5. Upto(h, k) <= Upto(h, RateLimitWindow - 1)
  BY <1>2, <1>3, FS_Subset DEF Upto
<1>6. Upto(h, 0) <= Upto(h, k)
  BY <1>2, <1>4, FS_Subset DEF Upto
<1> QED
  BY <1>1, <1>2, <1>5, <1>6, TokensFinite DEF Upto

\* One more now is one more of every stretch that reaches to now.
LEMMA Grown ==
    ASSUME NEW h \in Histories, NEW k \in Rate!Ages
    PROVE  /\ [h EXCEPT ![0] = @ + 1] \in Histories
           /\ Upto([h EXCEPT ![0] = @ + 1], k) = Upto(h, k) + 1
<1> DEFINE g == [h EXCEPT ![0] = @ + 1]
           new == <<0, h[0] + 1>>
<1>1. 0 \in Rate!Ages /\ 0 \in 0..k /\ 0..k \in SUBSET Rate!Ages
  BY RateAssumption DEF Rate!Ages
<1>2. g \in Histories /\ g[0] = h[0] + 1 /\ \A a \in Rate!Ages \ {0} : g[a] = h[a]
  BY <1>1 DEF Histories
<1>3. h[0] \in Nat
  BY <1>1 DEF Histories
<1> HIDE DEF g
<1>4. Tokens(g, 0..k) = Tokens(h, 0..k) \cup {new}
  <2>1. ASSUME NEW x, x \in Tokens(g, 0..k) PROVE x \in Tokens(h, 0..k) \cup {new}
    <3>1. PICK a \in 0..k, i \in Nat : x = <<a, i>> /\ i >= 1 /\ i <= g[a]
      BY <2>1, <1>1, <1>2, TokenOf
    <3>2. CASE a = 0
      <4>1. i = h[0] + 1 \/ i <= h[0]
        BY <3>1, <3>2, <1>2, <1>3
      <4> QED
        BY <4>1, <3>1, <3>2, <1>1, <1>2, TokenIn
    <3>3. CASE a # 0
      BY <3>3, <3>1, <1>1, <1>2, <1>1, <1>2, TokenIn
    <3> QED
      BY <3>2, <3>3
  <2>2. ASSUME NEW x, x \in Tokens(h, 0..k) PROVE x \in Tokens(g, 0..k)
    <3>1. PICK a \in 0..k, i \in Nat : x = <<a, i>> /\ i >= 1 /\ i <= h[a]
      BY <2>2, <1>1, <1>2, TokenOf
    <3>2. i <= g[a]
      <4>1. CASE a = 0
        BY <4>1, <3>1, <1>2, <1>3
      <4>2. CASE a # 0
        BY <4>2, <3>1, <1>1, <1>2
      <4> QED
        BY <4>1, <4>2
    <3> QED
      BY <3>1, <3>2, <1>1, <1>2, TokenIn
  <2>3. new \in Tokens(g, 0..k)
    <3>1. h[0] + 1 \in Nat /\ h[0] + 1 >= 1 /\ h[0] + 1 <= g[0]
      BY <1>2, <1>3
    <3> QED
      BY <3>1, <1>1, <1>2, TokenIn
  <2> QED
    BY <2>1, <2>2, <2>3
<1>5. new \notin Tokens(h, 0..k)
  <2>1. SUFFICES ASSUME NEW a \in 0..k, NEW i \in Nat, i <= h[a], new = <<a, i>> PROVE FALSE
    BY <1>1, TokenOf
  <2> QED
    BY <2>1, <1>3
<1>6. Cardinality(Tokens(h, 0..k) \cup {new}) = Cardinality(Tokens(h, 0..k)) + 1
  BY <1>5, UptoFacts, FS_AddElement
<1> QED
  BY <1>2, <1>4, <1>6 DEF g, Upto

\* A tick makes every token one older, and forgets the oldest.
LEMMA Aged ==
    ASSUME NEW h \in Histories
    PROVE  /\ Rate!Later(h) \in Histories
           /\ Upto(Rate!Later(h), 0) = 0
           /\ \A k \in Rate!Ages : k + 1 \in Rate!Ages => Upto(Rate!Later(h), k + 1) = Upto(h, k)
           /\ Upto(Rate!Later(h), RateLimitWindow - 1) <= Upto(h, RateLimitWindow - 1)
<1> DEFINE g == Rate!Later(h)
<1>1. 0 \in Rate!Ages /\ 0..0 \in SUBSET Rate!Ages /\ \A a \in Rate!Ages : a \in Int /\ (a # 0 => a - 1 \in Rate!Ages)
  BY RateAssumption DEF Rate!Ages
<1>2. g \in Histories /\ g[0] = 0 /\ \A a \in Rate!Ages \ {0} : g[a] = h[a - 1]
  BY <1>1 DEF Histories, Rate!Later
<1> HIDE DEF g
<1>3. Tokens(g, 0..0) = {}
  <2>1. SUFFICES ASSUME NEW x \in Tokens(g, 0..0) PROVE FALSE
    OBVIOUS
  <2>2. PICK a \in 0..0, i \in Nat : x = <<a, i>> /\ i >= 1 /\ i <= g[a]
    BY <2>1, <1>1, <1>2, TokenOf
  <2> QED
    BY <2>2, <1>2
<1>4. Upto(g, 0) = 0
  BY <1>3, FS_EmptySet DEF Upto
<1>5. ASSUME NEW k \in Rate!Ages, k + 1 \in Rate!Ages PROVE Upto(g, k + 1) = Upto(h, k)
  <2> DEFINE old == Tokens(h, 0..k)
             aged == Tokens(g, 0..(k + 1))
             f == [x \in old |-> <<x[1] + 1, x[2]>>]
  <2>0. k \in Nat /\ 0..k \in SUBSET Rate!Ages /\ 0..(k + 1) \in SUBSET Rate!Ages
    BY <1>5, RateAssumption DEF Rate!Ages
  <2>1. ASSUME NEW x, x \in old
        PROVE  /\ x = <<x[1], x[2]>> /\ x[1] \in 0..k /\ x[2] \in Nat
               /\ <<x[1] + 1, x[2]>> \in aged
    <3>1. PICK a \in 0..k, i \in Nat : x = <<a, i>> /\ i >= 1 /\ i <= h[a]
      BY <2>1, <1>2, <2>0, TokenOf
    <3>2. a + 1 \in 0..(k + 1) /\ a + 1 \in Rate!Ages \ {0} /\ (a + 1) - 1 = a
      BY <2>0, <3>1
    <3>3. g[a + 1] = h[a]
      BY <3>2, <1>2
    <3>4. <<a + 1, i>> \in aged
      BY <3>1, <3>2, <3>3, <1>2, <2>0, TokenIn
    <3> QED
      BY <3>1, <3>4
  <2>2. f \in [old -> aged]
    BY <2>1
  <2>3. ASSUME NEW x \in old, NEW y \in old, f[x] = f[y] PROVE x = y
    <3>1. x = <<x[1], x[2]>> /\ y = <<y[1], y[2]>> /\ x[1] \in 0..k /\ y[1] \in 0..k
      BY <2>1
    <3>2. x[1] + 1 = y[1] + 1 /\ x[2] = y[2]
      BY <2>3
    <3>3. x[1] = y[1]
      BY <2>0, <3>1, <3>2
    <3> QED
      BY <3>1, <3>2, <3>3
  <2>4. ASSUME NEW y, y \in aged PROVE \E x \in old : f[x] = y
    <3>1. PICK a \in 0..(k + 1), i \in Nat : y = <<a, i>> /\ i >= 1 /\ i <= g[a]
      BY <2>4, <1>2, <2>0, TokenOf
    <3>2. a # 0
      BY <3>1, <1>2
    <3>3. a - 1 \in 0..k /\ a \in Rate!Ages \ {0} /\ (a - 1) + 1 = a
      BY <2>0, <3>1, <3>2
    <3>4. g[a] = h[a - 1]
      BY <3>3, <1>2
    <3>5. <<a - 1, i>> \in old
      BY <3>1, <3>3, <3>4, <1>2, <2>0, TokenIn
    <3> QED
      BY <3>1, <3>3, <3>5
  <2>6. IsFiniteSet(old)
    BY UptoFacts
  <2> HIDE DEF f, old, aged
  <2>5. f \in Bijection(old, aged)
    <3>1. \A x, y \in old : f[x] = f[y] => x = y
      BY <2>3
    <3>2. f \in Injection(old, aged)
      BY <2>2, <3>1 DEF Injection, IsInjective
    <3>3. f \in Surjection(old, aged)
      BY <2>2, <2>4 DEF Surjection
    <3> QED
      BY <3>2, <3>3 DEF Bijection
  <2>7. Cardinality(aged) = Cardinality(old)
    BY <2>5, <2>6, FS_Bijection DEF ExistsBijection
  <2> QED
    BY <2>7 DEF Upto, old, aged
<1>6. Upto(g, RateLimitWindow - 1) <= Upto(h, RateLimitWindow - 1)
  <2>1. CASE RateLimitWindow = 1
    <3>1. Upto(h, 0) \in Nat
      BY <1>1, UptoFacts
    <3> QED
      BY <2>1, <3>1, <1>4
  <2>2. CASE RateLimitWindow # 1
    <3>1. /\ RateLimitWindow - 2 \in Rate!Ages /\ RateLimitWindow - 1 \in Rate!Ages
          /\ (RateLimitWindow - 2) + 1 = RateLimitWindow - 1
      BY <2>2, RateAssumption DEF Rate!Ages
    <3>2. Upto(g, RateLimitWindow - 1) = Upto(h, RateLimitWindow - 2)
      BY <3>1, <1>5
    <3> QED
      BY <3>1, <3>2, UptoFacts
  <2> QED
    BY <2>1, <2>2
<1> QED
  BY <1>2, <1>4, <1>5, <1>6 DEF g

\* What is known of one client: with n counted, t ticks until the key expires, f failed
\* scripts and restarts, what was served, counted and said.  The window that runs began
\* RateLimitWindow - t ticks ago; before it at most one other was charged, and the limiter
\* lets through at most a limit for each failure.
WindowFine(n, t, srv, cnt, said, f) ==
    LET charged == IF n < RateLimitRequests THEN n ELSE RateLimitRequests
        all == RateLimitWindow - 1
    IN  /\ t = 0 => /\ Upto(srv, all) <= RateLimitRequests + RateLimitRequests * f
                    /\ Upto(srv, 0) <= RateLimitRequests * f
        /\ t # 0 => /\ Upto(srv, RateLimitWindow - t) <= charged + RateLimitRequests * f
                    /\ Upto(srv, all) <= charged + RateLimitRequests + RateLimitRequests * f
                    /\ n <= Upto(cnt, RateLimitWindow - t)
        /\ said = "refused" => Upto(cnt, all) > RateLimitRequests

\* That of every client.
RateInv ==
    /\ Rate!TypeOK
    /\ \A c \in Clients : WindowFine(count[c], ttl[c], served[c], counted[c], told[c], errors)

\* Arithmetic of the limits: one more failure is one more limit.
LEMMA OneMoreLimit ==
    ASSUME NEW f \in Nat
    PROVE  /\ RateLimitRequests * f \in Nat
           /\ RateLimitRequests * (f + 1) = RateLimitRequests * f + RateLimitRequests
           /\ (2 + f) * RateLimitRequests = RateLimitRequests * f + 2 * RateLimitRequests
  BY RateAssumption

\* Where the running window began.
LEMMA WindowAge ==
    ASSUME NEW t \in 0..RateLimitWindow, t # 0
    PROVE  /\ RateLimitWindow - t \in Rate!Ages
           /\ t # 1 => /\ (RateLimitWindow - t) + 1 \in Rate!Ages
                       /\ (RateLimitWindow - t) + 1 = RateLimitWindow - (t - 1)
           /\ t = 1 => RateLimitWindow - t = RateLimitWindow - 1
           /\ t = RateLimitWindow => RateLimitWindow - t = 0
           /\ 0 \in Rate!Ages /\ RateLimitWindow - 1 \in Rate!Ages
  BY RateAssumption DEF Rate!Ages

\* A failure that changes nothing for the client.
LEMMA FailureBeside ==
    ASSUME NEW n \in Nat, NEW t \in 0..RateLimitWindow, NEW srv \in Histories, NEW cnt \in Histories,
           NEW said, NEW f \in Nat, WindowFine(n, t, srv, cnt, said, f)
    PROVE  WindowFine(n, t, srv, cnt, said, f + 1)
<1> DEFINE A == Upto(srv, RateLimitWindow - 1)
           B == Upto(srv, 0)
           E == Upto(srv, RateLimitWindow - t)
           P == RateLimitRequests * f
           P1 == RateLimitRequests * (f + 1)
<1>1. P \in Nat /\ P1 = P + RateLimitRequests /\ RateLimitRequests \in Nat
  BY OneMoreLimit, RateAssumption
<1>2. 0 \in Rate!Ages
  BY RateAssumption DEF Rate!Ages
<1>3. A \in Nat /\ B \in Nat
  BY <1>2, UptoFacts
<1>4. CASE t = 0
  BY <1>1, <1>3, <1>4 DEF WindowFine
<1>5. CASE t # 0
  <2>1. E \in Nat
    BY <1>5, WindowAge, UptoFacts
  <2> QED
    BY <1>1, <1>3, <1>5, <2>1 DEF WindowFine
<1> QED
  BY <1>4, <1>5

\* Redis loses its keys.
LEMMA KeysLost ==
    ASSUME NEW n \in Nat, NEW t \in 0..RateLimitWindow, NEW srv \in Histories, NEW cnt \in Histories,
           NEW said, NEW f \in Nat, WindowFine(n, t, srv, cnt, said, f)
    PROVE  WindowFine(0, 0, srv, cnt, said, f + 1)
<1> DEFINE A == Upto(srv, RateLimitWindow - 1)
           B == Upto(srv, 0)
           E == Upto(srv, RateLimitWindow - t)
           P == RateLimitRequests * f
           P1 == RateLimitRequests * (f + 1)
<1>1. P \in Nat /\ P1 = P + RateLimitRequests /\ RateLimitRequests \in Nat
  BY OneMoreLimit, RateAssumption
<1>2. 0 \in Rate!Ages
  BY RateAssumption DEF Rate!Ages
<1>3. A \in Nat /\ B \in Nat
  BY <1>2, UptoFacts
<1>4. CASE t = 0
  BY <1>1, <1>3, <1>4 DEF WindowFine
<1>5. CASE t # 0
  <2>1. E \in Nat /\ B <= E
    BY <1>5, WindowAge, UptoFacts
  <2>2. A <= 2 * RateLimitRequests + P /\ E <= RateLimitRequests + P
    BY <1>1, <1>3, <1>5, <2>1 DEF WindowFine
  <2>3. A <= RateLimitRequests + P1 /\ B <= P1
    BY <1>1, <1>3, <2>1, <2>2
  <2> QED
    BY <2>3, <1>5 DEF WindowFine
<1> QED
  BY <1>4, <1>5

\* The key expires, or comes a tick nearer to it.
LEMMA TickFine ==
    ASSUME NEW n \in Nat, NEW t \in 0..RateLimitWindow, NEW srv \in Histories, NEW cnt \in Histories,
           NEW said, NEW f \in Nat, WindowFine(n, t, srv, cnt, said, f)
    PROVE  WindowFine(IF t <= 1 THEN 0 ELSE n, IF t = 0 THEN 0 ELSE t - 1,
                      Rate!Later(srv), Rate!Later(cnt), "nothing", f)
<1> DEFINE A == Upto(srv, RateLimitWindow - 1)
           A1 == Upto(Rate!Later(srv), RateLimitWindow - 1)
           E == Upto(srv, RateLimitWindow - t)
           P == RateLimitRequests * f
<1>1. P \in Nat /\ RateLimitRequests \in Nat
  BY OneMoreLimit, RateAssumption
<1>2. /\ 0 \in Rate!Ages /\ Rate!Later(srv) \in Histories /\ Rate!Later(cnt) \in Histories
      /\ Upto(Rate!Later(srv), 0) = 0 /\ A1 <= A
  BY RateAssumption, Aged DEF Rate!Ages
<1>3. A \in Nat /\ A1 \in Nat
  BY <1>2, UptoFacts
<1>4. CASE t = 0
  BY <1>1, <1>2, <1>3, <1>4 DEF WindowFine
<1>5. CASE t = 1
  <2>1. A <= RateLimitRequests + P
    BY <1>1, <1>3, <1>5, WindowAge DEF WindowFine
  <2> QED
    BY <1>1, <1>2, <1>3, <1>5, <2>1 DEF WindowFine
<1>6. CASE t # 0 /\ t # 1
  <2> DEFINE u == t - 1
  <2>1. u # 0 /\ t > 1
    BY <1>6
  <2>2. /\ RateLimitWindow - t \in Rate!Ages /\ (RateLimitWindow - t) + 1 \in Rate!Ages
        /\ RateLimitWindow - u = (RateLimitWindow - t) + 1
    BY <1>6, WindowAge
  <2>3. /\ Upto(Rate!Later(srv), RateLimitWindow - u) = E
        /\ Upto(Rate!Later(cnt), RateLimitWindow - u) = Upto(cnt, RateLimitWindow - t)
    BY <2>2, Aged
  <2>4. E <= (IF n < RateLimitRequests THEN n ELSE RateLimitRequests) + P
        /\ A <= (IF n < RateLimitRequests THEN n ELSE RateLimitRequests) + RateLimitRequests + P
        /\ n <= Upto(cnt, RateLimitWindow - t)
    BY <1>6 DEF WindowFine
  <2>5. A1 <= (IF n < RateLimitRequests THEN n ELSE RateLimitRequests) + RateLimitRequests + P
    BY <1>1, <1>2, <1>3, <2>4
  <2>6. WindowFine(n, u, Rate!Later(srv), Rate!Later(cnt), "nothing", f)
    <3> HIDE DEF u
    <3> QED
      BY <2>1, <2>3, <2>4, <2>5 DEF WindowFine
  <2> QED
    BY <1>6, <2>1, <2>6
<1> QED
  BY <1>4, <1>5, <1>6

\* A request whose script ran, was refused or let through, or let through by an error; and
\* one let through without the script.
LEMMA RequestFine ==
    ASSUME NEW n \in Nat, NEW t \in 0..RateLimitWindow, NEW srv \in Histories, NEW cnt \in Histories,
           NEW said, NEW f \in Nat, WindowFine(n, t, srv, cnt, said, f), n = 0 <=> t = 0
    PROVE  LET t1 == IF n = 0 THEN RateLimitWindow ELSE t
               srv1 == [srv EXCEPT ![0] = @ + 1]
               cnt1 == [cnt EXCEPT ![0] = @ + 1]
           IN  /\ n + 1 > RateLimitRequests => WindowFine(n + 1, t1, srv, cnt1, "refused", f)
               /\ n + 1 <= RateLimitRequests => WindowFine(n + 1, t1, srv1, cnt1, "passed", f)
               /\ WindowFine(n + 1, t1, srv1, cnt1, "passed", f + 1)
               /\ WindowFine(n, t, srv1, cnt, "passed", f + 1)
<1> DEFINE t1 == IF n = 0 THEN RateLimitWindow ELSE t
           srv1 == [srv EXCEPT ![0] = @ + 1]
           cnt1 == [cnt EXCEPT ![0] = @ + 1]
           L == RateLimitRequests
           P == RateLimitRequests * f
           P1 == RateLimitRequests * (f + 1)
           m == IF n < L THEN n ELSE L
           m1 == IF n + 1 < L THEN n + 1 ELSE L
           e == RateLimitWindow - t1
           A == Upto(srv, RateLimitWindow - 1)
           E == Upto(srv, e)
           B == Upto(srv, 0)
           C == Upto(cnt, RateLimitWindow - 1)
           D == Upto(cnt, e)
<1>1. /\ P \in Nat /\ P1 = P + L /\ L \in Nat \ {0}
      /\ t1 \in 0..RateLimitWindow /\ t1 # 0
  BY OneMoreLimit, RateAssumption
<1>2. e \in Rate!Ages /\ 0 \in Rate!Ages /\ RateLimitWindow - 1 \in Rate!Ages
  BY <1>1, WindowAge
<1>3. /\ A \in Nat /\ B \in Nat /\ C \in Nat /\ D \in Nat /\ E \in Nat
      /\ E <= A /\ B <= E /\ D <= C
  BY <1>2, UptoFacts
<1>4. /\ srv1 \in Histories /\ cnt1 \in Histories
      /\ Upto(srv1, RateLimitWindow - 1) = A + 1 /\ Upto(srv1, 0) = B + 1 /\ Upto(srv1, e) = E + 1
      /\ Upto(cnt1, RateLimitWindow - 1) = C + 1 /\ Upto(cnt1, e) = D + 1
  BY <1>2, Grown
<1>5. E <= m + P /\ A <= m + L + P /\ n <= D
  <2>1. CASE n = 0
    <3>1. e = 0
      BY <2>1, RateAssumption
    <3>2. t = 0 /\ m = 0 /\ E = B /\ D >= 0
      BY <2>1, <3>1, <1>1, <1>3
    <3>3. A <= L + P /\ B <= P
      BY <3>2 DEF WindowFine
    <3> QED
      BY <2>1, <3>2, <3>3, <1>1, <1>3
  <2>2. CASE n # 0
    BY <2>2 DEF WindowFine
  <2> QED
    BY <2>1, <2>2
<1>6. m \in Nat /\ m1 \in Nat /\ m1 <= L /\ m <= m1 /\ (n + 1 <= L => m1 = m + 1) /\ m1 >= 1
  BY <1>1
<1>7. n + 1 > L => C + 1 > L
  BY <1>1, <1>3, <1>5
<1>8. said = "refused" => C > L
  BY DEF WindowFine
<1>9. n # 0 => t1 = t
  OBVIOUS
<1>10. n = 0 => t = 0 /\ A <= L + P /\ B <= P
  BY DEF WindowFine
<1> HIDE DEF m, m1, P, P1, A, B, C, D, E, e, srv1, cnt1, t1, L
<1>11. n + 1 > L => WindowFine(n + 1, t1, srv, cnt1, "refused", f)
  <2>1. E <= m1 + P /\ A <= m1 + L + P /\ n + 1 <= D + 1
    BY <1>1, <1>3, <1>5, <1>6
  <2> QED
    BY <1>1, <1>4, <1>7, <2>1 DEF WindowFine, m1, P, A, C, D, E, e, L
<1>12. n + 1 <= L => WindowFine(n + 1, t1, srv1, cnt1, "passed", f)
  <2>1. n + 1 <= L => E + 1 <= m1 + P /\ A + 1 <= m1 + L + P /\ n + 1 <= D + 1
    BY <1>1, <1>3, <1>5, <1>6
  <2> QED
    BY <1>1, <1>4, <2>1 DEF WindowFine, m1, P, A, C, D, E, e, L
<1>13. WindowFine(n + 1, t1, srv1, cnt1, "passed", f + 1)
  <2>1. E + 1 <= m1 + P1 /\ A + 1 <= m1 + L + P1 /\ n + 1 <= D + 1
    BY <1>1, <1>3, <1>5, <1>6
  <2> QED
    BY <1>1, <1>4, <2>1 DEF WindowFine, m1, P1, A, C, D, E, e, L
<1>14. WindowFine(n, t, srv1, cnt, "passed", f + 1)
  <2>1. CASE n = 0
    <3>1. A + 1 <= L + P1 /\ B + 1 <= P1
      BY <1>1, <1>3, <1>10, <2>1
    <3> QED
      BY <1>4, <1>10, <2>1, <3>1 DEF WindowFine, P1, A, B, L
  <2>2. CASE n # 0
    <3>1. E + 1 <= m + P1 /\ A + 1 <= m + L + P1 /\ n <= D
      BY <1>1, <1>3, <1>5, <1>6
    <3> QED
      BY <1>1, <1>4, <1>9, <2>2, <3>1 DEF WindowFine, m, P1, A, D, E, e, L
  <2> QED
    BY <2>1, <2>2
<1> QED
  BY <1>11, <1>12, <1>13, <1>14 DEF t1, srv1, cnt1, L

\* Nothing has happened.
LEMMA RateStarts == Rate!Init => RateInv
<1> SUFFICES ASSUME Rate!Init PROVE RateInv
  OBVIOUS
<1>1. Rate!TypeOK
  BY RateAssumption, AuthAssumption DEF Rate!Init, Rate!TypeOK, Rate!Nothing, Rate!Ages
<1>2. Rate!Nothing \in Histories
  BY DEF Rate!Nothing, Histories
<1>3. \A ages \in SUBSET Rate!Ages : Tokens(Rate!Nothing, ages) = {}
  <2>1. SUFFICES ASSUME NEW ages \in SUBSET Rate!Ages, NEW x, x \in Tokens(Rate!Nothing, ages) PROVE FALSE
    OBVIOUS
  <2>2. PICK a \in ages, i \in Nat : i >= 1 /\ i <= Rate!Nothing[a]
    BY <1>2, <2>1, TokenOf
  <2> QED
    BY <2>2 DEF Rate!Nothing
<1>4. \A k \in Rate!Ages : Upto(Rate!Nothing, k) = 0
  <2>1. SUFFICES ASSUME NEW k \in Rate!Ages PROVE Upto(Rate!Nothing, k) = 0
    OBVIOUS
  <2>2. 0..k \in SUBSET Rate!Ages
    BY RateAssumption DEF Rate!Ages
  <2> QED
    BY <1>3, <2>2, FS_EmptySet DEF Upto
<1>5. 0 \in Rate!Ages /\ RateLimitWindow - 1 \in Rate!Ages
  BY RateAssumption DEF Rate!Ages
<1>6. ASSUME NEW c \in Clients
      PROVE  WindowFine(count[c], ttl[c], served[c], counted[c], told[c], errors)
  <2>1. /\ ttl[c] = 0 /\ told[c] = "nothing" /\ errors = 0 /\ served[c] = Rate!Nothing
    BY DEF Rate!Init
  <2>2. RateLimitRequests * 0 = 0 /\ RateLimitRequests >= 0
    BY RateAssumption
  <2> QED
    BY <1>4, <1>5, <2>1, <2>2, RateAssumption DEF WindowFine
<1> QED
  BY <1>1, <1>6 DEF RateInv

\* What the types say of one client.
LEMMA ClientFields ==
    ASSUME Rate!TypeOK, NEW c \in Clients
    PROVE  /\ count[c] \in Nat /\ ttl[c] \in 0..RateLimitWindow
           /\ served[c] \in Histories /\ counted[c] \in Histories
           /\ count[c] = 0 <=> ttl[c] = 0
  BY DEF Rate!TypeOK, Histories

\* A request is counted against its client and nobody else.
LEMMA RequestKept ==
    ASSUME RateInv, NEW c \in Clients, Rate!Request(c)
    PROVE  RateInv'
<1> USE DEF RateInv
<1>1. /\ errors \in Nat /\ errors' \in 0..MaxFaults /\ (errors' = errors \/ errors' = errors + 1)
  BY AuthAssumption DEF Rate!TypeOK, Rate!Request, Rate!Fault
<1>2. \A d \in Clients \ {c} :
        /\ count'[d] = count[d] /\ ttl'[d] = ttl[d] /\ served'[d] = served[d]
        /\ counted'[d] = counted[d] /\ told'[d] = told[d]
  BY DEF Rate!Request, Rate!IncrWithWindow, Rate!Tell, Rate!TypeOK
<1> DEFINE t1 == IF count[c] = 0 THEN RateLimitWindow ELSE ttl[c]
           srv1 == [served[c] EXCEPT ![0] = @ + 1]
           cnt1 == [counted[c] EXCEPT ![0] = @ + 1]
<1>3. /\ srv1 \in Histories /\ cnt1 \in Histories /\ t1 \in 0..RateLimitWindow /\ t1 # 0
      /\ served[c] \in Histories /\ counted[c] \in Histories
  <2>1. 0 \in Rate!Ages
    BY RateAssumption DEF Rate!Ages
  <2> QED
    BY <2>1, ClientFields, Grown, RateAssumption
<1>4. \/ /\ count'[c] = count[c] + 1 /\ ttl'[c] = t1 /\ counted'[c] = cnt1
         /\ \/ /\ count[c] + 1 > RateLimitRequests /\ told'[c] = "refused"
               /\ served'[c] = served[c] /\ errors' = errors
            \/ /\ count[c] + 1 <= RateLimitRequests /\ told'[c] = "passed"
               /\ served'[c] = srv1 /\ errors' = errors
            \/ told'[c] = "passed" /\ served'[c] = srv1 /\ errors' = errors + 1
      \/ /\ count'[c] = count[c] /\ ttl'[c] = ttl[c] /\ counted'[c] = counted[c]
         /\ told'[c] = "passed" /\ served'[c] = srv1 /\ errors' = errors + 1
  <2>1. count[c] \in Nat /\ RateLimitRequests \in Nat
    BY ClientFields, RateAssumption
  <2>2. ASSUME Rate!IncrWithWindow(c)
        PROVE  count'[c] = count[c] + 1 /\ ttl'[c] = t1 /\ counted'[c] = cnt1
    BY <2>2 DEF Rate!IncrWithWindow, Rate!Expiry, Rate!TypeOK
  <2>3. ASSUME NEW v, Rate!Tell(c, v)
        PROVE  told'[c] = v /\ served'[c] = IF v = "passed" THEN srv1 ELSE served[c]
    <3>1. served'[c] = [served[c] EXCEPT ![0] = IF v = "passed" THEN @ + 1 ELSE @] /\ told'[c] = v
      BY <2>3 DEF Rate!Tell, Rate!TypeOK
    <3>2. CASE v = "passed"
      BY <3>1, <3>2
    <3>3. CASE v # "passed"
      BY <3>1, <3>3, <1>3 DEF Histories
    <3> QED
      BY <3>2, <3>3
  <2>4. \/ /\ Rate!IncrWithWindow(c) /\ errors' = errors
           /\ Rate!Tell(c, IF count'[c] > RateLimitRequests THEN "refused" ELSE "passed")
        \/ /\ errors' = errors + 1 /\ Rate!Tell(c, "passed")
           /\ Rate!IncrWithWindow(c) \/ UNCHANGED <<count, ttl, counted>>
    BY DEF Rate!Request, Rate!Over, Rate!Fault
  <2> HIDE DEF t1, srv1, cnt1
  <2>5. CASE /\ Rate!IncrWithWindow(c) /\ errors' = errors
             /\ Rate!Tell(c, IF count'[c] > RateLimitRequests THEN "refused" ELSE "passed")
    <3>1. count'[c] = count[c] + 1 /\ ttl'[c] = t1 /\ counted'[c] = cnt1
      BY <2>2, <2>5
    <3>2. CASE count[c] + 1 > RateLimitRequests
      <4>1. Rate!Tell(c, "refused")
        BY <2>5, <3>1, <3>2
      <4> QED
        BY <2>3, <2>5, <3>1, <3>2, <4>1
    <3>3. CASE ~(count[c] + 1 > RateLimitRequests)
      <4>1. Rate!Tell(c, "passed") /\ count[c] + 1 <= RateLimitRequests
        BY <2>1, <2>5, <3>1, <3>3
      <4> QED
        BY <2>3, <2>5, <3>1, <4>1
    <3> QED
      BY <3>2, <3>3
  <2>6. CASE /\ errors' = errors + 1 /\ Rate!Tell(c, "passed")
             /\ Rate!IncrWithWindow(c) \/ UNCHANGED <<count, ttl, counted>>
    BY <2>2, <2>3, <2>6
  <2> QED
    BY <2>4, <2>5, <2>6
<1>5. WindowFine(count'[c], ttl'[c], served'[c], counted'[c], told'[c], errors')
  <2> HIDE DEF t1, srv1, cnt1
  <2>1. /\ count[c] + 1 > RateLimitRequests
            => WindowFine(count[c] + 1, t1, served[c], cnt1, "refused", errors)
        /\ count[c] + 1 <= RateLimitRequests
            => WindowFine(count[c] + 1, t1, srv1, cnt1, "passed", errors)
        /\ WindowFine(count[c] + 1, t1, srv1, cnt1, "passed", errors + 1)
        /\ WindowFine(count[c], ttl[c], srv1, counted[c], "passed", errors + 1)
    BY <1>1, ClientFields, RequestFine DEF t1, srv1, cnt1
  <2> QED
    BY <1>4, <2>1
<1>6. ASSUME NEW d \in Clients \ {c}
      PROVE  WindowFine(count'[d], ttl'[d], served'[d], counted'[d], told'[d], errors')
  <2>1. WindowFine(count[d], ttl[d], served[d], counted[d], told[d], errors + 1)
    BY <1>1, ClientFields, FailureBeside
  <2> QED
    BY <1>1, <1>2, <2>1
<1>7. Rate!TypeOK'
  <2> HIDE DEF t1, srv1, cnt1
  <2>1. /\ count' = [count EXCEPT ![c] = count'[c]] /\ ttl' = [ttl EXCEPT ![c] = ttl'[c]]
        /\ served' = [served EXCEPT ![c] = served'[c]] /\ counted' = [counted EXCEPT ![c] = counted'[c]]
        /\ told' = [told EXCEPT ![c] = told'[c]]
    BY DEF Rate!Request, Rate!IncrWithWindow, Rate!Tell, Rate!TypeOK
  <2>2. /\ count'[c] \in Nat /\ ttl'[c] \in 0..RateLimitWindow /\ (count'[c] = 0 <=> ttl'[c] = 0)
        /\ served'[c] \in Histories /\ counted'[c] \in Histories
        /\ told'[c] \in {"nothing", "passed", "refused"}
    BY <1>3, <1>4, ClientFields
  <2> QED
    BY <1>1, <2>1, <2>2 DEF Rate!TypeOK, Histories
<1> QED
  BY <1>5, <1>6, <1>7

\* Time passes for all of them.
LEMMA TickKept ==
    ASSUME RateInv, Rate!Tick
    PROVE  RateInv'
<1> USE DEF RateInv
<1>1. ASSUME NEW c \in Clients
      PROVE  /\ count'[c] = IF ttl[c] <= 1 THEN 0 ELSE count[c]
             /\ ttl'[c] = IF ttl[c] = 0 THEN 0 ELSE ttl[c] - 1
             /\ served'[c] = Rate!Later(served[c]) /\ counted'[c] = Rate!Later(counted[c])
             /\ told'[c] = "nothing"
  BY DEF Rate!Tick
<1>2. errors' = errors /\ errors \in Nat
  BY AuthAssumption DEF Rate!Tick, Rate!TypeOK
<1>3. ASSUME NEW c \in Clients
      PROVE  WindowFine(count'[c], ttl'[c], served'[c], counted'[c], told'[c], errors')
  <2>1. WindowFine(IF ttl[c] <= 1 THEN 0 ELSE count[c], IF ttl[c] = 0 THEN 0 ELSE ttl[c] - 1,
                   Rate!Later(served[c]), Rate!Later(counted[c]), "nothing", errors)
    BY <1>2, ClientFields, TickFine
  <2> QED
    BY <1>1, <1>2, <2>1
<1>4. Rate!TypeOK'
  <2>1. ASSUME NEW c \in Clients
        PROVE  /\ count'[c] \in Nat /\ ttl'[c] \in 0..RateLimitWindow
               /\ (count'[c] = 0 <=> ttl'[c] = 0)
               /\ served'[c] \in Histories /\ counted'[c] \in Histories
    <3>1. /\ count[c] \in Nat /\ ttl[c] \in 0..RateLimitWindow /\ (count[c] = 0 <=> ttl[c] = 0)
          /\ RateLimitWindow \in Nat
      BY ClientFields, RateAssumption
    <3>2. /\ count'[c] \in Nat /\ ttl'[c] \in 0..RateLimitWindow
          /\ (count'[c] = 0 <=> ttl'[c] = 0)
      BY <1>1, <3>1
    <3>3. served'[c] \in Histories /\ counted'[c] \in Histories
      BY <1>1, ClientFields, Aged
    <3> QED
      BY <3>2, <3>3
  <2>2. /\ DOMAIN count' = Clients /\ DOMAIN ttl' = Clients /\ DOMAIN served' = Clients
        /\ DOMAIN counted' = Clients /\ told' \in [Clients -> {"nothing", "passed", "refused"}]
        /\ count' = [c \in Clients |-> count'[c]] /\ ttl' = [c \in Clients |-> ttl'[c]]
        /\ served' = [c \in Clients |-> served'[c]] /\ counted' = [c \in Clients |-> counted'[c]]
    BY DEF Rate!Tick
  <2>3. errors' \in 0..MaxFaults
    BY <1>2 DEF Rate!TypeOK
  <2> QED
    BY <2>1, <2>2, <2>3 DEF Rate!TypeOK, Histories
<1> QED
  BY <1>3, <1>4

\* A restart of Redis is a failure, and every count begins again.
LEMMA RestartKept ==
    ASSUME RateInv, Rate!Restart
    PROVE  RateInv'
<1> USE DEF RateInv
<1>1. /\ errors' = errors + 1 /\ errors \in Nat /\ errors' \in 0..MaxFaults
      /\ count' = [c \in Clients |-> 0] /\ ttl' = [c \in Clients |-> 0]
      /\ told' = told /\ counted' = counted /\ served' = served
  BY AuthAssumption DEF Rate!Restart, Rate!Fault, Rate!TypeOK
<1>2. ASSUME NEW c \in Clients
      PROVE  WindowFine(count'[c], ttl'[c], served'[c], counted'[c], told'[c], errors')
  <2>1. WindowFine(0, 0, served[c], counted[c], told[c], errors + 1)
    BY <1>1, ClientFields, KeysLost
  <2> QED
    BY <1>1, <2>1
<1>3. Rate!TypeOK'
  BY <1>1, RateAssumption DEF Rate!TypeOK
<1> QED
  BY <1>2, <1>3

\* So it is kept.
LEMMA RateKeeps == RateInv /\ [Rate!Next]_rateVars => RateInv'
<1> SUFFICES ASSUME RateInv, [Rate!Next]_rateVars PROVE RateInv'
  OBVIOUS
<1>1. CASE UNCHANGED rateVars
  BY <1>1 DEF rateVars, RateInv, Rate!TypeOK
<1>2. CASE Rate!Next
  BY <1>2, RequestKept, TickKept, RestartKept DEF Rate!Next
<1> QED
  BY <1>1, <1>2

\* What the middleware promises follows.
LEMMA RatePromises == RateInv => Rate!RefusedOnlyAtLimit /\ Rate!AtMostTwice
<1> SUFFICES ASSUME RateInv PROVE Rate!RefusedOnlyAtLimit /\ Rate!AtMostTwice
  OBVIOUS
<1>1. errors \in Nat
  BY AuthAssumption DEF RateInv, Rate!TypeOK
<1>2. ASSUME NEW c \in Clients
      PROVE  /\ told[c] = "refused" => Rate!Total(counted[c]) > RateLimitRequests
             /\ Rate!Total(served[c]) <= (2 + errors) * RateLimitRequests
  <2> DEFINE A == Upto(served[c], RateLimitWindow - 1)
             P == RateLimitRequests * errors
  <2>1. WindowFine(count[c], ttl[c], served[c], counted[c], told[c], errors)
    BY DEF RateInv
  <2>2. /\ A \in Nat /\ count[c] \in Nat
    <3>1. RateLimitWindow - 1 \in Rate!Ages
      BY RateAssumption DEF Rate!Ages
    <3> QED
      BY <3>1, ClientFields, UptoFacts DEF RateInv
  <2>3. P \in Nat /\ RateLimitRequests \in Nat /\ (2 + errors) * RateLimitRequests = P + 2 * RateLimitRequests
    BY <1>1, OneMoreLimit, RateAssumption
  <2>4. A <= P + 2 * RateLimitRequests
    <3> HIDE DEF A, P
    <3>1. CASE ttl[c] = 0
      <4>1. A <= RateLimitRequests + P
        BY <2>1, <3>1 DEF WindowFine, A, P
      <4> QED
        BY <4>1, <2>2, <2>3
    <3>2. CASE ttl[c] # 0
      <4>1. A <= (IF count[c] < RateLimitRequests THEN count[c] ELSE RateLimitRequests)
                     + RateLimitRequests + P
        BY <2>1, <3>2 DEF WindowFine, A, P
      <4> QED
        BY <4>1, <2>2, <2>3
    <3> QED
      BY <3>1, <3>2
  <2>5. told[c] = "refused" => Upto(counted[c], RateLimitWindow - 1) > RateLimitRequests
    BY <2>1 DEF WindowFine
  <2> QED
    BY <2>3, <2>4, <2>5, TotalIs
<1> QED
  BY <1>2 DEF Rate!RefusedOnlyAtLimit, Rate!AtMostTwice

-----------------------------------------------------------------------------
(* Feature flags *)

\* The locals of the calls and the contents of the cache.
FlagTyped ==
    /\ Flag!TypeOK
    /\ reader \in [Readers -> [pc : {"idle", "find", "fill", "done", "failed"}, flag : Flags \cup {None},
                              enabled : BOOLEAN, version : Nat]]
    /\ updater \in [Updaters -> [pc : {"idle", "bust", "done"}, flag : Flags \cup {None}]]
    /\ cached \in [Flags -> {None} \cup [enabled : BOOLEAN, version : Nat]]
    /\ excused \in [Flags -> SUBSET Nat]
    /\ \A r \in Readers : reader[r].pc \in {"find", "fill"} => reader[r].flag \in Flags
    /\ \A r \in Readers : reader[r].pc = "fill" => reader[r].version <= version[reader[r].flag]
    /\ \A u \in Updaters : updater[u].pc = "bust" => updater[u].flag \in Flags

\* A version that is that of the document, or may outlive it.
Fresh(f, v) == v = version[f] \/ v \in excused[f]

\* While no update is between its steps, what is cached and what a reader is about to
\* cache is fresh or excused.
FreshInv ==
    \A f \in Flags : ~Flag!Busting(f) =>
        /\ cached[f] # None => Fresh(f, cached[f].version)
        /\ \A r \in Readers : reader[r].pc = "fill" /\ reader[r].flag = f => Fresh(f, reader[r].version)

\* What the steps of the flags keep.
FlagInv == FlagTyped /\ FreshInv

\* Nothing is cached at first.
LEMMA FlagStarts == Flag!Init => FlagInv
<1> SUFFICES ASSUME Flag!Init PROVE FlagInv
  OBVIOUS
<1>1. Flag!TypeOK
  <2>1. flag \in [Flags -> BOOLEAN \cup {None}]
    <3>1. {None, TRUE} \subseteq BOOLEAN \cup {None}
      BY Zenon
    <3> QED
      BY <3>1 DEF Flag!Init
  <2> QED
    BY <2>1, FlagAssumption, AuthAssumption DEF Flag!Init, Flag!TypeOK, Flag!NotReading, Flag!NotUpdating
<1>2. FlagTyped
  BY <1>1 DEF Flag!Init, FlagTyped, Flag!NotReading, Flag!NotUpdating
<1>3. FreshInv
  BY DEF Flag!Init, FreshInv, Flag!NotReading
<1> QED
  BY <1>2, <1>3 DEF FlagInv

\* A step of a reader: it has what it read, and leaves flags and updates alone.
LEMMA ReaderKeeps ==
    ASSUME FlagInv, NEW r \in Readers,
           \/ \E f \in Flags : Flag!Get(r, f)
           \/ Flag!FindOne(r) \/ Flag!FindFails(r) \/ Flag!Fill(r) \/ Flag!Again(r)
    PROVE  FlagInv'
<1> USE DEF FlagInv
<1>1. /\ UNCHANGED <<flag, version, updater, excused>>
      /\ misses' \in 0..MaxFaults
  <2>1. UNCHANGED <<flag, version, updater, excused>> /\ (misses' = misses \/ Flag!Fault)
    BY DEF Flag!Get, Flag!FindOne, Flag!FindFails, Flag!Fill, Flag!Again
  <2>2. misses \in 0..MaxFaults /\ MaxFaults \in Nat
    BY AuthAssumption DEF FlagTyped, Flag!TypeOK
  <2> QED
    BY <2>1, <2>2 DEF Flag!Fault
<1>2. \A f \in Flags : Flag!Busting(f)' <=> Flag!Busting(f)
  BY <1>1 DEF Flag!Busting
<1>3. \A f, v : Fresh(f, v)' <=> Fresh(f, v)
  BY <1>1 DEF Fresh
<1> DEFINE R == [pc : {"idle", "find", "fill", "done", "failed"}, flag : Flags \cup {None},
                 enabled : BOOLEAN, version : Nat]
<1>4. /\ \A x \in Readers : reader[x] \in R
      /\ \A f \in Flags : version[f] \in Nat /\ version[f] \in 0..MaxVersion
      /\ \A f \in Flags : cached[f] # None => cached[f] \in [enabled : BOOLEAN, version : Nat]
  BY FlagAssumption DEF FlagTyped, Flag!TypeOK
\* What the call is about to fill in, and what is cached.
<1>5. ASSUME reader'[r] \in R, reader' = [reader EXCEPT ![r] = reader'[r]],
             cached' \in [Flags -> {None} \cup [enabled : BOOLEAN, version : Nat]],
             reader'[r].pc \in {"find", "fill"} => reader'[r].flag \in Flags,
             reader'[r].pc = "fill" => reader'[r].version = version[reader'[r].flag],
             \A f \in Flags : cached'[f] # None =>
                 \/ cached'[f] = cached[f]
                 \/ /\ reader[r].pc = "fill" /\ reader[r].flag = f
                    /\ cached'[f].version = reader[r].version
      PROVE  FlagInv'
  <2>1. ASSUME NEW f \in Flags, cached'[f] # None
        PROVE  /\ cached'[f].version \in 0..version[f]
               /\ ~Flag!Busting(f) => Fresh(f, cached'[f].version)
    <3>1. CASE cached'[f] = cached[f]
      BY <2>1, <3>1 DEF FlagTyped, Flag!TypeOK, FreshInv
    <3>2. CASE /\ reader[r].pc = "fill" /\ reader[r].flag = f
               /\ cached'[f].version = reader[r].version
      BY <3>2, <1>4 DEF FlagTyped, FreshInv
    <3> QED
      BY <1>5, <2>1, <3>1, <3>2
  <2>2. Flag!TypeOK'
    <3>1. ASSUME NEW x \in Readers
          PROVE  reader'[x].pc \in {"idle", "find", "fill", "done", "failed"}
      <4>1. CASE x = r
        BY <1>5, <4>1
      <4>2. CASE x # r
        BY <1>5, <4>2 DEF FlagTyped, Flag!TypeOK
      <4> QED
        BY <4>1, <4>2
    <3> QED
      BY <1>1, <2>1, <3>1 DEF FlagTyped, Flag!TypeOK
  <2>3. ASSUME NEW x \in Readers
        PROVE  /\ reader'[x].pc \in {"find", "fill"} => reader'[x].flag \in Flags
               /\ reader'[x].pc = "fill" => reader'[x].version <= version[reader'[x].flag]
    BY <1>4, <1>5 DEF FlagTyped
  <2>4. reader' \in [Readers -> R]
    BY <1>5 DEF FlagTyped
  <2>5. FlagTyped'
    BY <1>1, <1>5, <2>2, <2>3, <2>4 DEF FlagTyped
  <2>6. FreshInv'
    <3>1. ASSUME NEW f \in Flags, ~Flag!Busting(f), NEW x \in Readers,
                 reader'[x].pc = "fill", reader'[x].flag = f
          PROVE  Fresh(f, reader'[x].version)
      <4>1. CASE x = r
        BY <1>5, <3>1, <4>1 DEF Fresh
      <4>2. CASE x # r
        BY <1>5, <3>1, <4>2 DEF FreshInv, FlagTyped
      <4> QED
        BY <4>1, <4>2
    <3> QED
      BY <1>2, <1>3, <2>1, <3>1 DEF FreshInv
  <2> QED
    BY <2>5, <2>6
<1>6. CASE \E f \in Flags : Flag!Get(r, f)
  <2>1. PICK f \in Flags : Flag!Get(r, f)
    BY <1>6
  <2>2. cached' = cached
    BY <2>1 DEF Flag!Get
  <2>3. reader'[r] \in R /\ reader' = [reader EXCEPT ![r] = reader'[r]] /\ reader'[r].pc # "fill"
        /\ (reader'[r].pc \in {"find", "fill"} => reader'[r].flag \in Flags)
    <3>1. CASE cached[f] # None /\ Flag!Answer(r, f, cached[f].enabled, cached[f].version)
      <4>1. cached[f].enabled \in BOOLEAN /\ cached[f].version \in Nat
        BY <1>4, <3>1
      <4> QED
        BY <3>1, <4>1 DEF Flag!Answer, FlagTyped
    <3>2. CASE reader' = [reader EXCEPT ![r] = [Flag!NotReading EXCEPT !.pc = "find", !.flag = f]]
      BY <3>2 DEF Flag!NotReading, FlagTyped
    <3> QED
      BY <2>1, <3>1, <3>2 DEF Flag!Get
  <2> HIDE DEF R
  <2> QED
    BY <1>5, <2>2, <2>3 DEF FlagTyped
<1>7. CASE Flag!FindOne(r)
  <2>1. /\ cached' = cached /\ reader[r].flag \in Flags
    BY <1>7 DEF Flag!FindOne, FlagTyped
  <2>2. /\ reader'[r] \in R /\ reader' = [reader EXCEPT ![r] = reader'[r]]
        /\ reader'[r].flag = reader[r].flag /\ reader'[r].version = version[reader[r].flag]
    BY <1>4, <1>7, <2>1 DEF Flag!FindOne, Flag!IsOn, FlagTyped
  <2> HIDE DEF R
  <2> QED
    BY <1>5, <2>1, <2>2 DEF FlagTyped
<1>8. CASE Flag!FindFails(r) \/ Flag!Again(r)
  <2>1. cached' = cached
    BY <1>8 DEF Flag!FindFails, Flag!Again
  <2>2. /\ reader'[r] \in R /\ reader' = [reader EXCEPT ![r] = reader'[r]]
        /\ reader'[r].pc \in {"idle", "failed"}
    <3>1. CASE Flag!FindFails(r)
      BY <1>4, <3>1 DEF Flag!FindFails, FlagTyped
    <3>2. CASE Flag!Again(r)
      BY <1>4, <3>2 DEF Flag!Again, Flag!NotReading, FlagTyped
    <3> QED
      BY <1>8, <3>1, <3>2
  <2> HIDE DEF R
  <2> QED
    BY <1>5, <2>1, <2>2 DEF FlagTyped
<1>9. CASE Flag!Fill(r)
  <2>1. /\ reader'[r] \in R /\ reader' = [reader EXCEPT ![r] = reader'[r]]
        /\ reader'[r].pc = "done" /\ reader[r].pc = "fill" /\ reader[r].flag \in Flags
    BY <1>4, <1>9 DEF Flag!Fill, FlagTyped
  <2>2. reader[r].enabled \in BOOLEAN /\ reader[r].version \in Nat
    BY <1>4
  <2>3. /\ cached' \in [Flags -> {None} \cup [enabled : BOOLEAN, version : Nat]]
        /\ \A f \in Flags : cached'[f] # None =>
             \/ cached'[f] = cached[f]
             \/ reader[r].flag = f /\ cached'[f].version = reader[r].version
    <3>1. CASE cached' = cached
      BY <3>1 DEF FlagTyped
    <3>2. CASE cached' = [cached EXCEPT ![reader[r].flag] =
                              [enabled |-> reader[r].enabled, version |-> reader[r].version]]
      BY <2>1, <2>2, <3>2 DEF FlagTyped
    <3> QED
      BY <1>9, <3>1, <3>2 DEF Flag!Fill
  <2> HIDE DEF R
  <2> QED
    BY <1>5, <2>1, <2>3
<1> QED
  BY <1>6, <1>7, <1>8, <1>9

\* Versions in hand or in the cache are numbers.
LEMMA VersionSets ==
    ASSUME FlagTyped, NEW f \in Flags
    PROVE  /\ Flag!InHand(f) \subseteq Nat /\ Flag!InCache(f) \subseteq Nat
           /\ \A r \in Readers : reader[r].pc = "fill" /\ reader[r].flag = f
                   => reader[r].version \in Flag!InHand(f)
           /\ cached[f] # None => cached[f].version \in Flag!InCache(f)
<1>1. \A r \in Readers : reader[r].version \in Nat
  BY DEF FlagTyped
<1>2. cached[f] # None => cached[f].version \in Nat
  BY DEF FlagTyped
<1> QED
  BY <1>1, <1>2 DEF Flag!InHand, Flag!InCache

\* A document is written: the versions of the others stand, and what was read or cached
\* before is not newer.
LEMMA WrittenKeeps ==
    ASSUME FlagTyped, NEW f \in Flags, NEW enabled \in BOOLEAN, Flag!Written(f, enabled),
           UNCHANGED <<cached, reader, misses>>, excused' \in [Flags -> SUBSET Nat],
           \A u \in Updaters : updater'[u].pc = "bust" => updater'[u].flag \in Flags,
           updater' \in [Updaters -> [pc : {"idle", "bust", "done"}, flag : Flags \cup {None}]]
    PROVE  FlagTyped' /\ \A g \in Flags \ {f} : version'[g] = version[g]
<1>1. /\ version' \in [Flags -> 0..MaxVersion] /\ version'[f] = version[f] + 1
      /\ \A g \in Flags \ {f} : version'[g] = version[g]
      /\ \A g \in Flags : version[g] \in Nat /\ version'[g] \in Nat
  BY FlagAssumption DEF Flag!Written, FlagTyped, Flag!TypeOK
<1>2. flag' \in [Flags -> BOOLEAN \cup {None}]
  BY DEF Flag!Written, FlagTyped, Flag!TypeOK
<1>3. \A g \in Flags : version[g] <= version'[g]
  BY <1>1
<1>4. ASSUME NEW g \in Flags, cached[g] # None PROVE cached[g].version \in 0..version'[g]
  BY <1>1, <1>3, <1>4 DEF FlagTyped, Flag!TypeOK
<1>5. ASSUME NEW r \in Readers, reader[r].pc = "fill"
      PROVE  reader[r].version <= version'[reader[r].flag]
  <2>1. reader[r].flag \in Flags /\ reader[r].version \in Nat /\ reader[r].version <= version[reader[r].flag]
    BY <1>5 DEF FlagTyped
  <2> QED
    BY <1>1, <1>3, <2>1
<1>6. \A u \in Updaters : updater'[u].pc \in {"idle", "bust", "done"}
  OBVIOUS
<1>7. Flag!TypeOK'
  BY <1>1, <1>2, <1>4, <1>6 DEF FlagTyped, Flag!TypeOK
<1> QED
  BY <1>1, <1>5, <1>7 DEF FlagTyped

\* An update makes what is held stale, and is between its steps.
LEMMA UpdateKeeps ==
    ASSUME FlagInv, NEW u \in Updaters, NEW f \in Flags, NEW enabled \in BOOLEAN,
           Flag!FindOneAndUpdate(u, f, enabled)
    PROVE  FlagInv'
<1> USE DEF FlagInv
<1>1. /\ updater[u].pc = "idle" /\ updater' = [updater EXCEPT ![u] = [pc |-> "bust", flag |-> f]]
      /\ Flag!Written(f, enabled) /\ UNCHANGED <<cached, reader, excused, misses>>
  BY DEF Flag!FindOneAndUpdate
<1>2. /\ updater' \in [Updaters -> [pc : {"idle", "bust", "done"}, flag : Flags \cup {None}]]
      /\ updater'[u] = [pc |-> "bust", flag |-> f]
      /\ \A v \in Updaters \ {u} : updater'[v] = updater[v]
  BY <1>1 DEF FlagTyped
<1>3. \A v \in Updaters : updater'[v].pc = "bust" => updater'[v].flag \in Flags
  BY <1>2 DEF FlagTyped
<1>4. FlagTyped' /\ \A g \in Flags \ {f} : version'[g] = version[g]
  BY <1>1, <1>2, <1>3, WrittenKeeps DEF FlagTyped
<1>5. Flag!Busting(f)'
  BY <1>2 DEF Flag!Busting
<1>6. ASSUME NEW g \in Flags \ {f}, ~Flag!Busting(g)' PROVE ~Flag!Busting(g)
  <2>1. ASSUME NEW v \in Updaters, updater[v] = [pc |-> "bust", flag |-> g] PROVE FALSE
    <3>1. v # u
      BY <1>1, <2>1
    <3> QED
      BY <1>2, <1>6, <2>1, <3>1 DEF Flag!Busting
  <2> QED
    BY <2>1 DEF Flag!Busting
<1>7. FreshInv'
  <2>1. ASSUME NEW g \in Flags, ~Flag!Busting(g)'
        PROVE  /\ cached'[g] # None => Fresh(g, cached[g].version)'
               /\ \A r \in Readers : reader'[r].pc = "fill" /\ reader'[r].flag = g
                       => Fresh(g, reader[r].version)'
    <3>1. g # f /\ ~Flag!Busting(g)
      BY <1>5, <1>6, <2>1
    <3>2. version'[g] = version[g] /\ excused' = excused
      BY <1>1, <1>4, <3>1
    <3> QED
      BY <1>1, <3>1, <3>2 DEF FreshInv, Fresh
  <2> QED
    BY <2>1 DEF FreshInv
<1> QED
  BY <1>4, <1>7

\* The end of an update leaves what a reader has in hand, which is excused.
LEMMA BustKeeps ==
    ASSUME FlagInv, NEW u \in Updaters, Flag!Bust(u)
    PROVE  FlagInv'
<1> USE DEF FlagInv
<1> DEFINE f == updater[u].flag
<1>1. /\ updater[u].pc = "bust" /\ updater' = [updater EXCEPT ![u].pc = "done"]
      /\ UNCHANGED <<flag, version, reader>>
      /\ \/ /\ cached' = [cached EXCEPT ![f] = None]
            /\ excused' = [excused EXCEPT ![f] = @ \cup Flag!InHand(f)] /\ misses' = misses
         \/ /\ cached' = cached /\ Flag!Fault
            /\ excused' = [excused EXCEPT ![f] = @ \cup Flag!InHand(f) \cup Flag!InCache(f)]
  BY DEF Flag!Bust, Flag!Busted
<1>2. f \in Flags
  BY <1>1 DEF FlagTyped
<1> HIDE DEF f
<1>3. /\ Flag!InHand(f) \subseteq Nat /\ Flag!InCache(f) \subseteq Nat
      /\ \A r \in Readers : reader[r].pc = "fill" /\ reader[r].flag = f
                   => reader[r].version \in Flag!InHand(f)
      /\ cached[f] # None => cached[f].version \in Flag!InCache(f)
  BY <1>2, VersionSets
<1>4. /\ excused' \in [Flags -> SUBSET Nat]
      /\ cached' \in [Flags -> {None} \cup [enabled : BOOLEAN, version : Nat]]
      /\ \A g \in Flags \ {f} : excused'[g] = excused[g] /\ cached'[g] = cached[g]
      /\ Flag!InHand(f) \subseteq excused'[f]
      /\ cached'[f] = None \/ (cached'[f] = cached[f] /\ Flag!InCache(f) \subseteq excused'[f])
  <2>1. excused \in [Flags -> SUBSET Nat] /\ excused[f] \subseteq Nat
    BY <1>2 DEF FlagTyped
  <2>2. cached \in [Flags -> {None} \cup [enabled : BOOLEAN, version : Nat]]
    BY DEF FlagTyped
  <2> QED
    BY <1>1, <1>2, <1>3, <2>1, <2>2
<1>5. misses' \in 0..MaxFaults
  <2>1. misses \in 0..MaxFaults /\ MaxFaults \in Nat
    BY AuthAssumption DEF FlagTyped, Flag!TypeOK
  <2> QED
    BY <1>1, <2>1 DEF Flag!Fault
<1>6. /\ updater' \in [Updaters -> [pc : {"idle", "bust", "done"}, flag : Flags \cup {None}]]
      /\ \A v \in Updaters \ {u} : updater'[v] = updater[v]
      /\ updater'[u].pc = "done"
  BY <1>1 DEF FlagTyped
<1>7. FlagTyped'
  <2>1. \A g \in Flags : cached'[g] # None => cached'[g].version \in 0..version[g]
    BY <1>2, <1>4 DEF FlagTyped, Flag!TypeOK
  <2>2. Flag!TypeOK'
    <3>1. \A v \in Updaters : updater'[v].pc \in {"idle", "bust", "done"}
      BY <1>6
    <3> QED
      BY <1>1, <1>5, <2>1, <3>1 DEF FlagTyped, Flag!TypeOK
  <2>3. \A v \in Updaters : updater'[v].pc = "bust" => updater'[v].flag \in Flags
    BY <1>6 DEF FlagTyped
  <2> QED
    BY <1>1, <1>4, <1>6, <2>2, <2>3 DEF FlagTyped
<1>8. ASSUME NEW g \in Flags \ {f}, ~Flag!Busting(g)' PROVE ~Flag!Busting(g)
  <2>1. ASSUME NEW v \in Updaters, updater[v] = [pc |-> "bust", flag |-> g] PROVE FALSE
    <3>1. v # u
      BY <2>1 DEF f
    <3> QED
      BY <1>6, <1>8, <2>1, <3>1 DEF Flag!Busting
  <2> QED
    BY <2>1 DEF Flag!Busting
<1>9. FreshInv'
  <2>1. ASSUME NEW g \in Flags, ~Flag!Busting(g)'
        PROVE  /\ cached'[g] # None => Fresh(g, cached[g].version)'
               /\ \A r \in Readers : reader'[r].pc = "fill" /\ reader'[r].flag = g
                       => Fresh(g, reader[r].version)'
    <3>1. CASE g = f
      <4>1. cached'[f] # None => cached'[f].version \in excused'[f]
        BY <1>3, <1>4
      <4>2. \A r \in Readers : reader'[r].pc = "fill" /\ reader'[r].flag = f
                => reader'[r].version \in excused'[f]
        BY <1>1, <1>3, <1>4
      <4> QED
        BY <3>1, <4>1, <4>2 DEF Fresh
    <3>2. CASE g # f
      <4>1. version'[g] = version[g] /\ excused'[g] = excused[g] /\ cached'[g] = cached[g]
        BY <1>1, <1>4, <3>2
      <4>2. ~Flag!Busting(g)
        BY <1>8, <2>1, <3>2
      <4> QED
        BY <1>1, <4>1, <4>2 DEF FreshInv, Fresh
    <3> QED
      BY <3>1, <3>2
  <2> QED
    BY <2>1 DEF FreshInv
<1> QED
  BY <1>7, <1>9

\* The seed script excuses what is held and cached when it writes.
LEMMA SeedKeeps ==
    ASSUME FlagInv, NEW f \in Flags, Flag!Seed(f)
    PROVE  FlagInv'
<1> USE DEF FlagInv
<1>1. /\ f \in DOMAIN Seeded /\ Flag!Written(f, Seeded[f]) /\ UNCHANGED <<cached, reader, updater, misses>>
      /\ excused' = [excused EXCEPT ![f] = @ \cup Flag!InHand(f) \cup Flag!InCache(f)]
  BY DEF Flag!Seed
<1>2. Seeded[f] \in BOOLEAN
  BY <1>1, FlagAssumption
<1>3. /\ Flag!InHand(f) \subseteq Nat /\ Flag!InCache(f) \subseteq Nat
      /\ \A r \in Readers : reader[r].pc = "fill" /\ reader[r].flag = f
                   => reader[r].version \in Flag!InHand(f)
      /\ cached[f] # None => cached[f].version \in Flag!InCache(f)
  BY VersionSets
<1>4. /\ excused' \in [Flags -> SUBSET Nat]
      /\ \A g \in Flags \ {f} : excused'[g] = excused[g]
      /\ Flag!InHand(f) \subseteq excused'[f] /\ Flag!InCache(f) \subseteq excused'[f]
  <2>1. excused \in [Flags -> SUBSET Nat] /\ excused[f] \subseteq Nat
    BY DEF FlagTyped
  <2> QED
    BY <1>1, <1>3, <2>1
<1>5. FlagTyped' /\ \A g \in Flags \ {f} : version'[g] = version[g]
  BY <1>1, <1>2, <1>4, WrittenKeeps DEF FlagTyped
<1>6. FreshInv'
  <2>1. ASSUME NEW g \in Flags, ~Flag!Busting(g)'
        PROVE  /\ cached'[g] # None => Fresh(g, cached[g].version)'
               /\ \A r \in Readers : reader'[r].pc = "fill" /\ reader'[r].flag = g
                       => Fresh(g, reader[r].version)'
    <3>1. CASE g = f
      BY <1>1, <1>3, <1>4, <3>1 DEF Fresh
    <3>2. CASE g # f
      <4>1. version'[g] = version[g] /\ excused'[g] = excused[g] /\ cached'[g] = cached[g]
        BY <1>1, <1>4, <1>5, <3>2
      <4>2. ~Flag!Busting(g)
        BY <1>1, <2>1 DEF Flag!Busting
      <4> QED
        BY <1>1, <4>1, <4>2 DEF FreshInv, Fresh
    <3> QED
      BY <3>1, <3>2
  <2> QED
    BY <2>1 DEF FreshInv
<1> QED
  BY <1>5, <1>6

\* An entry that expires is behind nothing.
LEMMA FlagExpireKeeps ==
    ASSUME FlagInv, NEW f \in Flags, Flag!Expire(f)
    PROVE  FlagInv'
<1> USE DEF FlagInv
<1>1. /\ cached' = [cached EXCEPT ![f] = None]
      /\ UNCHANGED <<flag, version, reader, updater, excused, misses>>
  BY DEF Flag!Expire
<1>2. /\ cached' \in [Flags -> {None} \cup [enabled : BOOLEAN, version : Nat]]
      /\ \A g \in Flags : cached'[g] # None => cached'[g] = cached[g]
  BY <1>1 DEF FlagTyped
<1>3. FlagTyped'
  BY <1>1, <1>2 DEF FlagTyped, Flag!TypeOK
<1>4. FreshInv'
  BY <1>1, <1>2 DEF FreshInv, Fresh, Flag!Busting
<1> QED
  BY <1>3, <1>4

\* So it is kept.
LEMMA FlagKeeps == FlagInv /\ [Flag!Next]_flagVars => FlagInv'
<1> SUFFICES ASSUME FlagInv, [Flag!Next]_flagVars PROVE FlagInv'
  OBVIOUS
<1>1. CASE UNCHANGED flagVars
  BY <1>1 DEF flagVars, FlagInv, FlagTyped, Flag!TypeOK, FreshInv, Fresh, Flag!Busting
<1>2. CASE Flag!Next
  BY <1>2, ReaderKeeps, UpdateKeeps, BustKeeps, SeedKeeps, FlagExpireKeeps DEF Flag!Next
<1> QED
  BY <1>1, <1>2

\* What the service promises follows.
LEMMA FlagPromises == FlagInv => Flag!StaleOnlyIfRaced
  BY DEF FlagInv, FreshInv, Fresh, Flag!StaleOnlyIfRaced

-----------------------------------------------------------------------------
(* API keys *)

\* A stored key.
KeyRow == [prefix : Prefixes, isActive : BOOLEAN, expired : BOOLEAN]

\* The locals of a call of Create.
CreateCall == [pc : {"idle", "count", "insert", "record", "done", "failed", "exhausted"},
               attempt : 0..MaxAttempts, prefix : Prefixes \cup {None}]

\* A key has a row when its Create is past the insert, and draws while it has attempts left.
KeyTyped ==
    /\ ApiKey!TypeOK
    /\ row \in [ApiKeyIds -> {None} \cup KeyRow]
    /\ create \in [ApiKeyIds -> CreateCall]
    /\ during \in [ApiKeyIds -> SUBSET ApiKeyIds]
    /\ DOMAIN caller = Callers
    /\ lost \in Nat
    /\ \A k \in ApiKeyIds :
          /\ row[k] # None <=> create[k].pc \in {"record", "done"}
          /\ create[k].pc = "insert" => create[k].prefix \in Prefixes
          /\ create[k].pc \in {"idle", "count"} => create[k].attempt < MaxAttempts

\* Two calls of Create were under way together.
Overlap(j, k) == j \in during[k] \/ k \in during[j]

\* Calls under way together are in the books; so are two keys with one prefix, the second
\* stored or about to be.
OverlapInv ==
    \A j, k \in ApiKeyIds : j # k =>
        /\ j \in ApiKey!UnderWay /\ k \in ApiKey!UnderWay => Overlap(j, k)
        /\ ApiKey!Active(j) /\ create[k].pc = "insert" /\ row[j].prefix = create[k].prefix => Overlap(j, k)
        /\ ApiKey!Active(j) /\ ApiKey!Active(k) /\ row[j].prefix = row[k].prefix => Overlap(j, k)

\* What the steps of the keys keep.
KeyInv == KeyTyped /\ OverlapInv /\ ApiKey!RefusedOnlyIfRaced /\ ApiKey!TrailFollowsTheKeys

\* The keys whose Create or revocation has no entry.
Uncreated == {k \in ApiKeyIds : create[k].pc = "done" /\
                 \A e \in trail : ~(e.action = "apiKey.create" /\ e.entityId = k)}
Unrevoked == {k \in ApiKeyIds : row[k] # None /\ ~row[k].isActive /\ k \notin revoking /\
                 \A e \in trail : ~(e.action = "apiKey.revoke" /\ e.entityId = k)}

\* The property about the trail, in these sets.
LEMMA TrailIs ==
    ApiKey!TrailFollowsTheKeys <=>
        /\ \A e \in trail : e.action = "apiKey.create" => row[e.entityId] # None
        /\ Cardinality(Uncreated) <= lost
        /\ Cardinality(Unrevoked) <= lost
  BY SameCount DEF ApiKey!TrailFollowsTheKeys, Uncreated, Unrevoked

\* No key is there at first.
LEMMA KeyStarts == ApiKey!Init => KeyInv
<1> SUFFICES ASSUME ApiKey!Init PROVE KeyInv
  OBVIOUS
<1>1. ApiKey!TypeOK
  BY AuthAssumption, KeyAssumption DEF ApiKey!Init, ApiKey!TypeOK, ApiKey!Idle
<1>2. KeyTyped
  BY <1>1, KeyAssumption DEF ApiKey!Init, KeyTyped, ApiKey!Idle, CreateCall
<1>3. OverlapInv
  BY DEF ApiKey!Init, OverlapInv, ApiKey!UnderWay, ApiKey!Active, ApiKey!Idle
<1>4. ApiKey!RefusedOnlyIfRaced
  BY KeyAssumption DEF ApiKey!Init, ApiKey!RefusedOnlyIfRaced
<1>5. ApiKey!TrailFollowsTheKeys
  <2>1. Uncreated = {} /\ Unrevoked = {} /\ trail = {} /\ lost = 0
    BY DEF Uncreated, Unrevoked, ApiKey!Init, ApiKey!Idle
  <2> QED
    BY <2>1, FS_EmptySet, TrailIs
<1> QED
  BY <1>2, <1>3, <1>4, <1>5 DEF KeyInv

\* Who is under way, and what the fields of a call are.
LEMMA CallFields ==
    ASSUME KeyTyped, NEW k \in ApiKeyIds
    PROVE  /\ create[k] \in CreateCall /\ create[k].attempt \in 0..MaxAttempts
           /\ create[k].prefix \in Prefixes \cup {None}
           /\ k \in ApiKey!UnderWay <=> create[k].pc \in {"insert", "count"}
           /\ row[k] # None => row[k] \in KeyRow
           /\ during[k] \subseteq ApiKeyIds
  BY DEF KeyTyped, CreateCall, ApiKey!UnderWay

\* A failed call is counted.
LEMMA KeyFault ==
    ASSUME KeyTyped, UNCHANGED <<lost, failures>> \/ (ApiKey!Fault /\ (lost' = lost \/ lost' = lost + 1))
    PROVE  failures' \in 0..MaxFaults /\ lost' <= failures' /\ lost' \in Nat /\ lost' >= lost
<1>1. failures \in 0..MaxFaults /\ lost \in Nat /\ lost <= failures /\ MaxFaults \in Nat
  BY AuthAssumption DEF KeyTyped, ApiKey!TypeOK
<1> QED
  BY <1>1 DEF ApiKey!Fault

\* A step of one Create keeps the types when the call is one and agrees with the row.
LEMMA CreateTyped ==
    ASSUME KeyTyped, NEW k \in ApiKeyIds, NEW c \in CreateCall,
           create' = [create EXCEPT ![k] = c],
           row' = row \/ (\E x \in KeyRow : row' = [row EXCEPT ![k] = x]),
           row'[k] # None <=> c.pc \in {"record", "done"},
           c.pc = "insert" => c.prefix \in Prefixes,
           c.pc \in {"idle", "count"} => c.attempt < MaxAttempts,
           UNCHANGED <<revoking, caller, lastUsed, touching>>,
           during' \in [ApiKeyIds -> SUBSET ApiKeyIds],
           failures' \in 0..MaxFaults, lost' <= failures', lost' \in Nat
    PROVE  KeyTyped'
<1>1. row' \in [ApiKeyIds -> {None} \cup KeyRow] /\ \A j \in ApiKeyIds \ {k} : row'[j] = row[j]
  BY DEF KeyTyped
<1>2. /\ create' \in [ApiKeyIds -> CreateCall] /\ create'[k] = c
      /\ \A j \in ApiKeyIds \ {k} : create'[j] = create[j]
  BY DEF KeyTyped
<1>3. ApiKey!TypeOK'
  <2>1. \A j \in ApiKeyIds : row'[j] # None => row'[j] \in KeyRow
    BY <1>1
  <2>2. \A j \in ApiKeyIds : create'[j].attempt \in 0..MaxAttempts
    BY <1>2 DEF CreateCall
  <2> QED
    BY <2>1, <2>2 DEF KeyTyped, ApiKey!TypeOK, KeyRow
<1>4. ASSUME NEW j \in ApiKeyIds
      PROVE  /\ row'[j] # None <=> create'[j].pc \in {"record", "done"}
             /\ create'[j].pc = "insert" => create'[j].prefix \in Prefixes
             /\ create'[j].pc \in {"idle", "count"} => create'[j].attempt < MaxAttempts
  <2>1. CASE j = k
    BY <1>2, <2>1
  <2>2. CASE j # k
    BY <1>1, <1>2, <2>2 DEF KeyTyped
  <2> QED
    BY <2>1, <2>2
<1> QED
  BY <1>1, <1>2, <1>3, <1>4 DEF KeyTyped

\* Calls end and keys are revoked: what overlapped did.
LEMMA OverlapShrinks ==
    ASSUME KeyTyped, OverlapInv, during' = during,
           \A k \in ApiKeyIds :
              /\ create'[k].pc \in {"insert", "count"} => create[k].pc \in {"insert", "count"}
              /\ create'[k].pc = "insert" => create[k].pc = "insert" /\ create'[k].prefix = create[k].prefix
              /\ ApiKey!Active(k)' => ApiKey!Active(k) /\ row'[k].prefix = row[k].prefix
    PROVE  OverlapInv'
<1>1. \A k \in ApiKeyIds : k \in ApiKey!UnderWay' => k \in ApiKey!UnderWay
  BY DEF ApiKey!UnderWay
<1> SUFFICES ASSUME NEW j \in ApiKeyIds, NEW k \in ApiKeyIds, j # k
             PROVE  /\ j \in ApiKey!UnderWay' /\ k \in ApiKey!UnderWay' => Overlap(j, k)
                    /\ ApiKey!Active(j)' /\ create'[k].pc = "insert" /\ row'[j].prefix = create'[k].prefix
                          => Overlap(j, k)
                    /\ ApiKey!Active(j)' /\ ApiKey!Active(k)' /\ row'[j].prefix = row'[k].prefix
                          => Overlap(j, k)
  BY DEF OverlapInv, Overlap
<1> QED
  BY <1>1 DEF OverlapInv

\* The keys without an entry are as many as before, or one more of a lost one.
LEMMA TrailStep ==
    ASSUME KeyTyped, ApiKey!TrailFollowsTheKeys,
           \A e \in trail' : e.action = "apiKey.create" => row'[e.entityId] # None,
           \/ lost' = lost /\ Uncreated' \subseteq Uncreated /\ Unrevoked' \subseteq Unrevoked
           \/ /\ lost' = lost + 1
              /\ \E k : Uncreated' \subseteq Uncreated \cup {k} /\ Unrevoked' \subseteq Unrevoked \cup {k}
    PROVE  ApiKey!TrailFollowsTheKeys'
<1> DEFINE C == Cardinality(Uncreated)   C1 == Cardinality(Uncreated')
           D == Cardinality(Unrevoked)   D1 == Cardinality(Unrevoked')
<1>1. /\ IsFiniteSet(Uncreated) /\ IsFiniteSet(Unrevoked)
      /\ IsFiniteSet(Uncreated') /\ IsFiniteSet(Unrevoked')
  <2>1. /\ Uncreated \in SUBSET ApiKeyIds /\ Unrevoked \in SUBSET ApiKeyIds
        /\ Uncreated' \in SUBSET ApiKeyIds /\ Unrevoked' \in SUBSET ApiKeyIds
    BY DEF Uncreated, Unrevoked
  <2> QED
    BY <2>1, KeyAssumption, FS_Subset
<1>2. C \in Nat /\ D \in Nat /\ C1 \in Nat /\ D1 \in Nat /\ lost \in Nat /\ C <= lost /\ D <= lost
  BY <1>1, FS_CardinalityType, TrailIs DEF KeyTyped
<1>3. CASE lost' = lost /\ Uncreated' \subseteq Uncreated /\ Unrevoked' \subseteq Unrevoked
  <2>1. C1 <= C /\ D1 <= D
    BY <1>1, <1>3, FS_Subset
  <2>2. C1 <= lost' /\ D1 <= lost'
    BY <1>2, <1>3, <2>1
  <2> QED
    BY <2>2, SameCount DEF ApiKey!TrailFollowsTheKeys, Uncreated, Unrevoked
<1>4. CASE /\ lost' = lost + 1
           /\ \E k : Uncreated' \subseteq Uncreated \cup {k} /\ Unrevoked' \subseteq Unrevoked \cup {k}
  <2>1. PICK k : Uncreated' \subseteq Uncreated \cup {k} /\ Unrevoked' \subseteq Unrevoked \cup {k}
    BY <1>4
  <2>2. /\ IsFiniteSet(Uncreated \cup {k}) /\ Cardinality(Uncreated \cup {k}) \in {C, C + 1}
        /\ IsFiniteSet(Unrevoked \cup {k}) /\ Cardinality(Unrevoked \cup {k}) \in {D, D + 1}
    BY <1>1, FS_AddElement
  <2>3. C1 <= Cardinality(Uncreated \cup {k}) /\ D1 <= Cardinality(Unrevoked \cup {k})
    BY <2>1, <2>2, FS_Subset
  <2>4. C1 <= lost' /\ D1 <= lost'
    <3> HIDE DEF C, D, C1, D1
    <3> QED
      BY <1>2, <1>4, <2>2, <2>3
  <2> QED
    BY <2>4, SameCount DEF ApiKey!TrailFollowsTheKeys, Uncreated, Unrevoked
<1> QED
  BY <1>3, <1>4

\* A Create begins beside those under way.
LEMMA BeginKeeps ==
    ASSUME KeyInv, NEW k \in ApiKeyIds, ApiKey!Begin(k)
    PROVE  KeyInv'
<1> USE DEF KeyInv
<1>1. /\ create[k].pc = "idle" /\ create' = [create EXCEPT ![k].pc = "count"]
      /\ UNCHANGED <<row, revoking, caller, lastUsed, touching, trail, revokes, lost, failures>>
      /\ during' = [j \in ApiKeyIds |-> IF j = k THEN ApiKey!UnderWay
                       ELSE IF j \in ApiKey!UnderWay THEN during[j] \cup {k} ELSE during[j]]
  BY DEF ApiKey!Begin
<1> DEFINE c == [create[k] EXCEPT !.pc = "count"]
<1>2. /\ c \in CreateCall /\ create' = [create EXCEPT ![k] = c]
      /\ c.pc = "count" /\ c.attempt = create[k].attempt /\ c.attempt < MaxAttempts
      /\ create'[k] = c
      /\ \A j \in ApiKeyIds \ {k} : create'[j] = create[j]
  BY <1>1 DEF KeyTyped, CreateCall
<1>3. during' \in [ApiKeyIds -> SUBSET ApiKeyIds]
  BY <1>1 DEF KeyTyped, ApiKey!UnderWay
<1>4. row[k] = None
  BY <1>1 DEF KeyTyped
<1>5. failures \in 0..MaxFaults /\ lost <= failures /\ lost \in Nat
  BY DEF KeyTyped, ApiKey!TypeOK
<1> HIDE DEF c
<1>6. KeyTyped'
  BY <1>1, <1>2, <1>3, <1>4, <1>5, CreateTyped
<1>7. ASSUME NEW i \in ApiKeyIds, NEW j \in ApiKeyIds, Overlap(i, j), i # k, j # k PROVE Overlap(i, j)'
  BY <1>1, <1>7 DEF Overlap
<1>8. ASSUME NEW j \in ApiKeyIds, j # k, j \in ApiKey!UnderWay PROVE Overlap(j, k)' /\ Overlap(k, j)'
  BY <1>1, <1>8 DEF Overlap
<1>9. \A j \in ApiKeyIds \ {k} : j \in ApiKey!UnderWay' <=> j \in ApiKey!UnderWay
  BY <1>2 DEF ApiKey!UnderWay
<1>10. OverlapInv'
  <2> SUFFICES ASSUME NEW i \in ApiKeyIds, NEW j \in ApiKeyIds, i # j
               PROVE  /\ i \in ApiKey!UnderWay' /\ j \in ApiKey!UnderWay' => Overlap(i, j)'
                      /\ ApiKey!Active(i)' /\ create'[j].pc = "insert" /\ row'[i].prefix = create'[j].prefix
                            => Overlap(i, j)'
                      /\ ApiKey!Active(i)' /\ ApiKey!Active(j)' /\ row'[i].prefix = row'[j].prefix
                            => Overlap(i, j)'
    BY DEF OverlapInv
  <2>1. CASE i = k
    BY <1>1, <1>2, <1>4, <1>8, <1>9, <2>1 DEF ApiKey!Active
  <2>2. CASE j = k
    BY <1>1, <1>2, <1>4, <1>8, <1>9, <2>2 DEF ApiKey!Active
  <2>3. CASE i # k /\ j # k
    BY <1>1, <1>2, <1>7, <1>9, <2>3 DEF ApiKey!Active, OverlapInv
  <2> QED
    BY <2>1, <2>2, <2>3
<1>11. ApiKey!RefusedOnlyIfRaced'
  BY <1>1 DEF ApiKey!RefusedOnlyIfRaced
<1>12. ApiKey!TrailFollowsTheKeys'
  <2>1. Uncreated' \subseteq Uncreated /\ Unrevoked' = Unrevoked
    BY <1>1, <1>2 DEF Uncreated, Unrevoked
  <2> QED
    BY <1>1, <2>1, TrailStep DEF ApiKey!TrailFollowsTheKeys
<1> QED
  BY <1>6, <1>10, <1>11, <1>12

\* A draw takes a prefix that no active key has.
LEMMA RollKeeps ==
    ASSUME KeyInv, NEW k \in ApiKeyIds, NEW prefix \in Prefixes, ApiKey!Roll(k, prefix)
    PROVE  KeyInv'
<1> USE DEF KeyInv
<1>1. /\ create[k].pc = "count"
      /\ UNCHANGED <<row, revoking, caller, lastUsed, touching, trail, during, revokes, lost, failures>>
  BY DEF ApiKey!Roll
<1>2. PICK c \in CreateCall :
        /\ create' = [create EXCEPT ![k] = c]
        /\ c.pc \in {"count", "exhausted", "insert"}
        /\ c.pc = "count" => c.attempt < MaxAttempts
        /\ c.pc = "insert" => c.prefix = prefix /\ ~ApiKey!PrefixTaken(prefix)
  <2>1. CASE ApiKey!PrefixTaken(prefix)
    <3> DEFINE d == [create[k] EXCEPT !.attempt = @ + 1,
                         !.pc = IF create[k].attempt + 1 = MaxAttempts THEN "exhausted" ELSE "count"]
    <3>1. create[k] \in CreateCall /\ create[k].attempt < MaxAttempts /\ create[k].attempt \in Nat
      BY <1>1 DEF KeyTyped, CreateCall
    <3>2. MaxAttempts \in Nat
      BY KeyAssumption
    <3>3. d \in CreateCall
      <4>1. create[k].attempt + 1 \in 0..MaxAttempts
        BY <3>1, <3>2
      <4>2. (IF create[k].attempt + 1 = MaxAttempts THEN "exhausted" ELSE "count") \in {"exhausted", "count"}
        OBVIOUS
      <4> QED
        BY <3>1, <4>1, <4>2 DEF CreateCall
    <3>4. create' = [create EXCEPT ![k] = d]
      BY <2>1 DEF ApiKey!Roll, KeyTyped
    <3>5. d.pc \in {"count", "exhausted"} /\ (d.pc = "count" => d.attempt < MaxAttempts)
      BY <3>1, <3>2 DEF CreateCall
    <3> HIDE DEF d
    <3> QED
      BY <3>3, <3>4, <3>5
  <2>2. CASE ~ApiKey!PrefixTaken(prefix)
    <3> DEFINE d == [create[k] EXCEPT !.pc = "insert", !.prefix = prefix]
    <3>1. d \in CreateCall /\ d.pc = "insert" /\ d.prefix = prefix
      BY DEF KeyTyped, CreateCall
    <3>2. create' = [create EXCEPT ![k] = d]
      BY <2>2 DEF ApiKey!Roll, KeyTyped
    <3> HIDE DEF d
    <3> QED
      BY <2>2, <3>1, <3>2
  <2> QED
    BY <2>1, <2>2
<1>3. create'[k] = c /\ \A j \in ApiKeyIds \ {k} : create'[j] = create[j]
  BY <1>2 DEF KeyTyped
<1>4. row[k] = None
  BY <1>1 DEF KeyTyped
<1>5. failures \in 0..MaxFaults /\ lost <= failures /\ lost \in Nat /\ during \in [ApiKeyIds -> SUBSET ApiKeyIds]
  BY DEF KeyTyped, ApiKey!TypeOK
<1>6. KeyTyped'
  BY <1>1, <1>2, <1>4, <1>5, CreateTyped
<1>7. \A j \in ApiKeyIds : j \in ApiKey!UnderWay' => j \in ApiKey!UnderWay
  BY <1>1, <1>3 DEF ApiKey!UnderWay
<1>8. OverlapInv'
  <2> SUFFICES ASSUME NEW i \in ApiKeyIds, NEW j \in ApiKeyIds, i # j
               PROVE  /\ i \in ApiKey!UnderWay' /\ j \in ApiKey!UnderWay' => Overlap(i, j)
                      /\ ApiKey!Active(i) /\ create'[j].pc = "insert" /\ row[i].prefix = create'[j].prefix
                            => Overlap(i, j)
                      /\ ApiKey!Active(i) /\ ApiKey!Active(j) /\ row[i].prefix = row[j].prefix
                            => Overlap(i, j)
    BY <1>1 DEF OverlapInv, Overlap, ApiKey!Active
  <2>1. ApiKey!Active(i) /\ create'[j].pc = "insert" /\ row[i].prefix = create'[j].prefix => Overlap(i, j)
    <3>1. CASE j = k
      BY <1>2, <1>3, <3>1 DEF ApiKey!PrefixTaken
    <3>2. CASE j # k
      BY <1>3, <3>2 DEF OverlapInv
    <3> QED
      BY <3>1, <3>2
  <2> QED
    BY <1>7, <2>1 DEF OverlapInv
<1>9. ApiKey!RefusedOnlyIfRaced'
  BY <1>1 DEF ApiKey!RefusedOnlyIfRaced
<1>10. ApiKey!TrailFollowsTheKeys'
  <2>1. Uncreated' \subseteq Uncreated /\ Unrevoked' = Unrevoked
    BY <1>1, <1>2, <1>3 DEF Uncreated, Unrevoked
  <2> QED
    BY <1>1, <2>1, TrailStep DEF ApiKey!TrailFollowsTheKeys
<1> QED
  BY <1>6, <1>8, <1>9, <1>10

\* A key is stored: what was drawn is now active.
LEMMA InsertKeeps ==
    ASSUME KeyInv, NEW k \in ApiKeyIds, ApiKey!Insert(k)
    PROVE  KeyInv'
<1> USE DEF KeyInv
<1> DEFINE x == [prefix |-> create[k].prefix, isActive |-> TRUE, expired |-> FALSE]
           c == [create[k] EXCEPT !.pc = "record"]
<1>1. /\ create[k].pc = "insert" /\ row' = [row EXCEPT ![k] = x]
      /\ UNCHANGED <<revoking, caller, lastUsed, touching, trail, during, revokes, lost, failures>>
  BY DEF ApiKey!Insert
<1>2. /\ x \in KeyRow /\ x # None /\ x.prefix = create[k].prefix
      /\ c \in CreateCall /\ c.pc = "record" /\ create' = [create EXCEPT ![k] = c]
  <2>1. create[k] \in CreateCall /\ create[k].prefix \in Prefixes
    BY <1>1 DEF KeyTyped
  <2>2. c \in CreateCall /\ c.pc = "record"
    BY <2>1 DEF CreateCall
  <2>3. x \in KeyRow
    BY <2>1 DEF KeyRow
  <2>4. x # None
    BY <2>3, KeyAssumption DEF KeyRow
  <2>5. create' = [create EXCEPT ![k] = c]
    BY DEF ApiKey!Insert, KeyTyped
  <2> QED
    BY <2>2, <2>3, <2>4, <2>5
<1> HIDE DEF x, c
<1>3. /\ create'[k] = c /\ row'[k] = x
      /\ \A j \in ApiKeyIds \ {k} : create'[j] = create[j] /\ row'[j] = row[j]
  BY <1>1, <1>2 DEF KeyTyped
<1>5. failures \in 0..MaxFaults /\ lost <= failures /\ lost \in Nat /\ during \in [ApiKeyIds -> SUBSET ApiKeyIds]
  BY DEF KeyTyped, ApiKey!TypeOK
<1>6. KeyTyped'
  BY <1>1, <1>2, <1>3, <1>5, CreateTyped
<1>7. \A j \in ApiKeyIds : j \in ApiKey!UnderWay' => j \in ApiKey!UnderWay
  BY <1>1, <1>2, <1>3 DEF ApiKey!UnderWay
<1>8. k \in ApiKey!UnderWay
  BY <1>1 DEF ApiKey!UnderWay
<1>9. \A i, j : Overlap(i, j) <=> Overlap(j, i)
  BY DEF Overlap
<1>10. OverlapInv'
  <2> SUFFICES ASSUME NEW i \in ApiKeyIds, NEW j \in ApiKeyIds, i # j
               PROVE  /\ i \in ApiKey!UnderWay' /\ j \in ApiKey!UnderWay' => Overlap(i, j)
                      /\ ApiKey!Active(i)' /\ create'[j].pc = "insert" /\ row'[i].prefix = create'[j].prefix
                            => Overlap(i, j)
                      /\ ApiKey!Active(i)' /\ ApiKey!Active(j)' /\ row'[i].prefix = row'[j].prefix
                            => Overlap(i, j)
    BY <1>1 DEF OverlapInv, Overlap
  <2>1. CASE i = k
    <3>1. create'[j] = create[j] /\ row'[j] = row[j]
      BY <1>3, <2>1
    <3>2. create[j].pc = "insert" => Overlap(i, j)
      BY <1>8, <2>1 DEF OverlapInv, ApiKey!UnderWay
    <3>3. ApiKey!Active(j) /\ row[j].prefix = create[k].prefix => Overlap(i, j)
      BY <1>1, <1>9, <2>1 DEF OverlapInv
    <3> QED
      BY <1>2, <1>3, <1>7, <2>1, <3>1, <3>2, <3>3 DEF OverlapInv, ApiKey!Active
  <2>2. CASE j = k
    <3>1. create'[i] = create[i] /\ row'[i] = row[i]
      BY <1>3, <2>2
    <3>2. ApiKey!Active(i) /\ row[i].prefix = create[k].prefix => Overlap(i, j)
      BY <1>1, <2>2 DEF OverlapInv
    <3> QED
      BY <1>2, <1>3, <1>7, <2>2, <3>1, <3>2 DEF OverlapInv, ApiKey!Active
  <2>3. CASE i # k /\ j # k
    BY <1>3, <1>7, <2>3 DEF ApiKey!Active, OverlapInv
  <2> QED
    BY <2>1, <2>2, <2>3
<1>11. ApiKey!RefusedOnlyIfRaced'
  BY <1>1 DEF ApiKey!RefusedOnlyIfRaced
<1>12. ApiKey!TrailFollowsTheKeys'
  <2>1. Uncreated' \subseteq Uncreated
    BY <1>1, <1>2, <1>3 DEF Uncreated
  <2>2. Unrevoked' \subseteq Unrevoked
    <3>1. x.isActive
      BY DEF x
    <3> QED
      BY <1>1, <1>3, <3>1 DEF Unrevoked
  <2>3. \A e \in trail' : e.action = "apiKey.create" => row'[e.entityId] # None
    <3>1. \A e \in trail : e.action = "apiKey.create" => row[e.entityId] # None
      BY DEF ApiKey!TrailFollowsTheKeys
    <3>2. \A y : row[y] # None => row'[y] # None
      BY <1>1, <1>2 DEF KeyTyped
    <3> QED
      BY <1>1, <3>1, <3>2
  <2> QED
    BY <1>1, <2>1, <2>2, <2>3, TrailStep
<1> QED
  BY <1>6, <1>10, <1>11, <1>12

\* A failed Create leaves no row.
LEMMA CreateFailsKeeps ==
    ASSUME KeyInv, NEW k \in ApiKeyIds, ApiKey!CreateFails(k)
    PROVE  KeyInv'
<1> USE DEF KeyInv
<1> DEFINE c == [create[k] EXCEPT !.pc = "failed"]
<1>1. /\ create[k].pc \in {"count", "insert"} /\ ApiKey!Fault
      /\ UNCHANGED <<row, revoking, caller, lastUsed, touching, trail, during, revokes, lost>>
  BY DEF ApiKey!CreateFails
<1>2. c \in CreateCall /\ c.pc = "failed" /\ create' = [create EXCEPT ![k] = c]
  <2>1. create[k] \in CreateCall
    BY DEF KeyTyped
  <2> QED
    BY <2>1 DEF CreateCall, ApiKey!CreateFails, KeyTyped
<1> HIDE DEF c
<1>3. create'[k] = c /\ \A j \in ApiKeyIds \ {k} : create'[j] = create[j]
  BY <1>2 DEF KeyTyped
<1>4. row[k] = None /\ during \in [ApiKeyIds -> SUBSET ApiKeyIds]
  BY <1>1 DEF KeyTyped
<1>5. failures' \in 0..MaxFaults /\ lost' <= failures' /\ lost' \in Nat
  BY <1>1, KeyFault
<1>6. KeyTyped'
  BY <1>1, <1>2, <1>4, <1>5, CreateTyped
<1>7. OverlapInv'
  BY <1>1, <1>2, <1>3, OverlapShrinks DEF ApiKey!Active
<1>8. ApiKey!RefusedOnlyIfRaced'
  BY <1>1 DEF ApiKey!RefusedOnlyIfRaced
<1>9. ApiKey!TrailFollowsTheKeys'
  <2>1. Uncreated' \subseteq Uncreated /\ Unrevoked' = Unrevoked
    BY <1>1, <1>2, <1>3 DEF Uncreated, Unrevoked
  <2> QED
    BY <1>1, <2>1, TrailStep DEF ApiKey!TrailFollowsTheKeys
<1> QED
  BY <1>6, <1>7, <1>8, <1>9

\* A key's create entry is stored, or counted as lost.
LEMMA RecordCreateKeeps ==
    ASSUME KeyInv, NEW k \in ApiKeyIds, ApiKey!RecordCreate(k)
    PROVE  KeyInv'
<1> USE DEF KeyInv
<1> DEFINE c == [create[k] EXCEPT !.pc = "done"]
           e == ApiKey!Entry("apiKey.create", k, None, [isActive |-> TRUE])
<1>1. /\ create[k].pc = "record" /\ ApiKey!Record(e)
      /\ UNCHANGED <<row, revoking, caller, lastUsed, touching, during, revokes>>
  BY DEF ApiKey!RecordCreate
<1>2. c \in CreateCall /\ c.pc = "done" /\ create' = [create EXCEPT ![k] = c]
  <2>1. create[k] \in CreateCall
    BY DEF KeyTyped
  <2> QED
    BY <2>1 DEF CreateCall, ApiKey!RecordCreate, KeyTyped
<1>3. create'[k] = c /\ \A j \in ApiKeyIds \ {k} : create'[j] = create[j]
  BY <1>2 DEF KeyTyped
<1>4. e.action = "apiKey.create" /\ e.entityId = k
  BY DEF ApiKey!Entry
<1>a. \/ trail' = trail \cup {e} /\ UNCHANGED <<lost, failures>>
      \/ ApiKey!Fault /\ lost' = lost + 1 /\ UNCHANGED trail
  BY <1>1 DEF ApiKey!Record
<1> HIDE DEF c, e
<1>5. failures' \in 0..MaxFaults /\ lost' <= failures' /\ lost' \in Nat
  BY <1>a, KeyFault
<1>b. row[k] # None /\ during \in [ApiKeyIds -> SUBSET ApiKeyIds]
  BY <1>1 DEF KeyTyped
<1>6. KeyTyped'
  BY <1>1, <1>2, <1>5, <1>b, CreateTyped
<1>7. OverlapInv'
  BY <1>1, <1>2, <1>3, OverlapShrinks DEF ApiKey!Active
<1>8. ApiKey!RefusedOnlyIfRaced'
  BY <1>1 DEF ApiKey!RefusedOnlyIfRaced
<1>c. \A d \in trail : d.action = "apiKey.create" => row[d.entityId] # None
  BY DEF ApiKey!TrailFollowsTheKeys
<1>9. CASE trail' = trail \cup {e} /\ UNCHANGED <<lost, failures>>
  <2>1. Uncreated' \subseteq Uncreated
    BY <1>2, <1>3, <1>4, <1>9 DEF Uncreated
  <2>2. Unrevoked' \subseteq Unrevoked
    BY <1>1, <1>9 DEF Unrevoked
  <2>3. \A d \in trail' : d.action = "apiKey.create" => row'[d.entityId] # None
    BY <1>1, <1>4, <1>9, <1>b, <1>c
  <2>4. ApiKey!TrailFollowsTheKeys'
    BY <1>9, <2>1, <2>2, <2>3, TrailStep
  <2> QED
    BY <1>6, <1>7, <1>8, <2>4
<1>10. CASE ApiKey!Fault /\ lost' = lost + 1 /\ UNCHANGED trail
  <2>1. Uncreated' \subseteq Uncreated \cup {k} /\ Unrevoked' \subseteq Unrevoked \cup {k}
    BY <1>1, <1>3, <1>10 DEF Uncreated, Unrevoked
  <2>2. ApiKey!TrailFollowsTheKeys'
    BY <1>1, <1>10, <1>c, <2>1, TrailStep
  <2> QED
    BY <1>6, <1>7, <1>8, <2>2
<1> QED
  BY <1>a, <1>9, <1>10

\* Only the callers, or what is touched, change.
LEMMA CallerTyped ==
    ASSUME KeyTyped, UNCHANGED <<row, create, revoking, during, lost>>,
           lastUsed' \subseteq ApiKeyIds, touching' \subseteq ApiKeyIds, DOMAIN caller' = Callers,
           failures' \in 0..MaxFaults, lost' <= failures'
    PROVE  KeyTyped'
  BY DEF KeyTyped, ApiKey!TypeOK

\* What does not touch the keys, their calls and their entries keeps the rest.
LEMMA KeysRest ==
    ASSUME KeyInv, UNCHANGED <<row, create, revoking, trail, during, lost>>
    PROVE  OverlapInv' /\ ApiKey!TrailFollowsTheKeys'
<1> USE DEF KeyInv
<1>1. OverlapInv'
  BY DEF OverlapInv, Overlap, ApiKey!UnderWay, ApiKey!Active
<1>2. Uncreated' = Uncreated /\ Unrevoked' = Unrevoked
  BY DEF Uncreated, Unrevoked
<1>3. ApiKey!TrailFollowsTheKeys'
  BY <1>2, TrailStep DEF ApiKey!TrailFollowsTheKeys
<1> QED
  BY <1>1, <1>3

\* One caller is told something, and if it is a refusal the prefix was shared.
LEMMA TellKeeps ==
    ASSUME ApiKey!RefusedOnlyIfRaced, DOMAIN caller = Callers, NEW c \in Callers,
           NEW k, NEW t, NEW s,
           caller' = [caller EXCEPT ![c] = [key |-> k, told |-> t, shared |-> s]],
           t \in {"invalid", "expired"} => s
    PROVE  ApiKey!RefusedOnlyIfRaced' /\ DOMAIN caller' = Callers
<1>1. DOMAIN caller' = Callers
  OBVIOUS
<1>2. ASSUME NEW d \in Callers, caller'[d].told \in {"invalid", "expired"} PROVE caller'[d].shared
  <2>1. CASE d = c
    <3>1. caller'[d].told = t /\ caller'[d].shared = s
      BY <2>1
    <3> QED
      BY <1>2, <3>1
  <2>2. CASE d # c
    <3>1. caller'[d] = caller[d]
      BY <2>2
    <3> QED
      BY <1>2, <3>1 DEF ApiKey!RefusedOnlyIfRaced
  <2> QED
    BY <2>1, <2>2
<1> QED
  BY <1>1, <1>2 DEF ApiKey!RefusedOnlyIfRaced

\* A key that the look-up does not find, or finds behind another or expired, is inactive,
\* expired itself or shares its prefix with a key created while it was.
LEMMA ValidateKeeps ==
    ASSUME KeyInv, NEW c \in Callers, NEW k \in ApiKeyIds, ApiKey!Validate(c, k)
    PROVE  KeyInv'
<1> USE DEF KeyInv
<1> DEFINE matching == {j \in ApiKeyIds : ApiKey!Active(j) /\ row[j].prefix = row[k].prefix}
           s == ~ApiKey!Active(k) \/ row[k].expired \/ matching \cap during[k] # {}
                \/ \E j \in matching : k \in during[j]
<1>1. UNCHANGED <<row, create, revoking, lastUsed, trail, during, revokes, lost, failures>>
  BY DEF ApiKey!Validate
<1>2. PICK t :
        /\ caller' = [caller EXCEPT ![c] = [key |-> k, told |-> t, shared |-> s]]
        /\ touching' = touching \/ touching' = touching \cup {k}
        /\ \/ t = "invalid" /\ matching = {}
           \/ \E found \in matching : t = ApiKey!Verdict(k, found)
  <2>1. CASE matching = {} /\ UNCHANGED touching
             /\ caller' = [caller EXCEPT ![c] = [key |-> k, told |-> "invalid", shared |-> s]]
    BY <2>1
  <2>2. CASE \E found \in matching :
                /\ caller' = [caller EXCEPT ![c] =
                       [key |-> k, told |-> ApiKey!Verdict(k, found), shared |-> s]]
                /\ touching' = IF ApiKey!Verdict(k, found) = "accepted" THEN touching \cup {k} ELSE touching
    <3> HIDE DEF s, matching
    <3> QED
      BY <2>2
  <2> QED
    BY <2>1, <2>2 DEF ApiKey!Validate
<1>3. t \in {"invalid", "expired"} => s
  <2>1. CASE matching = {}
    BY <2>1
  <2>2. CASE \E found \in matching : t = ApiKey!Verdict(k, found)
    <3>1. PICK found \in matching : t = ApiKey!Verdict(k, found)
      BY <2>2
    <3>2. CASE found = k
      BY <3>1, <3>2 DEF ApiKey!Verdict
    <3>3. CASE found # k
      <4>1. ~ApiKey!Active(k) \/ Overlap(found, k)
        BY <3>1, <3>3 DEF OverlapInv
      <4> QED
        BY <3>1, <4>1 DEF Overlap
    <3> QED
      BY <3>2, <3>3
  <2> QED
    BY <1>2, <2>1, <2>2
<1>4. DOMAIN caller = Callers /\ touching \subseteq ApiKeyIds /\ lastUsed \subseteq ApiKeyIds
      /\ failures \in 0..MaxFaults /\ lost <= failures
  BY DEF KeyTyped, ApiKey!TypeOK
<1> HIDE DEF s, matching
<1>5. ApiKey!RefusedOnlyIfRaced' /\ DOMAIN caller' = Callers
  BY <1>2, <1>3, <1>4, TellKeeps
<1>6. KeyTyped'
  BY <1>1, <1>2, <1>4, <1>5, CallerTyped
<1> QED
  BY <1>1, <1>5, <1>6, KeysRest

\* A look-up that fails, or a caller that asks again.
LEMMA CallerKeeps ==
    ASSUME KeyInv, NEW c \in Callers,
           ApiKey!Again(c) \/ \E k \in ApiKeyIds : ApiKey!ValidateFails(c, k)
    PROVE  KeyInv'
<1> USE DEF KeyInv
<1>1. /\ UNCHANGED <<row, create, revoking, lastUsed, touching, trail, during, revokes, lost>>
      /\ UNCHANGED <<lost, failures>> \/ (ApiKey!Fault /\ lost' = lost)
  BY DEF ApiKey!Again, ApiKey!ValidateFails
<1>2. \E t \in {None, "error"} : \E k :
        caller' = [caller EXCEPT ![c] = [key |-> k, told |-> t, shared |-> FALSE]]
  <2>1. CASE ApiKey!Again(c)
    <3>1. caller' = [caller EXCEPT ![c] = [key |-> None, told |-> None, shared |-> FALSE]]
      BY <2>1 DEF ApiKey!Again
    <3> QED
      BY <3>1
  <2>2. CASE \E k \in ApiKeyIds : ApiKey!ValidateFails(c, k)
    <3>1. PICK k \in ApiKeyIds :
             caller' = [caller EXCEPT ![c] = [key |-> k, told |-> "error", shared |-> FALSE]]
      BY <2>2 DEF ApiKey!ValidateFails
    <3> QED
      BY <3>1
  <2> QED
    BY <2>1, <2>2
<1>3. \A t \in {None, "error"} : t \notin {"invalid", "expired"}
  BY KeyAssumption
<1>4. DOMAIN caller = Callers /\ touching \subseteq ApiKeyIds /\ lastUsed \subseteq ApiKeyIds
  BY DEF KeyTyped, ApiKey!TypeOK
<1>5. ApiKey!RefusedOnlyIfRaced' /\ DOMAIN caller' = Callers
  BY <1>2, <1>3, <1>4, TellKeeps
<1>6. failures' \in 0..MaxFaults /\ lost' <= failures'
  BY <1>1, KeyFault
<1>7. KeyTyped'
  BY <1>1, <1>4, <1>5, <1>6, CallerTyped
<1> QED
  BY <1>1, <1>5, <1>7, KeysRest

\* The time of last use is in none of it.
LEMMA TouchKeeps ==
    ASSUME KeyInv, NEW k \in ApiKeyIds, ApiKey!Touch(k)
    PROVE  KeyInv'
<1> USE DEF KeyInv
<1>1. /\ UNCHANGED <<row, create, revoking, caller, trail, during, revokes, lost>>
      /\ UNCHANGED <<lost, failures>> \/ (ApiKey!Fault /\ lost' = lost)
      /\ touching' = touching \ {k} /\ (lastUsed' = lastUsed \/ lastUsed' = lastUsed \cup {k})
  BY DEF ApiKey!Touch
<1>2. touching' \subseteq ApiKeyIds /\ lastUsed' \subseteq ApiKeyIds /\ DOMAIN caller' = Callers
  BY <1>1 DEF KeyTyped, ApiKey!TypeOK
<1>3. failures' \in 0..MaxFaults /\ lost' <= failures'
  BY <1>1, KeyFault
<1>4. KeyTyped'
  BY <1>1, <1>2, <1>3, CallerTyped
<1>5. ApiKey!RefusedOnlyIfRaced'
  BY <1>1 DEF ApiKey!RefusedOnlyIfRaced
<1> QED
  BY <1>1, <1>4, <1>5, KeysRest

\* A row changes in place: it stays, and no key becomes active by it.
LEMMA RowTyped ==
    ASSUME KeyTyped, OverlapInv, NEW k \in ApiKeyIds,
           row' = row \/ (row[k] # None /\ \E x \in KeyRow :
              /\ row' = [row EXCEPT ![k] = x] /\ x.prefix = row[k].prefix
              /\ x.isActive => row[k].isActive),
           revoking' \subseteq ApiKeyIds,
           UNCHANGED <<create, caller, lastUsed, touching, during, lost, failures>>
    PROVE  KeyTyped' /\ OverlapInv' /\ \A j : row'[j] = None <=> row[j] = None
<1>1. /\ row' \in [ApiKeyIds -> {None} \cup KeyRow]
      /\ \A j : row'[j] = None <=> row[j] = None
      /\ \A j \in ApiKeyIds : row'[j] # None => /\ row'[j].prefix = row[j].prefix
                                                /\ row'[j].isActive => row[j].isActive
  <2>1. CASE row' = row
    BY <2>1 DEF KeyTyped
  <2>2. CASE row' # row
    <3>1. PICK x \in KeyRow :
              /\ row' = [row EXCEPT ![k] = x] /\ x.prefix = row[k].prefix
              /\ x.isActive => row[k].isActive
      BY <2>2
    <3>2. x # None /\ row[k] # None
      BY <2>2, KeyAssumption DEF KeyRow
    <3>3. DOMAIN row = ApiKeyIds
      BY DEF KeyTyped
    <3> QED
      BY <3>1, <3>2, <3>3 DEF KeyTyped
  <2> QED
    BY <2>1, <2>2
<1>2. KeyTyped'
  <2>1. \A j \in ApiKeyIds : row'[j] # None => row'[j] \in KeyRow
    BY <1>1
  <2>2. ApiKey!TypeOK'
    BY <2>1 DEF KeyTyped, ApiKey!TypeOK, KeyRow
  <2> QED
    BY <1>1, <2>2 DEF KeyTyped
<1>3. OverlapInv'
  BY <1>1, OverlapShrinks DEF ApiKey!Active
<1> QED
  BY <1>1, <1>2, <1>3

\* A key that is revoked is active no more, and its entry is on the way.
LEMMA RevokeKeeps ==
    ASSUME KeyInv, NEW k \in ApiKeyIds, ApiKey!Revoke(k)
    PROVE  KeyInv'
<1> USE DEF KeyInv
<1>1. /\ revoking' = revoking \cup {k}
      /\ row' = IF row[k] = None THEN row ELSE [row EXCEPT ![k].isActive = FALSE]
      /\ UNCHANGED <<create, caller, lastUsed, touching, trail, during, lost, failures>>
  BY DEF ApiKey!Revoke
<1> DEFINE x == [row[k] EXCEPT !.isActive = FALSE]
<1>2. row[k] # None => x \in KeyRow /\ x.prefix = row[k].prefix /\ ~x.isActive
                       /\ row' = [row EXCEPT ![k] = x]
  <2> SUFFICES ASSUME row[k] # None PROVE x \in KeyRow /\ x.prefix = row[k].prefix /\ ~x.isActive
                       /\ row' = [row EXCEPT ![k] = x]
    OBVIOUS
  <2>1. row[k] \in KeyRow
    BY DEF KeyTyped
  <2> QED
    BY <1>1, <2>1 DEF KeyRow
<1> HIDE DEF x
<1>3. revoking' \subseteq ApiKeyIds
  BY <1>1 DEF KeyTyped, ApiKey!TypeOK
<1>4. KeyTyped' /\ OverlapInv' /\ \A j : row'[j] = None <=> row[j] = None
  BY <1>1, <1>2, <1>3, RowTyped
<1>5. ApiKey!RefusedOnlyIfRaced'
  BY <1>1 DEF ApiKey!RefusedOnlyIfRaced
<1>6. ApiKey!TrailFollowsTheKeys'
  <2>1. Uncreated' = Uncreated
    BY <1>1 DEF Uncreated
  <2>2. Unrevoked' \subseteq Unrevoked
    <3>1. \A j \in ApiKeyIds \ {k} : row'[j] = row[j]
      BY <1>1, <1>2 DEF KeyTyped
    <3> QED
      BY <1>1, <3>1 DEF Unrevoked
  <2> QED
    BY <1>1, <1>4, <2>1, <2>2, TrailStep DEF ApiKey!TrailFollowsTheKeys
<1> QED
  BY <1>4, <1>5, <1>6

\* A key that expires is active no more.
LEMMA KeyExpireKeeps ==
    ASSUME KeyInv, NEW k \in ApiKeyIds, ApiKey!Expire(k)
    PROVE  KeyInv'
<1> USE DEF KeyInv
<1>1. /\ row[k] # None /\ row' = [row EXCEPT ![k].expired = TRUE]
      /\ UNCHANGED <<create, revoking, caller, lastUsed, touching, trail, during, lost, failures>>
  BY DEF ApiKey!Expire
<1> DEFINE x == [row[k] EXCEPT !.expired = TRUE]
<1>2. /\ x \in KeyRow /\ x.prefix = row[k].prefix /\ x.isActive = row[k].isActive
      /\ row' = [row EXCEPT ![k] = x]
  <2>1. row[k] \in KeyRow
    BY <1>1 DEF KeyTyped
  <2> QED
    BY <1>1, <2>1 DEF KeyRow
<1> HIDE DEF x
<1>3. revoking' \subseteq ApiKeyIds
  BY <1>1 DEF KeyTyped, ApiKey!TypeOK
<1>4. KeyTyped' /\ OverlapInv' /\ \A j : row'[j] = None <=> row[j] = None
  BY <1>1, <1>2, <1>3, RowTyped
<1>5. ApiKey!RefusedOnlyIfRaced'
  BY <1>1 DEF ApiKey!RefusedOnlyIfRaced
<1>6. ApiKey!TrailFollowsTheKeys'
  <2>1. Uncreated' = Uncreated
    BY <1>1 DEF Uncreated
  <2>2. Unrevoked' \subseteq Unrevoked
    <3>1. /\ \A j \in ApiKeyIds \ {k} : row'[j] = row[j]
          /\ row'[k] = x
      BY <1>2 DEF KeyTyped
    <3> QED
      BY <1>1, <1>2, <3>1 DEF Unrevoked
  <2> QED
    BY <1>1, <1>4, <2>1, <2>2, TrailStep DEF ApiKey!TrailFollowsTheKeys
<1> QED
  BY <1>4, <1>5, <1>6

\* A revocation's entry is stored, or counted as lost.
LEMMA RecordRevokeKeeps ==
    ASSUME KeyInv, NEW k \in ApiKeyIds, ApiKey!RecordRevoke(k)
    PROVE  KeyInv'
<1> USE DEF KeyInv
<1> DEFINE e == ApiKey!Entry("apiKey.revoke", k, [isActive |-> TRUE], [isActive |-> FALSE])
<1>1. /\ k \in revoking /\ revoking' = revoking \ {k} /\ ApiKey!Record(e)
      /\ UNCHANGED <<row, create, caller, lastUsed, touching, during, revokes>>
  BY DEF ApiKey!RecordRevoke
<1>2. e.action = "apiKey.revoke" /\ e.entityId = k
  BY DEF ApiKey!Entry
<1>3. \/ trail' = trail \cup {e} /\ UNCHANGED <<lost, failures>>
      \/ ApiKey!Fault /\ lost' = lost + 1 /\ UNCHANGED trail
  BY <1>1 DEF ApiKey!Record
<1> HIDE DEF e
<1>4. failures' \in 0..MaxFaults /\ lost' <= failures' /\ lost' \in Nat
  BY <1>3, KeyFault
<1>5. KeyTyped'
  BY <1>1, <1>4 DEF KeyTyped, ApiKey!TypeOK
<1>6. OverlapInv'
  BY <1>1, OverlapShrinks DEF ApiKey!Active
<1>7. ApiKey!RefusedOnlyIfRaced'
  BY <1>1 DEF ApiKey!RefusedOnlyIfRaced
<1>8. \A d \in trail : d.action = "apiKey.create" => row[d.entityId] # None
  BY DEF ApiKey!TrailFollowsTheKeys
<1>9. CASE trail' = trail \cup {e} /\ UNCHANGED <<lost, failures>>
  <2>1. Uncreated' \subseteq Uncreated
    BY <1>1, <1>9 DEF Uncreated
  <2>2. Unrevoked' \subseteq Unrevoked
    BY <1>1, <1>2, <1>9 DEF Unrevoked
  <2>3. \A d \in trail' : d.action = "apiKey.create" => row'[d.entityId] # None
    BY <1>1, <1>2, <1>8, <1>9
  <2>4. ApiKey!TrailFollowsTheKeys'
    BY <1>9, <2>1, <2>2, <2>3, TrailStep
  <2> QED
    BY <1>5, <1>6, <1>7, <2>4
<1>10. CASE ApiKey!Fault /\ lost' = lost + 1 /\ UNCHANGED trail
  <2>1. Uncreated' \subseteq Uncreated \cup {k} /\ Unrevoked' \subseteq Unrevoked \cup {k}
    BY <1>1, <1>10 DEF Uncreated, Unrevoked
  <2>2. ApiKey!TrailFollowsTheKeys'
    BY <1>1, <1>8, <1>10, <2>1, TrailStep
  <2> QED
    BY <1>5, <1>6, <1>7, <2>2
<1> QED
  BY <1>3, <1>9, <1>10

\* So it is kept.
LEMMA KeyKeeps == KeyInv /\ [ApiKey!Next]_keyVars => KeyInv'
<1> SUFFICES ASSUME KeyInv, [ApiKey!Next]_keyVars PROVE KeyInv'
  OBVIOUS
<1>1. CASE UNCHANGED keyVars
  <2>1. UNCHANGED <<row, create, revoking, caller, lastUsed, touching, trail, during, lost, failures>>
    BY <1>1 DEF keyVars
  <2>2. KeyTyped'
    BY <2>1 DEF KeyInv, KeyTyped, ApiKey!TypeOK
  <2>3. ApiKey!RefusedOnlyIfRaced'
    BY <2>1 DEF KeyInv, ApiKey!RefusedOnlyIfRaced
  <2> QED
    BY <2>1, <2>2, <2>3, KeysRest DEF KeyInv
<1>2. CASE ApiKey!Next
  BY <1>2, BeginKeeps, RollKeeps, InsertKeeps, CreateFailsKeeps, RecordCreateKeeps, ValidateKeeps,
     CallerKeeps, TouchKeeps, RevokeKeeps, RecordRevokeKeeps, KeyExpireKeeps DEF ApiKey!Next
<1> QED
  BY <1>1, <1>2

-----------------------------------------------------------------------------
(* Theorems *)

\* What holds of the part that is followed, and of the sessions.
AccessInv ==
    /\ focus \in Parts
    /\ Inv /\ CountedInv /\ SlackInv
    /\ focus = "passkey" => PasskeyInv
    /\ focus = "keys" => KeyInv
    /\ focus = "flags" => FlagInv
    /\ focus = "rate" => RateInv
    /\ focus = "pages" => PagesInv /\ WalkInv
    /\ focus = "reports" => ReportsInv

\* Each part begins within its invariant.
LEMMA AccessStarts == AccessInit => AccessInv
<1> SUFFICES ASSUME AccessInit PROVE AccessInv
  OBVIOUS
<1>1. focus \in Parts /\ Inv /\ CountedInv /\ SlackInv
  BY InitInv, InitSlack DEF AccessInit
<1>2. focus = "passkey" => PasskeyInv
  BY PasskeyStarts DEF AccessInit
<1>3. focus = "keys" => KeyInv
  BY KeyStarts DEF AccessInit
<1>4. focus = "flags" => FlagInv
  BY FlagStarts DEF AccessInit
<1>5. focus = "rate" => RateInv
  BY RateStarts DEF AccessInit
<1>6. focus = "pages" => PagesInv /\ WalkInv
  BY PagesStart, WalkStarts DEF AccessInit
<1>7. focus = "reports" => ReportsInv
  BY ReportsStart DEF AccessInit
<1> QED
  BY <1>1, <1>2, <1>3, <1>4, <1>5, <1>6, <1>7 DEF AccessInv

\* Each step keeps the invariant of its part.
LEMMA AccessKeeps == AccessInv /\ [AccessNext]_accessVars => AccessInv'
<1> SUFFICES ASSUME AccessInv, [AccessNext]_accessVars PROVE AccessInv'
  OBVIOUS
<1>1. focus \in Parts /\ focus' = focus
  BY PartSteps DEF AccessInv
<1>2. Inv' /\ CountedInv' /\ SlackInv'
  <2>1. [Next]_vars
    BY <1>1, PartSteps
  <2>2. Inv'
    BY <2>1, NextType, NextMinted, NextLocals, NextSeen, NextOrphan, NextRevoked, NextClaims DEF AccessInv, Inv
  <2> QED
    BY <2>1, <2>2, NextCounted, NextSlack DEF AccessInv
<1>3. (focus = "passkey" => PasskeyInv)'
  BY <1>1, PartSteps, PasskeyKeeps DEF AccessInv
<1>4. (focus = "keys" => KeyInv)'
  BY <1>1, PartSteps, KeyKeeps DEF AccessInv
<1>5. (focus = "flags" => FlagInv)'
  BY <1>1, PartSteps, FlagKeeps DEF AccessInv
<1>6. (focus = "rate" => RateInv)'
  BY <1>1, PartSteps, RateKeeps DEF AccessInv
<1>7. (focus = "pages" => PagesInv /\ WalkInv)'
  BY <1>1, PartSteps, PagesKeep, WalkKeeps DEF AccessInv
<1>8. (focus = "reports" => ReportsInv)'
  BY <1>1, PartSteps, ReportsKeep DEF AccessInv
<1> QED
  BY <1>1, <1>2, <1>3, <1>4, <1>5, <1>6, <1>7, <1>8 DEF AccessInv

\* The strengthened invariant holds in every reachable state.
THEOREM AccessInvariant == AccessSpec => []AccessInv
  BY AccessStarts, AccessKeeps, PTL DEF AccessSpec

\* The models of all parts are well typed.
THEOREM AccessTypesCorrect == AccessSpec => []TypesOK
<1>1. AccessInv => TypesOK
  <2> SUFFICES ASSUME AccessInv PROVE TypesOK
    OBVIOUS
  <2>1. /\ focus = "passkey" => Ceremony!TypeOK
        /\ focus = "keys" => ApiKey!TypeOK
        /\ focus = "flags" => Flag!TypeOK
        /\ focus = "rate" => Rate!TypeOK
        /\ focus = "pages" => Pages!TypeOK
        /\ focus = "reports" => Reports!TypeOK
        /\ TypeOK
    BY DEF AccessInv, Inv, PasskeyInv, PasskeyTyped, KeyInv, KeyTyped, FlagInv, FlagTyped, RateInv, PagesInv,
           ReportsInv, ReportsTyped
  <2> QED
    BY <2>1 DEF TypesOK
<1> QED
  BY <1>1, AccessInvariant, PTL

\* The sessions keep, beside the other parts, what they promise alone: no claim beyond a
\* grant, no session for a deleted account, a counter that races take past the threshold by
\* no more than the requests in flight.
THEOREM SessionsAreSafe == AccessSpec => [](ClaimsWithinGrant /\ NoSessionForDeleted /\ LockoutSlack)
<1>1. AccessInv => ClaimsWithinGrant /\ NoSessionForDeleted /\ LockoutSlack
  BY SlackPromises DEF AccessInv, Inv, OrphanInv, LocalsInv, NoSessionForDeleted
<1> QED
  BY <1>1, AccessInvariant, PTL

\* A challenge is accepted again only by requests that had read it together.
THEOREM ChallengesAreSpent == AccessSpec => []ReplayBudget
<1>1. AccessInv => ReplayBudget
  BY PasskeyPromises DEF AccessInv, ReplayBudget
<1> QED
  BY <1>1, AccessInvariant, PTL

\* The signature count of a credential goes back only when it is used twice at once.
THEOREM SignCountsOnlyGrow == AccessSpec => CountNeverBack
<1>1. AccessInv /\ [AccessNext]_accessVars => [focus = "passkey" => Ceremony!CountKept]_passkeyVars
  BY PartSteps, PasskeyKeeps DEF AccessInv
<1> QED
  BY <1>1, AccessInvariant, PTL DEF AccessSpec, CountNeverBack

\* An active key is refused only if its prefix was drawn twice at once, and the trail
\* follows the keys.
THEOREM ActiveKeysAreAnswered == AccessSpec => []KeysAnswer
<1>1. AccessInv => KeysAnswer
  BY DEF AccessInv, KeyInv, KeysAnswer
<1> QED
  BY <1>1, AccessInvariant, PTL

\* The flags' cache is behind only where a fill overlapped an update, a call
\* failed, or the seed script wrote behind it.
THEOREM FlagsAreFresh == AccessSpec => []StaleOnlyIfRaced
<1>1. AccessInv => StaleOnlyIfRaced
  BY FlagPromises DEF AccessInv, StaleOnlyIfRaced
<1> QED
  BY <1>1, AccessInvariant, PTL

\* Nobody is refused below the limit, and no window lets through more than twice of it.
THEOREM LimitHolds == AccessSpec => []WindowHolds
<1>1. AccessInv => WindowHolds
  BY RatePromises DEF AccessInv, WindowHolds
<1> QED
  BY <1>1, AccessInvariant, PTL

\* A spreadsheet is complete or refused, never cut off.
THEOREM ExportsAreWhole == AccessSpec => NoTruncatedExport
<1>1. AccessInv /\ [AccessNext]_accessVars => [focus = "pages" => Pages!ExportWhole]_pagesVars
  BY PartSteps, PagesKeep DEF AccessInv
<1> QED
  BY <1>1, AccessInvariant, PTL DEF AccessSpec, NoTruncatedExport

\* A list that is not paged by groups: the pages a client is led through are the list, and
\* each group of a grouped page has a count, never below the rows shown of it.
THEOREM ListsAreWalked ==
    AccessSpec => [](focus = "pages" /\ ~Pages!IsGroupPaged(q) => PagesAreTheList)
<1>1. AccessInv => (focus = "pages" /\ ~Pages!IsGroupPaged(q) => PagesAreTheList)
  <2>1. AccessInv /\ focus = "pages" /\ ~Pages!IsGroupPaged(q)
            => Pages!WalkIsTheList /\ Pages!CountCoversRows
    BY WalkPromises DEF AccessInv, PagesInv
  <2>2. ~Pages!IsGroupPaged(q) => Pages!NoOrphanRows
    BY DEF Pages!NoOrphanRows
  <2> QED
    BY <2>1, <2>2 DEF PagesAreTheList
<1> QED
  BY <1>1, AccessInvariant, PTL

\* Where a report's whole was counted, its parts are within it, by what was added while they
\* were read; and what is returned as an error is in no report, given or kept, as a zero.
THEOREM ReportsAddUp == AccessSpec => []PartsWithinWhole
<1>1. AccessInv => PartsWithinWhole
  BY ReportsPromise DEF AccessInv, PartsWithinWhole
<1> QED
  BY <1>1, AccessInvariant, PTL

=============================================================================
