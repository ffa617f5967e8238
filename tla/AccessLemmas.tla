---------------------------- MODULE AccessLemmas ----------------------------
(***************************************************************************)
(* What the steps of three parts of Access keep: the passkey ceremonies,   *)
(* the reports and the lists.  AccessProofs has the other parts and the    *)
(* theorems.                                                               *)
(***************************************************************************)
EXTENDS Access, AuthSessionProofs, FunctionTheorems

-----------------------------------------------------------------------------
(* Counting *)

\* The instances count as this module does.
LEMMA SameCount ==
    \A S : /\ Rate!Cardinality(S) = Cardinality(S) /\ ApiKey!Cardinality(S) = Cardinality(S)
          /\ Pages!Cardinality(S) = Cardinality(S) /\ Reports!Cardinality(S) = Cardinality(S)
  BY DEF Cardinality, Rate!Cardinality, ApiKey!Cardinality, Pages!Cardinality, Reports!Cardinality

-----------------------------------------------------------------------------
(* Passkeys *)

\* A stored credential.
PasskeyRow == [id : Nat, user : Users, count : 0..MaxSigns]

\* The locals of a request that finishes a ceremony.
Answering ==
    [pc : {"idle", "get", "del", "reg", "auth", "count"}, kind : {None, "reg", "auth"},
     user : Users \cup {None}, ch : 0..MaxCeremonies, cred : Creds \cup {None},
     count : 0..MaxSigns, session : 0..MaxCeremonies,
     own : SUBSET (Creds \X (0..MaxSigns)), id : Nat]

\* The types of the ceremonies; a stored challenge was issued.
PasskeyTyped ==
    /\ Ceremony!TypeOK
    /\ passkeys \in [Creds -> {None} \cup PasskeyRow]
    /\ made \in Nat
    /\ op \in [Finishers -> Answering]
    /\ \A k \in ceremony : k.ch \in 1..issued
    /\ accepted \in [Ceremony!Challenges -> Nat] /\ shared \in [Ceremony!Challenges -> Nat]

\* The requests that hold the session of a challenge, and those that have yet to delete it.
InFlight(n) == {o \in Finishers : op[o].pc \in {"del", "reg", "auth", "count"} /\ op[o].session = n}
Deleting(n) == {o \in Finishers : op[o].pc = "del" /\ op[o].session = n}
Waiting(n) == \E k \in ceremony : k.ch = n

\* What a challenge was or may yet be accepted for.
Spent(n) == accepted[n] + Cardinality(InFlight(n))

\* A challenge whose session is still in Redis with nobody to delete it has one more use
\* than was counted; any other has none.
BudgetInv ==
    \A n \in Ceremony!Challenges :
        /\ Spent(n) <= shared[n] + losses + 1
        /\ Waiting(n) /\ Deleting(n) = {} => Spent(n) <= shared[n] + losses
        /\ n > issued => accepted[n] = 0

\* A session is that of its challenge, under the key of whoever read it.
SessionOf(l) ==
    /\ l.pc # "idle" => l.kind \in {"reg", "auth"} /\ l.cred \in Creds /\ l.user \in Users
    /\ l.pc \in {"del", "reg", "auth", "count"} => l.session \in 1..issued
    /\ l.pc \in {"reg", "auth", "count"} => l.session = l.ch
    /\ l.pc \in {"auth", "count"} => l.kind = "auth" /\ \E d \in l.own : d[1] = l.cred
    /\ l.pc = "del" => \A k \in ceremony : k.ch = l.session => k.kind = l.kind /\ k.user = l.user

\* A challenge is stored under one key.
SessionInv ==
    /\ \A k, l \in ceremony : k.ch = l.ch => k = l
    /\ \A o \in Finishers : SessionOf(op[o])

\* A request signs in with a credential.
SigningIn(l, c) == l.pc # "idle" /\ l.kind = "auth" /\ l.cred = c

\* What a sign-in read of the count of its credential is what is stored, unless another
\* sign-in or a registration overlapped.
CountInv ==
    /\ \A o \in Finishers : \A d, e \in op[o].own : d[1] = e[1] => d = e
    /\ \A o \in Finishers, c \in Creds : SigningIn(op[o], c) /\ c \notin reused /\ passkeys[c] # None =>
          \A d \in op[o].own : d[1] = c => passkeys[c].count = d[2]
    /\ \A o, p \in Finishers, c \in Creds :
          o # p /\ SigningIn(op[o], c) /\ SigningIn(op[p], c) => c \in reused

\* What the steps of the ceremonies keep.
PasskeyInv == PasskeyTyped /\ SessionInv /\ BudgetInv /\ CountInv

\* Before the first ceremony nothing is spent.
LEMMA PasskeyStarts == Ceremony!Init => PasskeyInv
<1> SUFFICES ASSUME Ceremony!Init PROVE PasskeyInv
  OBVIOUS
<1>1. Ceremony!Idle \in Answering /\ Ceremony!Idle.pc = "idle" /\ Ceremony!Idle.own = {}
  BY PasskeyAssumption DEF Ceremony!Idle, Answering
<1>2. \A o \in Finishers : op[o] = Ceremony!Idle
  BY DEF Ceremony!Init
<1>3. Ceremony!TypeOK
  BY <1>1, <1>2, AuthAssumption, PasskeyAssumption DEF Ceremony!Init, Ceremony!TypeOK
<1>4. PasskeyTyped
  BY <1>1, <1>3, PasskeyAssumption DEF Ceremony!Init, PasskeyTyped
<1>5. SessionInv
  BY <1>1, <1>2 DEF Ceremony!Init, SessionInv, SessionOf
<1>6. CountInv
  BY <1>1, <1>2 DEF CountInv, SigningIn
<1>7. BudgetInv
  <2> SUFFICES ASSUME NEW n \in Ceremony!Challenges
               PROVE  Spent(n) = 0 /\ shared[n] = 0 /\ losses = 0 /\ ~Waiting(n) /\ accepted[n] = 0
    BY DEF BudgetInv
  <2>1. InFlight(n) = {}
    BY <1>1, <1>2 DEF InFlight
  <2>2. accepted[n] = 0 /\ shared[n] = 0 /\ losses = 0 /\ ceremony = {}
    BY DEF Ceremony!Init
  <2> QED
    BY <2>1, <2>2, FS_EmptySet DEF Spent, Waiting
<1> QED
  BY <1>4, <1>5, <1>6, <1>7 DEF PasskeyInv

\* How what was spent changes with the requests in flight.
LEMMA SpentFacts ==
    ASSUME PasskeyTyped, NEW n \in Ceremony!Challenges
    PROVE  /\ IsFiniteSet(InFlight(n)) /\ accepted[n] \in Nat /\ shared[n] \in Nat /\ losses \in Nat
           /\ Cardinality(InFlight(n)) \in Nat /\ Spent(n) \in Nat /\ accepted[n] <= Spent(n)
<1>1. InFlight(n) \subseteq Finishers
  BY DEF InFlight
<1>2. IsFiniteSet(InFlight(n)) /\ Cardinality(InFlight(n)) \in Nat
  BY <1>1, PasskeyAssumption, CountLess
<1>3. accepted[n] \in Nat /\ shared[n] \in Nat /\ losses \in Nat
  BY AuthAssumption DEF PasskeyTyped, Ceremony!TypeOK
<1> QED
  BY <1>2, <1>3 DEF Spent

\* A request that no longer holds the session leaves nothing more to spend.
LEMMA SpentStays ==
    ASSUME PasskeyTyped, NEW n \in Ceremony!Challenges,
           InFlight(n)' \subseteq InFlight(n), accepted'[n] = accepted[n]
    PROVE  Spent(n)' \in Nat /\ Spent(n)' <= Spent(n)
<1>1. /\ IsFiniteSet(InFlight(n)) /\ accepted[n] \in Nat
  BY SpentFacts
<1>2. /\ Cardinality(InFlight(n)') \in Nat /\ Cardinality(InFlight(n)) \in Nat
      /\ Cardinality(InFlight(n)') <= Cardinality(InFlight(n))
  BY <1>1, CountLess
<1>3. Spent(n)' = accepted[n] + Cardinality(InFlight(n)')
  BY DEF Spent
<1> HIDE DEF InFlight
<1> QED
  BY <1>1, <1>2, <1>3 DEF Spent

\* One that is accepted spends what it held.
LEMMA SpentOne ==
    ASSUME PasskeyTyped, NEW n \in Ceremony!Challenges, NEW o \in InFlight(n),
           InFlight(n)' \subseteq InFlight(n) \ {o}, accepted'[n] = accepted[n] + 1
    PROVE  Spent(n)' \in Nat /\ Spent(n)' <= Spent(n)
<1>1. /\ IsFiniteSet(InFlight(n)) /\ accepted[n] \in Nat
  BY SpentFacts
<1>2. /\ Cardinality(InFlight(n)') \in Nat /\ Cardinality(InFlight(n)) \in Nat
      /\ Cardinality(InFlight(n)') + 1 <= Cardinality(InFlight(n))
  BY <1>1, CountDrops
<1>3. Spent(n)' = accepted[n] + 1 + Cardinality(InFlight(n)')
  BY DEF Spent
<1> QED
  BY <1>1, <1>2, <1>3 DEF Spent

\* One that reads the session may spend one more.
LEMMA SpentMore ==
    ASSUME PasskeyTyped, NEW n \in Ceremony!Challenges, NEW o,
           InFlight(n)' \subseteq InFlight(n) \cup {o}, accepted'[n] = accepted[n]
    PROVE  Spent(n)' \in Nat /\ Spent(n)' <= Spent(n) + 1
<1>1. /\ IsFiniteSet(InFlight(n)) /\ accepted[n] \in Nat
  BY SpentFacts
<1>2. /\ Cardinality(InFlight(n)') \in Nat /\ Cardinality(InFlight(n)) \in Nat
      /\ Cardinality(InFlight(n)') <= Cardinality(InFlight(n)) + 1
  BY <1>1, CountGrows
<1>3. Spent(n)' = accepted[n] + Cardinality(InFlight(n)')
  BY DEF Spent
<1> QED
  BY <1>1, <1>2, <1>3 DEF Spent

\* A ceremony opens under a new challenge, which nobody has read.
LEMMA OpenKeeps ==
    ASSUME PasskeyInv, NEW kind \in {"reg", "auth", "disc"}, NEW u, Ceremony!Open(kind, u)
    PROVE  PasskeyInv'
<1> USE DEF PasskeyInv
<1> DEFINE new == [kind |-> kind, user |-> u, ch |-> issued + 1]
<1>1. /\ issued < MaxCeremonies /\ issued' = issued + 1
      /\ UNCHANGED <<passkeys, made, op, accepted, shared, reused>>
      /\ \/ ceremony' = (ceremony \ Ceremony!Key(kind, u)) \cup {new} /\ UNCHANGED losses
         \/ losses < MaxFaults /\ losses' = losses + 1 /\ UNCHANGED ceremony
  BY DEF Ceremony!Open, Ceremony!store, Ceremony!history
<1>2. /\ issued \in 0..MaxCeremonies /\ issued' \in 0..MaxCeremonies /\ issued \in Nat
      /\ losses' \in 0..MaxFaults /\ losses <= losses' /\ losses \in Nat /\ losses' \in Nat
  <2>1. issued \in 0..MaxCeremonies /\ losses \in 0..MaxFaults /\ MaxCeremonies \in Nat /\ MaxFaults \in Nat
    BY AuthAssumption, PasskeyAssumption DEF PasskeyTyped, Ceremony!TypeOK
  <2> QED
    BY <1>1, <2>1
<1>3. /\ new.kind = kind /\ new.user = u /\ new.ch = issued + 1
      /\ \A k \in ceremony' : k = new \/ (k \in ceremony /\ (k \notin Ceremony!Key(kind, u) \/ ceremony' = ceremony))
  BY <1>1
<1> HIDE DEF new
<1>4. \A k \in ceremony : k.ch \in 1..issued /\ k.ch # issued + 1
  BY <1>2 DEF PasskeyTyped
<1>5. PasskeyTyped'
  <2>1. \A k, l \in ceremony' : k.kind = l.kind /\ k.user = l.user => k = l
    <3>1. \A k, l \in ceremony : k.kind = l.kind /\ k.user = l.user => k = l
      BY DEF PasskeyTyped, Ceremony!TypeOK
    <3>2. CASE UNCHANGED ceremony
      BY <3>1, <3>2
    <3>3. CASE ceremony' = (ceremony \ Ceremony!Key(kind, u)) \cup {new}
      BY <1>3, <3>1, <3>3 DEF Ceremony!Key
    <3> QED
      BY <1>1, <3>2, <3>3 DEF new
  <2>2. Ceremony!TypeOK'
    BY <1>1, <1>2, <2>1 DEF PasskeyTyped, Ceremony!TypeOK
  <2>3. \A k \in ceremony' : k.ch \in 1..issued'
    BY <1>1, <1>2, <1>3, <1>4
  <2> QED
    BY <1>1, <2>2, <2>3 DEF PasskeyTyped
<1>6. SessionInv'
  <2>1. \A k, l \in ceremony' : k.ch = l.ch => k = l
    BY <1>3, <1>4 DEF SessionInv
  <2>2. ASSUME NEW o \in Finishers PROVE SessionOf(op[o])'
    <3>1. SessionOf(op[o]) /\ op'[o] = op[o]
      BY <1>1 DEF SessionInv
    <3>2. op[o].pc \in {"del", "reg", "auth", "count"} => op[o].session \in 1..issued' /\ op[o].session # issued + 1
      BY <1>1, <1>2, <3>1 DEF SessionOf
    <3>3. op[o].pc = "del" => \A k \in ceremony' : k.ch = op[o].session => k.kind = op[o].kind /\ k.user = op[o].user
      BY <1>3, <3>1, <3>2 DEF SessionOf
    <3> QED
      BY <3>1, <3>2, <3>3 DEF SessionOf
  <2> QED
    BY <2>1, <2>2 DEF SessionInv
<1>7. CountInv'
  BY <1>1 DEF CountInv, SigningIn
<1>8. BudgetInv'
  <2> SUFFICES ASSUME NEW n \in Ceremony!Challenges
               PROVE  /\ Spent(n)' <= shared'[n] + losses' + 1
                      /\ Waiting(n)' /\ Deleting(n)' = {} => Spent(n)' <= shared'[n] + losses'
                      /\ n > issued' => accepted'[n] = 0
    BY DEF BudgetInv
  <2>1. Spent(n)' = Spent(n) /\ Deleting(n)' = Deleting(n) /\ shared'[n] = shared[n] /\ accepted'[n] = accepted[n]
    BY <1>1 DEF Spent, InFlight, Deleting
  <2>2. Spent(n) \in Nat /\ shared[n] \in Nat /\ n \in Nat
    BY SpentFacts DEF Ceremony!Challenges
  <2>3. n = issued + 1 => Spent(n) = 0
    <3> SUFFICES ASSUME n = issued + 1 PROVE Spent(n) = 0
      OBVIOUS
    <3>1. InFlight(n) = {}
      <4>1. \A o \in Finishers : op[o].pc \in {"del", "reg", "auth", "count"} => op[o].session # n
        BY <1>2 DEF SessionInv, SessionOf
      <4> QED
        BY <4>1 DEF InFlight
    <3>2. accepted[n] = 0
      BY <1>2 DEF BudgetInv
    <3> QED
      BY <3>1, <3>2, FS_EmptySet DEF Spent
  <2>4. Waiting(n)' => Waiting(n) \/ n = issued + 1
    BY <1>3 DEF Waiting
  <2>5. /\ Spent(n) <= shared[n] + losses + 1
        /\ Waiting(n) /\ Deleting(n) = {} => Spent(n) <= shared[n] + losses
        /\ n > issued => accepted[n] = 0
    BY DEF BudgetInv
  <2> QED
    BY <1>1, <1>2, <2>1, <2>2, <2>3, <2>4, <2>5
<1> QED
  BY <1>5, <1>6, <1>7, <1>8

\* A session is lost without a request.
LEMMA PasskeyExpireKeeps ==
    ASSUME PasskeyInv, Ceremony!Expire
    PROVE  PasskeyInv'
<1> USE DEF PasskeyInv
<1>1. /\ ceremony' \subseteq ceremony
      /\ UNCHANGED <<passkeys, made, issued, op, losses, accepted, shared, reused>>
  BY DEF Ceremony!Expire, Ceremony!store, Ceremony!history
<1>2. PasskeyTyped'
  BY <1>1 DEF PasskeyTyped, Ceremony!TypeOK
<1>3. SessionInv'
  BY <1>1 DEF SessionInv, SessionOf
<1>4. CountInv'
  BY <1>1 DEF CountInv, SigningIn
<1>5. ASSUME NEW n \in Ceremony!Challenges
      PROVE  /\ Spent(n)' <= shared'[n] + losses' + 1
             /\ Waiting(n)' /\ Deleting(n)' = {} => Spent(n)' <= shared'[n] + losses'
             /\ n > issued' => accepted'[n] = 0
  <2>1. Spent(n)' = Spent(n) /\ Deleting(n)' = Deleting(n) /\ (Waiting(n)' => Waiting(n))
    BY <1>1 DEF Spent, InFlight, Deleting, Waiting
  <2> QED
    BY <1>1, <2>1 DEF BudgetInv
<1> QED
  BY <1>2, <1>3, <1>4, <1>5 DEF BudgetInv

\* One request has its locals replaced.
LEMMA AnswerTyped ==
    ASSUME PasskeyTyped, NEW o \in Finishers, NEW l \in Answering,
           op' = [op EXCEPT ![o] = l]
    PROVE  /\ op' \in [Finishers -> Answering] /\ op'[o] = l
           /\ \A p \in Finishers \ {o} : op'[p] = op[p]
           /\ \A p \in Finishers : op'[p].pc \in {"idle", "get", "del", "reg", "auth", "count"}
<1>1. /\ op' \in [Finishers -> Answering] /\ op'[o] = l
      /\ \A p \in Finishers \ {o} : op'[p] = op[p]
  BY DEF PasskeyTyped
<1> QED
  BY <1>1 DEF Answering

\* A request that has not begun.
LEMMA IdleIs == Ceremony!Idle \in Answering /\ Ceremony!Idle.pc = "idle" /\ Ceremony!Idle.own = {}
  BY PasskeyAssumption DEF Ceremony!Idle, Answering

\* A request goes on with what it read, or ends; what it stores is of no other's credential
\* unless that is counted.
LEMMA OpCount ==
    ASSUME CountInv, NEW o \in Finishers, NEW l, op'[o] = l,
           \A p \in Finishers \ {o} : op'[p] = op[p],
           reused \subseteq reused',
           \A p \in Finishers \ {o}, c \in Creds :
              SigningIn(op[p], c) /\ c \notin reused' /\ passkeys'[c] # None =>
                 passkeys[c] # None /\ passkeys'[c].count = passkeys[c].count,
           \/ l.pc = "idle" /\ l.own = {}
           \/ /\ l.own = op[o].own /\ op[o].pc # "idle" /\ l.kind = op[o].kind /\ l.cred = op[o].cred
              /\ passkeys' = passkeys
    PROVE  CountInv'
<1>1. \A p \in Finishers, c \in Creds : SigningIn(op[p], c)' => SigningIn(op[p], c)
  BY DEF SigningIn
<1>2. ASSUME NEW p \in Finishers PROVE \A d, e \in op'[p].own : d[1] = e[1] => d = e
  BY DEF CountInv
<1>3. ASSUME NEW p \in Finishers, NEW c \in Creds, SigningIn(op[p], c)', c \notin reused',
             passkeys'[c] # None, NEW d \in op'[p].own, d[1] = c
      PROVE  passkeys'[c].count = d[2]
  <2>1. SigningIn(op[p], c) /\ c \notin reused
    BY <1>1, <1>3
  <2>2. op'[p].own = op[p].own
    BY <1>3 DEF SigningIn
  <2>3. passkeys[c] # None /\ passkeys'[c].count = passkeys[c].count
    <3>1. CASE p = o
      BY <1>3, <3>1 DEF SigningIn
    <3>2. CASE p # o
      BY <1>3, <2>1, <3>2
    <3> QED
      BY <3>1, <3>2
  <2> QED
    BY <1>3, <2>1, <2>2, <2>3 DEF CountInv
<1>4. ASSUME NEW p \in Finishers, NEW r \in Finishers, NEW c \in Creds, p # r,
             SigningIn(op[p], c)', SigningIn(op[r], c)'
      PROVE  c \in reused'
  BY <1>1, <1>4 DEF CountInv
<1> QED
  BY <1>2, <1>3, <1>4 DEF CountInv

\* An answer comes in: what its user owns is read, and a second sign-in with the
\* credential is counted.
LEMMA FinishKeeps ==
    ASSUME PasskeyInv, NEW o \in Finishers, NEW kind \in {"reg", "auth"}, NEW u \in Users,
           NEW n \in Ceremony!Challenges, NEW c \in Creds, NEW count0 \in 0..MaxSigns,
           Ceremony!Finish(o, kind, u, n, c, count0)
    PROVE  PasskeyInv'
<1> USE DEF PasskeyInv
<1> DEFINE own == {<<d, passkeys[d].count>> : d \in Ceremony!OwnedBy(u)}
           l == [Ceremony!Idle EXCEPT !.pc = "get", !.kind = kind, !.user = u, !.ch = n, !.cred = c,
                    !.count = count0, !.own = own]
<1>1. /\ op[o] = Ceremony!Idle /\ op' = [op EXCEPT ![o] = l]
      /\ reused' = reused \cup (IF kind = "auth" THEN Ceremony!InUse(c) ELSE {})
      /\ UNCHANGED <<passkeys, made, ceremony, issued, losses, accepted, shared>>
  BY DEF Ceremony!Finish, Ceremony!store
<1>2. own \in SUBSET (Creds \X (0..MaxSigns))
  BY DEF Ceremony!OwnedBy, PasskeyTyped, PasskeyRow
<1>3. /\ l.pc = "get" /\ l.kind = kind /\ l.user = u /\ l.cred = c /\ l.own = own
      /\ l \in Answering
  <2>1. n \in 0..MaxCeremonies
    BY PasskeyAssumption DEF Ceremony!Challenges
  <2>2. 0 \in 0..MaxCeremonies /\ 0 \in Nat
    BY PasskeyAssumption
  <2> HIDE DEF own
  <2> QED
    BY <1>2, <2>1, <2>2 DEF Ceremony!Idle, Answering
<1>4. \A d \in own : passkeys[d[1]].count = d[2]
  OBVIOUS
<1>5. \A d, e \in own : d[1] = e[1] => d = e
  OBVIOUS
<1> HIDE DEF l, own
<1>6. /\ op' \in [Finishers -> Answering] /\ op'[o] = l
      /\ \A p \in Finishers \ {o} : op'[p] = op[p]
      /\ \A p \in Finishers : op'[p].pc \in {"idle", "get", "del", "reg", "auth", "count"}
  BY <1>1, <1>3, AnswerTyped
<1>7. PasskeyTyped'
  BY <1>1, <1>6 DEF PasskeyTyped, Ceremony!TypeOK
<1>8. SessionInv'
  <2>1. ASSUME NEW p \in Finishers PROVE SessionOf(op[p])'
    <3>1. CASE p = o
      BY <1>3, <1>6, <3>1 DEF SessionOf
    <3>2. CASE p # o
      BY <1>1, <1>6, <3>2 DEF SessionOf, SessionInv
    <3> QED
      BY <3>1, <3>2
  <2> QED
    BY <1>1, <2>1 DEF SessionInv
<1>9. CountInv'
  <2>1. ASSUME NEW p \in Finishers PROVE \A d, e \in op'[p].own : d[1] = e[1] => d = e
    <3>1. CASE p = o
      BY <1>3, <1>5, <1>6, <3>1
    <3>2. CASE p # o
      BY <1>6, <3>2 DEF CountInv
    <3> QED
      BY <3>1, <3>2
  <2>2. ASSUME NEW p \in Finishers, NEW b \in Creds, SigningIn(op[p], b)', b \notin reused', passkeys'[b] # None,
               NEW d \in op'[p].own, d[1] = b
        PROVE  passkeys'[b].count = d[2]
    <3>1. CASE p = o
      BY <1>1, <1>3, <1>4, <1>6, <2>2, <3>1
    <3>2. CASE p # o
      BY <1>1, <1>6, <2>2, <3>2 DEF CountInv, SigningIn
    <3> QED
      BY <3>1, <3>2
  <2>3. ASSUME NEW p \in Finishers \ {o}, NEW b \in Creds, SigningIn(op[p], b)', SigningIn(op[o], b)'
        PROVE  b \in reused'
    <3>1. b = c /\ kind = "auth" /\ op[p].kind = "auth" /\ op[p].cred = c
      BY <1>3, <1>6, <2>3 DEF SigningIn
    <3>2. c \in Ceremony!InUse(c)
      BY <3>1 DEF Ceremony!InUse
    <3> QED
      BY <1>1, <3>1, <3>2
  <2>4. ASSUME NEW p \in Finishers, NEW r \in Finishers, NEW b \in Creds, p # r,
               SigningIn(op[p], b)', SigningIn(op[r], b)'
        PROVE  b \in reused'
    <3>1. CASE p = o
      BY <2>3, <2>4, <3>1
    <3>2. CASE r = o
      BY <2>3, <2>4, <3>2
    <3>3. CASE p # o /\ r # o
      BY <1>1, <1>6, <2>4, <3>3 DEF CountInv, SigningIn
    <3> QED
      BY <3>1, <3>2, <3>3
  <2> QED
    BY <2>1, <2>2, <2>4 DEF CountInv
<1>10. ASSUME NEW m \in Ceremony!Challenges
       PROVE  InFlight(m)' = InFlight(m) /\ Deleting(m)' = Deleting(m) /\ Waiting(m)' = Waiting(m)
  BY <1>1, <1>3, <1>6, IdleIs DEF InFlight, Deleting, Waiting
<1>11. BudgetInv'
  BY <1>1, <1>10 DEF BudgetInv, Spent
<1> QED
  BY <1>7, <1>8, <1>9, <1>11

\* A request reads the session: as the first, or counted as one more.
LEMMA GetSessionKeeps ==
    ASSUME PasskeyInv, NEW o \in Finishers, Ceremony!GetSession(o)
    PROVE  PasskeyInv'
<1> USE DEF PasskeyInv
<1> DEFINE found == Ceremony!Key(op[o].kind, op[o].user)
           k == CHOOSE x \in found : TRUE
<1>1. op[o].pc = "get" /\ UNCHANGED <<passkeys, made, ceremony, issued, losses, accepted, reused>>
  BY DEF Ceremony!GetSession, Ceremony!store
<1>2. CASE found = {} /\ op' = [op EXCEPT ![o] = Ceremony!Idle] /\ UNCHANGED shared
  <2>1. /\ op' \in [Finishers -> Answering] /\ op'[o] = Ceremony!Idle
        /\ \A p \in Finishers \ {o} : op'[p] = op[p]
        /\ \A p \in Finishers : op'[p].pc \in {"idle", "get", "del", "reg", "auth", "count"}
    BY <1>2, IdleIs, AnswerTyped
  <2>2. PasskeyTyped'
    BY <1>1, <1>2, <2>1 DEF PasskeyTyped, Ceremony!TypeOK
  <2>3. SessionInv'
    <3>1. ASSUME NEW p \in Finishers PROVE SessionOf(op[p])'
      BY <1>1, <2>1, IdleIs DEF SessionOf, SessionInv
    <3> QED
      BY <1>1, <3>1 DEF SessionInv
  <2>4. CountInv'
    BY <1>1, <2>1, IdleIs, OpCount
  <2>5. ASSUME NEW m \in Ceremony!Challenges
        PROVE  InFlight(m)' = InFlight(m) /\ Deleting(m)' = Deleting(m) /\ Waiting(m)' = Waiting(m)
    BY <1>1, <2>1, IdleIs DEF InFlight, Deleting, Waiting
  <2>6. BudgetInv'
    BY <1>1, <1>2, <2>5 DEF BudgetInv, Spent
  <2> QED
    BY <2>2, <2>3, <2>4, <2>6
<1>3. CASE /\ found # {}
           /\ op' = [op EXCEPT ![o].pc = "del", ![o].session = k.ch]
           /\ shared' = [shared EXCEPT ![k.ch] = @ +
                 (IF \E p \in Finishers : op[p].pc = "del" /\ op[p].session = k.ch THEN 1 ELSE 0)]
  <2> DEFINE n == k.ch
             l == [op[o] EXCEPT !.pc = "del", !.session = n]
  <2>1. k \in ceremony /\ k.kind = op[o].kind /\ k.user = op[o].user
    <3>1. k \in found
      BY <1>3
    <3> HIDE DEF k
    <3> QED
      BY <3>1 DEF Ceremony!Key
  <2>2. n \in 1..issued /\ n \in Ceremony!Challenges /\ n \in 0..MaxCeremonies
    <3>1. n \in 1..issued /\ issued \in 0..MaxCeremonies
      BY <2>1 DEF PasskeyTyped, Ceremony!TypeOK
    <3> HIDE DEF n
    <3> QED
      BY <3>1, PasskeyAssumption DEF Ceremony!Challenges
  <2>3. \A x \in ceremony : x.ch = n => x.kind = op[o].kind /\ x.user = op[o].user
    BY <2>1 DEF SessionInv
  <2>4. shared' = [shared EXCEPT ![n] = @ + (IF Deleting(n) # {} THEN 1 ELSE 0)]
    <3>1. (\E p \in Finishers : op[p].pc = "del" /\ op[p].session = n) <=> Deleting(n) # {}
      BY DEF Deleting
    <3> HIDE DEF k
    <3> QED
      BY <1>3, <3>1
  <2>5. Waiting(n)
    BY <2>1 DEF Waiting
  <2>a. op' = [op EXCEPT ![o] = l]
    BY <1>3 DEF PasskeyTyped
  <2> HIDE DEF n, k, found
  <2>6. /\ l \in Answering /\ l.pc = "del" /\ l.session = n /\ l.kind = op[o].kind /\ l.user = op[o].user
        /\ l.cred = op[o].cred /\ l.own = op[o].own
    <3>1. op[o] \in Answering
      BY DEF PasskeyTyped
    <3> QED
      BY <2>2, <3>1 DEF Answering
  <2> HIDE DEF l
  <2>7. /\ op' \in [Finishers -> Answering] /\ op'[o] = l
        /\ \A p \in Finishers \ {o} : op'[p] = op[p]
        /\ \A p \in Finishers : op'[p].pc \in {"idle", "get", "del", "reg", "auth", "count"}
    BY <2>a, <2>6, AnswerTyped
  <2>8. /\ shared' \in [Ceremony!Challenges -> Nat]
        /\ \A m \in Ceremony!Challenges \ {n} : shared'[m] = shared[m]
        /\ shared'[n] = shared[n] + (IF Deleting(n) # {} THEN 1 ELSE 0) /\ shared[n] \in Nat
    <3>1. shared \in [Ceremony!Challenges -> Nat]
      BY DEF PasskeyTyped
    <3> HIDE DEF Deleting
    <3> QED
      BY <2>2, <2>4, <3>1
  <2>9. PasskeyTyped'
    BY <1>1, <2>7, <2>8 DEF PasskeyTyped, Ceremony!TypeOK
  <2>10. SessionInv'
    <3>1. ASSUME NEW p \in Finishers PROVE SessionOf(op[p])'
      <4>1. CASE p = o
        BY <1>1, <2>2, <2>3, <2>6, <2>7, <4>1 DEF SessionOf, SessionInv
      <4>2. CASE p # o
        BY <1>1, <2>7, <4>2 DEF SessionOf, SessionInv
      <4> QED
        BY <4>1, <4>2
    <3> QED
      BY <1>1, <3>1 DEF SessionInv
  <2>11. CountInv'
    BY <1>1, <2>6, <2>7, OpCount
  <2>12. BudgetInv'
    <3> SUFFICES ASSUME NEW m \in Ceremony!Challenges
                 PROVE  /\ Spent(m)' <= shared'[m] + losses' + 1
                        /\ Waiting(m)' /\ Deleting(m)' = {} => Spent(m)' <= shared'[m] + losses'
                        /\ m > issued' => accepted'[m] = 0
      BY DEF BudgetInv
    <3>1. /\ Spent(m) <= shared[m] + losses + 1
          /\ Waiting(m) /\ Deleting(m) = {} => Spent(m) <= shared[m] + losses
          /\ m > issued => accepted[m] = 0
      BY DEF BudgetInv
    <3>2. CASE m = n
      <4>1. InFlight(m)' \subseteq InFlight(m) \cup {o} /\ accepted'[m] = accepted[m]
        BY <1>1, <2>7 DEF InFlight
      <4>2. Spent(m)' \in Nat /\ Spent(m)' <= Spent(m) + 1 /\ Spent(m) \in Nat /\ losses \in Nat
        BY <4>1, SpentMore, SpentFacts
      <4>3. Deleting(m)' # {}
        BY <2>6, <2>7, <3>2 DEF Deleting
      <4>4. Spent(m)' <= shared'[m] + losses + 1
        <5>1. CASE Deleting(m) = {}
          BY <2>5, <2>8, <3>1, <3>2, <4>2, <5>1
        <5>2. CASE Deleting(m) # {}
          BY <2>8, <3>1, <3>2, <4>2, <5>2
        <5> QED
          BY <5>1, <5>2
      <4> QED
        BY <1>1, <3>1, <4>3, <4>4
    <3>3. CASE m # n
      <4>1. InFlight(m)' = InFlight(m) /\ Deleting(m)' = Deleting(m) /\ Waiting(m)' = Waiting(m)
        BY <1>1, <2>6, <2>7, <3>3 DEF InFlight, Deleting, Waiting
      <4>2. Spent(m)' = Spent(m) /\ shared'[m] = shared[m]
        BY <1>1, <2>8, <3>3, <4>1 DEF Spent
      <4> QED
        BY <1>1, <3>1, <4>1, <4>2
    <3> QED
      BY <3>2, <3>3
  <2> QED
    BY <2>9, <2>10, <2>11, <2>12
<1> QED
  BY <1>2, <1>3 DEF Ceremony!GetSession

\* A request deletes what its key holds, or counts the delete that failed, and goes on if
\* the answer is to the challenge it read.
LEMMA DelKeeps ==
    ASSUME PasskeyInv, NEW o \in Finishers, Ceremony!DelAndVerify(o)
    PROVE  PasskeyInv'
<1> USE DEF PasskeyInv
<1> DEFINE l == IF Ceremony!Verified(op[o]) THEN [op[o] EXCEPT !.pc = op[o].kind] ELSE Ceremony!Idle
<1>1. /\ op[o].pc = "del" /\ op' = [op EXCEPT ![o] = l]
      /\ UNCHANGED <<passkeys, made, issued, accepted, shared, reused>>
      /\ \/ ceremony' = ceremony \ Ceremony!Key(op[o].kind, op[o].user) /\ UNCHANGED losses
         \/ losses < MaxFaults /\ losses' = losses + 1 /\ UNCHANGED ceremony
  BY DEF Ceremony!DelAndVerify, Ceremony!DelSession, Ceremony!store, Ceremony!history
<1>2. SessionOf(op[o]) /\ op[o] \in Answering
  BY DEF SessionInv, PasskeyTyped
<1>3. /\ l \in Answering
      /\ \/ l = Ceremony!Idle
         \/ /\ l.pc = op[o].kind /\ l.pc \in {"reg", "auth"} /\ l.session = op[o].session /\ l.session = l.ch
            /\ l.kind = op[o].kind /\ l.cred = op[o].cred /\ l.user = op[o].user /\ l.own = op[o].own
            /\ l.pc = "auth" => \E d \in l.own : d[1] = l.cred
  <2>1. CASE Ceremony!Verified(op[o])
    <3>1. op[o].kind \in {"reg", "auth"}
      BY <1>1, <1>2 DEF SessionOf
    <3>2. op[o].session = op[o].ch /\ (op[o].kind = "auth" => \E d \in op[o].own : d[1] = op[o].cred)
      BY <2>1 DEF Ceremony!Verified
    <3>3. l = [op[o] EXCEPT !.pc = op[o].kind]
      BY <2>1
    <3> HIDE DEF l
    <3>4. /\ l.pc = op[o].kind /\ l.session = op[o].session /\ l.ch = op[o].ch
          /\ l.kind = op[o].kind /\ l.cred = op[o].cred /\ l.user = op[o].user /\ l.own = op[o].own
          /\ l \in Answering
      BY <1>2, <3>1, <3>3 DEF Answering
    <3> QED
      BY <3>1, <3>2, <3>4
  <2>2. CASE ~Ceremony!Verified(op[o])
    BY <2>2, IdleIs
  <2> QED
    BY <2>1, <2>2
<1> HIDE DEF l
<1>4. /\ op' \in [Finishers -> Answering] /\ op'[o] = l
      /\ \A p \in Finishers \ {o} : op'[p] = op[p]
      /\ \A p \in Finishers : op'[p].pc \in {"idle", "get", "del", "reg", "auth", "count"}
  BY <1>1, <1>3, AnswerTyped
<1>5. losses' \in 0..MaxFaults /\ losses \in Nat /\ losses' \in Nat /\ losses <= losses'
  <2>1. losses \in 0..MaxFaults /\ MaxFaults \in Nat
    BY AuthAssumption DEF PasskeyTyped, Ceremony!TypeOK
  <2> QED
    BY <1>1, <2>1
<1>6. ceremony' \subseteq ceremony
  BY <1>1
<1>7. PasskeyTyped'
  BY <1>1, <1>4, <1>5, <1>6 DEF PasskeyTyped, Ceremony!TypeOK
<1>8. SessionInv'
  <2>1. ASSUME NEW p \in Finishers PROVE SessionOf(op[p])'
    <3>1. CASE p = o /\ l = Ceremony!Idle
      BY <1>4, <3>1, IdleIs DEF SessionOf
    <3>2. CASE p = o /\ l # Ceremony!Idle
      BY <1>1, <1>2, <1>3, <1>4, <3>2 DEF SessionOf
    <3>3. CASE p # o
      BY <1>1, <1>4, <1>6, <3>3 DEF SessionOf, SessionInv
    <3> QED
      BY <3>1, <3>2, <3>3
  <2> QED
    BY <1>6, <2>1 DEF SessionInv
<1>9. CountInv'
  <2>1. CASE l = Ceremony!Idle
    BY <1>1, <1>4, <2>1, IdleIs, OpCount
  <2>2. CASE l # Ceremony!Idle
    BY <1>1, <1>3, <1>4, <2>2, OpCount
  <2> QED
    BY <2>1, <2>2
<1>10. BudgetInv'
  <2> SUFFICES ASSUME NEW m \in Ceremony!Challenges
               PROVE  /\ Spent(m)' <= shared'[m] + losses' + 1
                      /\ Waiting(m)' /\ Deleting(m)' = {} => Spent(m)' <= shared'[m] + losses'
                      /\ m > issued' => accepted'[m] = 0
    BY DEF BudgetInv
  <2>1. /\ Spent(m) <= shared[m] + losses + 1
        /\ Waiting(m) /\ Deleting(m) = {} => Spent(m) <= shared[m] + losses
        /\ m > issued => accepted[m] = 0
    BY DEF BudgetInv
  <2>2. InFlight(m)' \subseteq InFlight(m)
    BY <1>1, <1>3, <1>4, IdleIs DEF InFlight
  <2>3. Spent(m)' \in Nat /\ Spent(m)' <= Spent(m) /\ Spent(m) \in Nat /\ shared[m] \in Nat
    BY <1>1, <2>2, SpentStays, SpentFacts
  <2>4. CASE m = op[o].session
    <3>1. Waiting(m)' => losses' = losses + 1
      <4> SUFFICES ASSUME Waiting(m)', losses' # losses + 1 PROVE FALSE
        OBVIOUS
      <4>1. PICK k \in ceremony : k.ch = m /\ k \notin Ceremony!Key(op[o].kind, op[o].user)
        BY <1>1 DEF Waiting
      <4> QED
        BY <1>1, <1>2, <2>4, <4>1 DEF SessionOf, Ceremony!Key
    <3> QED
      BY <1>1, <1>5, <2>1, <2>3, <3>1
  <2>5. CASE m # op[o].session
    <3>1. Deleting(m)' = Deleting(m)
      BY <1>1, <1>3, <1>4, <2>5, IdleIs DEF Deleting
    <3>2. Waiting(m)' => Waiting(m)
      BY <1>6 DEF Waiting
    <3> QED
      BY <1>1, <1>5, <2>1, <2>3, <3>1, <3>2
  <2> QED
    BY <2>4, <2>5
<1> QED
  BY <1>7, <1>8, <1>9, <1>10

\* A request that ends has spent what it held.
LEMMA EndsKeeps ==
    ASSUME PasskeyInv, NEW o \in Finishers, op[o].pc \in {"reg", "auth", "count"},
           op' = [op EXCEPT ![o] = Ceremony!Idle],
           UNCHANGED <<ceremony, issued, losses, shared>>,
           accepted' = accepted \/ accepted' = [accepted EXCEPT ![op[o].ch] = @ + 1]
    PROVE  /\ SessionInv' /\ BudgetInv'
           /\ accepted' \in [Ceremony!Challenges -> Nat] /\ op' \in [Finishers -> Answering]
           /\ op'[o] = Ceremony!Idle /\ \A p \in Finishers \ {o} : op'[p] = op[p]
           /\ \A p \in Finishers : op'[p].pc \in {"idle", "get", "del", "reg", "auth", "count"}
<1> USE DEF PasskeyInv
<1>1. /\ op' \in [Finishers -> Answering] /\ op'[o] = Ceremony!Idle
      /\ \A p \in Finishers \ {o} : op'[p] = op[p]
      /\ \A p \in Finishers : op'[p].pc \in {"idle", "get", "del", "reg", "auth", "count"}
  BY IdleIs, AnswerTyped
<1>2. /\ op[o].session = op[o].ch /\ op[o].ch \in 1..issued /\ op[o].ch \in Ceremony!Challenges
      /\ issued \in Nat
  <2>1. op[o].session = op[o].ch /\ op[o].session \in 1..issued /\ issued \in 0..MaxCeremonies
    BY DEF SessionInv, SessionOf, PasskeyTyped, Ceremony!TypeOK
  <2> QED
    BY <2>1, PasskeyAssumption DEF Ceremony!Challenges
<1>3. /\ accepted \in [Ceremony!Challenges -> Nat] /\ accepted' \in [Ceremony!Challenges -> Nat]
      /\ \A m \in Ceremony!Challenges : m # op[o].ch => accepted'[m] = accepted[m]
      /\ accepted'[op[o].ch] = accepted[op[o].ch] \/ accepted'[op[o].ch] = accepted[op[o].ch] + 1
  BY <1>2 DEF PasskeyTyped
<1>4. SessionInv'
  <2>1. ASSUME NEW p \in Finishers PROVE SessionOf(op[p])'
    BY <1>1, IdleIs DEF SessionOf, SessionInv
  <2> QED
    BY <2>1 DEF SessionInv
<1>5. BudgetInv'
  <2> SUFFICES ASSUME NEW m \in Ceremony!Challenges
               PROVE  /\ Spent(m)' <= shared'[m] + losses' + 1
                      /\ Waiting(m)' /\ Deleting(m)' = {} => Spent(m)' <= shared'[m] + losses'
                      /\ m > issued' => accepted'[m] = 0
    BY DEF BudgetInv
  <2>1. /\ Spent(m) <= shared[m] + losses + 1
        /\ Waiting(m) /\ Deleting(m) = {} => Spent(m) <= shared[m] + losses
        /\ m > issued => accepted[m] = 0
    BY DEF BudgetInv
  <2>2. Deleting(m)' = Deleting(m) /\ Waiting(m)' = Waiting(m) /\ InFlight(m)' \subseteq InFlight(m) \ {o}
    BY <1>1, IdleIs DEF Deleting, Waiting, InFlight
  <2>3. Spent(m)' \in Nat /\ Spent(m)' <= Spent(m) /\ Spent(m) \in Nat /\ shared[m] \in Nat /\ losses \in Nat
    <3>1. CASE accepted'[m] = accepted[m]
      BY <2>2, <3>1, SpentStays, SpentFacts
    <3>2. CASE accepted'[m] # accepted[m]
      <4>1. m = op[o].ch /\ accepted'[m] = accepted[m] + 1
        BY <1>3, <3>2
      <4>2. o \in InFlight(m)
        BY <1>2, <4>1 DEF InFlight
      <4> QED
        BY <2>2, <4>1, <4>2, SpentOne, SpentFacts
    <3> QED
      BY <3>1, <3>2
  <2>4. m > issued => m # op[o].ch
    BY <1>2
  <2> QED
    BY <1>3, <2>1, <2>2, <2>3, <2>4
<1> QED
  BY <1>1, <1>3, <1>4, <1>5

\* A passkey is stored under a fresh id; the sign-ins its credential is in are counted.
LEMMA CreatePasskeyKeeps ==
    ASSUME PasskeyInv, NEW o \in Finishers, Ceremony!CreatePasskey(o)
    PROVE  PasskeyInv'
<1> USE DEF PasskeyInv
<1> DEFINE c == op[o].cred
           x == [id |-> made + 1, user |-> op[o].user, count |-> op[o].count]
<1>1. /\ op[o].pc = "reg" /\ op' = [op EXCEPT ![o] = Ceremony!Idle]
      /\ reused' = reused \cup Ceremony!InUse(c)
      /\ UNCHANGED <<ceremony, issued, losses, shared>>
      /\ \/ UNCHANGED <<passkeys, made, accepted>>
         \/ /\ passkeys[c] = None /\ made' = made + 1 /\ passkeys' = [passkeys EXCEPT ![c] = x]
            /\ accepted' = [accepted EXCEPT ![op[o].ch] = @ + 1]
  BY DEF Ceremony!CreatePasskey, Ceremony!Accept, Ceremony!store
<1>2. c \in Creds /\ op[o].user \in Users /\ op[o].count \in 0..MaxSigns /\ made \in Nat
  BY <1>1 DEF SessionInv, SessionOf, PasskeyTyped, Answering
<1>3. /\ SessionInv' /\ BudgetInv'
      /\ accepted' \in [Ceremony!Challenges -> Nat] /\ op' \in [Finishers -> Answering]
      /\ op'[o] = Ceremony!Idle /\ \A p \in Finishers \ {o} : op'[p] = op[p]
      /\ \A p \in Finishers : op'[p].pc \in {"idle", "get", "del", "reg", "auth", "count"}
  BY <1>1, EndsKeeps
<1>4. x \in PasskeyRow /\ x \in [id : 1..(made + 1), user : Users, count : 0..MaxSigns] /\ x.id = made + 1
  BY <1>2 DEF PasskeyRow
<1> HIDE DEF c, x
<1>5. /\ passkeys' \in [Creds -> {None} \cup PasskeyRow] /\ made' \in Nat
      /\ \A d \in Creds : passkeys'[d] = passkeys[d] \/ (d = c /\ passkeys'[c] = x /\ made' = made + 1)
      /\ made' = made \/ made' = made + 1
  BY <1>1, <1>2, <1>4 DEF PasskeyTyped
<1>6. Ceremony!TypeOK'
  <2>0. \A d \in Creds : passkeys[d] = None \/ passkeys[d] \in [id : 1..made, user : Users, count : 0..MaxSigns]
    BY DEF PasskeyTyped, Ceremony!TypeOK
  <2>1. \A d \in Creds : passkeys'[d] = None \/ passkeys'[d] \in [id : 1..made', user : Users, count : 0..MaxSigns]
    <3>1. 1..made \subseteq 1..made'
      BY <1>2, <1>5
    <3> QED
      BY <1>4, <1>5, <2>0, <3>1
  <2>2. ASSUME NEW d \in Creds, NEW e \in Creds, d # e, passkeys'[d] # None, passkeys'[e] # None
        PROVE  passkeys'[d].id # passkeys'[e].id
    <3>1. \A f \in Creds : passkeys[f] # None => passkeys[f].id \in 1..made /\ passkeys[f].id # made + 1
      BY <1>2, <2>0
    <3> QED
      BY <1>4, <1>5, <2>2, <3>1 DEF PasskeyTyped, Ceremony!TypeOK
  <2> QED
    BY <1>1, <1>3, <2>1, <2>2 DEF PasskeyTyped, Ceremony!TypeOK
<1>7. PasskeyTyped'
  BY <1>1, <1>3, <1>5, <1>6 DEF PasskeyTyped
<1>8. CountInv'
  <2>1. ASSUME NEW p \in Finishers \ {o}, NEW d \in Creds, SigningIn(op[p], d), d \notin reused', passkeys'[d] # None
        PROVE  passkeys[d] # None /\ passkeys'[d].count = passkeys[d].count
    <3>1. d # c
      BY <1>1, <2>1 DEF SigningIn, Ceremony!InUse
    <3> QED
      BY <1>5, <2>1, <3>1
  <2> QED
    BY <1>1, <1>3, <2>1, IdleIs, OpCount
<1> QED
  BY <1>3, <1>7, <1>8

\* A sign-in finds the document of its credential, or ends.
LEMMA FindPasskeyKeeps ==
    ASSUME PasskeyInv, NEW o \in Finishers, Ceremony!FindPasskey(o)
    PROVE  PasskeyInv'
<1> USE DEF PasskeyInv
<1> DEFINE x == passkeys[op[o].cred]
           l == [op[o] EXCEPT !.pc = "count", !.id = x.id]
<1>1. /\ op[o].pc = "auth"
      /\ UNCHANGED <<passkeys, made, ceremony, issued, losses, accepted, shared, reused>>
      /\ \/ op' = [op EXCEPT ![o] = Ceremony!Idle]
         \/ x # None /\ op' = [op EXCEPT ![o] = l]
  BY DEF Ceremony!FindPasskey, Ceremony!store, Ceremony!history, PasskeyTyped
<1>2. CASE op' = [op EXCEPT ![o] = Ceremony!Idle]
  <2>1. /\ SessionInv' /\ BudgetInv' /\ op' \in [Finishers -> Answering]
        /\ op'[o] = Ceremony!Idle /\ \A p \in Finishers \ {o} : op'[p] = op[p]
        /\ \A p \in Finishers : op'[p].pc \in {"idle", "get", "del", "reg", "auth", "count"}
    BY <1>1, <1>2, EndsKeeps
  <2>2. PasskeyTyped'
    BY <1>1, <2>1 DEF PasskeyTyped, Ceremony!TypeOK
  <2>3. CountInv'
    BY <1>1, <2>1, IdleIs, OpCount
  <2> QED
    BY <2>1, <2>2, <2>3
<1>3. CASE x # None /\ op' = [op EXCEPT ![o] = l]
  <2>1. op[o] \in Answering /\ SessionOf(op[o]) /\ op[o].cred \in Creds
    BY <1>1 DEF PasskeyTyped, SessionInv, SessionOf
  <2>2. x.id \in Nat
    BY <1>3, <2>1 DEF PasskeyTyped, PasskeyRow
  <2> HIDE DEF x
  <2>3. /\ l \in Answering /\ l.pc = "count" /\ l.session = op[o].session /\ l.ch = op[o].ch
        /\ l.kind = op[o].kind /\ l.cred = op[o].cred /\ l.user = op[o].user /\ l.own = op[o].own
    BY <2>1, <2>2 DEF Answering
  <2> HIDE DEF l
  <2>4. /\ op' \in [Finishers -> Answering] /\ op'[o] = l
        /\ \A p \in Finishers \ {o} : op'[p] = op[p]
        /\ \A p \in Finishers : op'[p].pc \in {"idle", "get", "del", "reg", "auth", "count"}
    BY <1>3, <2>3, AnswerTyped
  <2>5. PasskeyTyped'
    BY <1>1, <2>4 DEF PasskeyTyped, Ceremony!TypeOK
  <2>6. SessionInv'
    <3>1. ASSUME NEW p \in Finishers PROVE SessionOf(op[p])'
      BY <1>1, <2>1, <2>3, <2>4 DEF SessionOf, SessionInv
    <3> QED
      BY <1>1, <3>1 DEF SessionInv
  <2>7. CountInv'
    BY <1>1, <2>3, <2>4, OpCount
  <2>8. ASSUME NEW m \in Ceremony!Challenges
        PROVE  InFlight(m)' = InFlight(m) /\ Deleting(m)' = Deleting(m) /\ Waiting(m)' = Waiting(m)
    BY <1>1, <2>3, <2>4 DEF InFlight, Deleting, Waiting
  <2>9. BudgetInv'
    BY <1>1, <2>8 DEF BudgetInv, Spent
  <2> QED
    BY <2>5, <2>6, <2>7, <2>9
<1> QED
  BY <1>1, <1>2, <1>3

\* The count that is written is not below the one that was read.
LEMMA VerifiedCountIs ==
    ASSUME NEW l \in Answering, \E d \in l.own : d[1] = l.cred
    PROVE  /\ Ceremony!VerifiedCount(l) \in 0..MaxSigns
           /\ \E d \in l.own : d[1] = l.cred /\ d[2] \in 0..MaxSigns /\ Ceremony!VerifiedCount(l) >= d[2]
<1> DEFINE e == CHOOSE d \in l.own : d[1] = l.cred
<1>1. e \in l.own /\ e[1] = l.cred
  OBVIOUS
<1>2. l.own \subseteq Creds \X (0..MaxSigns) /\ l.count \in 0..MaxSigns
  BY DEF Answering
<1>3. e[2] \in 0..MaxSigns
  BY <1>1, <1>2
<1>4. Ceremony!VerifiedCount(l) = IF l.count > e[2] THEN l.count ELSE e[2]
  BY DEF Ceremony!VerifiedCount
<1> HIDE DEF e
<1>5. Ceremony!VerifiedCount(l) \in 0..MaxSigns /\ Ceremony!VerifiedCount(l) >= e[2]
  BY <1>2, <1>3, <1>4, PasskeyAssumption
<1> QED
  BY <1>1, <1>3, <1>5

\* A sign-in is accepted and writes its count, blindly; one that nobody crossed read what
\* it overwrites.
LEMMA UpdateSignCountKeeps ==
    ASSUME PasskeyInv, NEW o \in Finishers, Ceremony!UpdateSignCount(o)
    PROVE  PasskeyInv' /\ Ceremony!CountKept
<1> USE DEF PasskeyInv
<1> DEFINE c == op[o].cred
           v == Ceremony!VerifiedCount(op[o])
           x == [passkeys[c] EXCEPT !.count = v]
<1>1. /\ op[o].pc = "count" /\ op' = [op EXCEPT ![o] = Ceremony!Idle]
      /\ accepted' = [accepted EXCEPT ![op[o].ch] = @ + 1]
      /\ UNCHANGED <<made, ceremony, issued, losses, shared, reused>>
      /\ passkeys' = passkeys \/ (passkeys[c] # None /\ passkeys' = [passkeys EXCEPT ![c] = x])
  BY DEF Ceremony!UpdateSignCount, Ceremony!Accept, Ceremony!SameRow, PasskeyTyped
<1>2. /\ op[o] \in Answering /\ c \in Creds /\ SigningIn(op[o], c)
      /\ \E d \in op[o].own : d[1] = c
  BY <1>1 DEF SessionInv, SessionOf, PasskeyTyped, SigningIn
<1>3. v \in 0..MaxSigns /\ \E d \in op[o].own : d[1] = c /\ d[2] \in 0..MaxSigns /\ v >= d[2]
  BY <1>2, VerifiedCountIs
<1>4. /\ SessionInv' /\ BudgetInv'
      /\ accepted' \in [Ceremony!Challenges -> Nat] /\ op' \in [Finishers -> Answering]
      /\ op'[o] = Ceremony!Idle /\ \A p \in Finishers \ {o} : op'[p] = op[p]
      /\ \A p \in Finishers : op'[p].pc \in {"idle", "get", "del", "reg", "auth", "count"}
  BY <1>1, EndsKeeps
<1> HIDE DEF v
<1>5. passkeys[c] # None =>
         /\ x \in PasskeyRow /\ x.id = passkeys[c].id /\ x.count = v
         /\ x \in [id : 1..made, user : Users, count : 0..MaxSigns]
  <2> SUFFICES ASSUME passkeys[c] # None
               PROVE  /\ x \in PasskeyRow /\ x.id = passkeys[c].id /\ x.count = v
                      /\ x \in [id : 1..made, user : Users, count : 0..MaxSigns]
    OBVIOUS
  <2>1. passkeys[c] \in PasskeyRow /\ passkeys[c] \in [id : 1..made, user : Users, count : 0..MaxSigns]
    BY <1>2 DEF PasskeyTyped, Ceremony!TypeOK
  <2> QED
    BY <1>3, <2>1 DEF PasskeyRow
<1> HIDE DEF x
<1>6. /\ passkeys' \in [Creds -> {None} \cup PasskeyRow]
      /\ \A d \in Creds : passkeys'[d] = passkeys[d] \/ (d = c /\ passkeys'[c] = x /\ passkeys[c] # None)
  BY <1>1, <1>2, <1>5 DEF PasskeyTyped
<1>7. Ceremony!TypeOK'
  <2>1. \A d \in Creds : passkeys'[d] = None \/ passkeys'[d] \in [id : 1..made', user : Users, count : 0..MaxSigns]
    BY <1>1, <1>5, <1>6 DEF PasskeyTyped, Ceremony!TypeOK
  <2>2. ASSUME NEW d \in Creds, NEW e \in Creds, d # e, passkeys'[d] # None, passkeys'[e] # None
        PROVE  passkeys'[d].id # passkeys'[e].id
    <3>1. /\ passkeys[d] # None /\ passkeys'[d].id = passkeys[d].id
          /\ passkeys[e] # None /\ passkeys'[e].id = passkeys[e].id
      BY <1>5, <1>6, <2>2
    <3> QED
      BY <2>2, <3>1 DEF PasskeyTyped, Ceremony!TypeOK
  <2> QED
    BY <1>1, <1>4, <2>1, <2>2 DEF PasskeyTyped, Ceremony!TypeOK
<1>8. PasskeyTyped'
  BY <1>1, <1>4, <1>6, <1>7 DEF PasskeyTyped
<1>9. CountInv'
  <2>1. ASSUME NEW p \in Finishers \ {o}, NEW d \in Creds, SigningIn(op[p], d), d \notin reused', passkeys'[d] # None
        PROVE  passkeys[d] # None /\ passkeys'[d].count = passkeys[d].count
    <3>1. d # c
      BY <1>1, <1>2, <2>1 DEF CountInv
    <3> QED
      BY <1>6, <2>1, <3>1
  <2> QED
    BY <1>1, <1>4, <2>1, IdleIs, OpCount
<1>10. Ceremony!CountKept
  <2> SUFFICES ASSUME NEW d \in Creds, passkeys[d] # None, passkeys'[d] # None, d \notin reused
               PROVE  passkeys'[d].count >= passkeys[d].count
    BY DEF Ceremony!CountKept
  <2>1. passkeys[d].count \in 0..MaxSigns
    BY DEF PasskeyTyped, Ceremony!TypeOK
  <2>2. CASE passkeys'[d] = passkeys[d]
    BY <2>1, <2>2
  <2>3. CASE d = c /\ passkeys'[c] = x
    <3>1. PICK e \in op[o].own : e[1] = c /\ e[2] \in 0..MaxSigns /\ v >= e[2]
      BY <1>3
    <3>2. passkeys[c].count = e[2]
      BY <1>2, <2>3, <3>1 DEF CountInv
    <3>3. passkeys'[d].count = v
      BY <1>5, <2>3
    <3> QED
      BY <2>3, <3>1, <3>2, <3>3
  <2> QED
    BY <1>6, <2>2, <2>3
<1> QED
  BY <1>4, <1>8, <1>9, <1>10

\* A passkey is deleted: what a sign-in read of it is of no document any more.
LEMMA DeleteKeeps ==
    ASSUME PasskeyInv, NEW u \in Users, NEW c \in Creds, Ceremony!Delete(u, c)
    PROVE  PasskeyInv'
<1> USE DEF PasskeyInv
<1>1. /\ passkeys' = [passkeys EXCEPT ![c] = None]
      /\ UNCHANGED <<made, ceremony, issued, op, losses, accepted, shared, reused>>
  BY DEF Ceremony!Delete, Ceremony!history
<1>2. /\ passkeys' \in [Creds -> {None} \cup PasskeyRow]
      /\ \A d \in Creds : passkeys'[d] # None => passkeys'[d] = passkeys[d]
  BY <1>1 DEF PasskeyTyped
<1>3. Ceremony!TypeOK'
  BY <1>1, <1>2 DEF PasskeyTyped, Ceremony!TypeOK
<1>4. PasskeyTyped'
  BY <1>1, <1>2, <1>3 DEF PasskeyTyped
<1>5. SessionInv'
  BY <1>1 DEF SessionInv, SessionOf
<1>6. CountInv'
  BY <1>1, <1>2 DEF CountInv, SigningIn
<1>7. BudgetInv'
  BY <1>1 DEF BudgetInv, Spent, InFlight, Deleting, Waiting
<1> QED
  BY <1>4, <1>5, <1>6, <1>7

\* The stored count is the same after any other step.
LEMMA CountStays ==
    ASSUME PasskeyInv,
           \A c \in Creds : passkeys[c] # None /\ passkeys'[c] # None => passkeys'[c] = passkeys[c]
    PROVE  Ceremony!CountKept
<1>1. \A c \in Creds : passkeys[c] # None => passkeys[c].count \in 0..MaxSigns
  BY DEF PasskeyInv, PasskeyTyped, Ceremony!TypeOK
<1>2. \A i \in 0..MaxSigns : i >= i
  BY PasskeyAssumption
<1> QED
  BY <1>1, <1>2 DEF Ceremony!CountKept

\* Every step of a ceremony keeps the invariant, and no count goes back uncounted.
LEMMA PasskeyKeeps == PasskeyInv /\ [Ceremony!Next]_passkeyVars => PasskeyInv' /\ Ceremony!CountKept
<1> SUFFICES ASSUME PasskeyInv, [Ceremony!Next]_passkeyVars PROVE PasskeyInv' /\ Ceremony!CountKept
  OBVIOUS
<1>1. CASE UNCHANGED passkeyVars
  <2>1. UNCHANGED <<passkeys, made, ceremony, issued, op, losses, accepted, shared, reused>>
    BY <1>1 DEF passkeyVars
  <2>2. PasskeyTyped'
    BY <2>1 DEF PasskeyInv, PasskeyTyped, Ceremony!TypeOK
  <2>3. SessionInv' /\ CountInv'
    BY <2>1 DEF PasskeyInv, SessionInv, SessionOf, CountInv, SigningIn
  <2>4. BudgetInv'
    BY <2>1 DEF PasskeyInv, BudgetInv, Spent, InFlight, Deleting, Waiting
  <2> QED
    BY <2>1, <2>2, <2>3, <2>4, CountStays DEF PasskeyInv
<1>2. ASSUME NEW u \in Users, Ceremony!BeginRegistration(u) \/ Ceremony!BeginLogin(u)
      PROVE  PasskeyInv' /\ Ceremony!CountKept
  <2>1. Ceremony!Open("reg", u) \/ Ceremony!Open("auth", u)
    BY <1>2 DEF Ceremony!BeginRegistration, Ceremony!BeginLogin
  <2>2. passkeys' = passkeys
    BY <2>1 DEF Ceremony!Open, Ceremony!store
  <2> QED
    BY <2>1, <2>2, OpenKeeps, CountStays
<1>3. CASE Ceremony!BeginDiscoverableLogin
  <2>1. Ceremony!Open("disc", issued + 1) /\ passkeys' = passkeys
    BY <1>3 DEF Ceremony!BeginDiscoverableLogin, Ceremony!Open, Ceremony!store
  <2> QED
    BY <2>1, OpenKeeps, CountStays
<1>4. CASE Ceremony!Expire
  BY <1>4, PasskeyExpireKeeps, CountStays DEF Ceremony!Expire, Ceremony!store
<1>5. ASSUME NEW o \in Finishers, Ceremony!Answer(o, "reg") \/ Ceremony!Answer(o, "auth")
      PROVE  PasskeyInv' /\ Ceremony!CountKept
  <2>1. PICK kind \in {"reg", "auth"}, u \in Users, c \in Creds, n \in Ceremony!Challenges,
             count0 \in 0..MaxSigns : Ceremony!Finish(o, kind, u, n, c, count0)
    BY <1>5 DEF Ceremony!Answer
  <2>2. passkeys' = passkeys
    BY <2>1 DEF Ceremony!Finish, Ceremony!store
  <2> QED
    BY <2>1, <2>2, FinishKeeps, CountStays
<1>6. ASSUME NEW o \in Finishers, Ceremony!GetSession(o) PROVE PasskeyInv' /\ Ceremony!CountKept
  BY <1>6, GetSessionKeeps, CountStays DEF Ceremony!GetSession, Ceremony!store
<1>7. ASSUME NEW o \in Finishers, Ceremony!DelAndVerify(o) PROVE PasskeyInv' /\ Ceremony!CountKept
  BY <1>7, DelKeeps, CountStays DEF Ceremony!DelAndVerify, Ceremony!store
<1>8. ASSUME NEW o \in Finishers, Ceremony!CreatePasskey(o) PROVE PasskeyInv' /\ Ceremony!CountKept
  <2>1. \A c \in Creds : passkeys[c] # None => passkeys'[c] = passkeys[c]
    BY <1>8 DEF Ceremony!CreatePasskey, Ceremony!store, PasskeyInv, PasskeyTyped
  <2> QED
    BY <1>8, <2>1, CreatePasskeyKeeps, CountStays
<1>9. ASSUME NEW o \in Finishers, Ceremony!FindPasskey(o) PROVE PasskeyInv' /\ Ceremony!CountKept
  BY <1>9, FindPasskeyKeeps, CountStays DEF Ceremony!FindPasskey, Ceremony!store
<1>10. ASSUME NEW u \in Users, NEW c \in Creds, Ceremony!Delete(u, c) PROVE PasskeyInv' /\ Ceremony!CountKept
  <2>1. \A d \in Creds : passkeys[d] # None /\ passkeys'[d] # None => passkeys'[d] = passkeys[d]
    BY <1>10 DEF Ceremony!Delete, PasskeyInv, PasskeyTyped
  <2> QED
    BY <1>10, <2>1, DeleteKeeps, CountStays
<1> QED
  BY <1>1, <1>2, <1>3, <1>4, <1>5, <1>6, <1>7, <1>8, <1>9, <1>10, UpdateSignCountKeeps
  DEF Ceremony!Next, Ceremony!FinishRegistration, Ceremony!FinishLogin

\* A challenge is accepted no more often than it is spent.
LEMMA PasskeyPromises == PasskeyInv => Ceremony!ReplayBudget
<1> SUFFICES ASSUME PasskeyInv, NEW n \in Ceremony!Challenges
             PROVE  accepted[n] <= 1 + shared[n] + losses
  BY DEF Ceremony!ReplayBudget
<1>1. Spent(n) <= shared[n] + losses + 1
  BY DEF PasskeyInv, BudgetInv
<1>2. accepted[n] \in Nat /\ shared[n] \in Nat /\ losses \in Nat /\ Spent(n) \in Nat /\ accepted[n] <= Spent(n)
  BY SpentFacts DEF PasskeyInv
<1> QED
  BY <1>1, <1>2

-----------------------------------------------------------------------------
(* Reports *)

\* The counts a report is made of.
Names == {"registered", "churned", "ever", "users", "methods", "locked", "near", "stuffing",
          "active", "passkeys", "owners", "mobiles", "verified", "logged", "platform",
          "cross-platform", "backed-up"}

\* A report: its counts, what was added while they were made, and which of them failed.
Report == [got : UNION {[qs -> Nat] : qs \in SUBSET Names},
           added : SUBSET (Members \cup Passkeys \cup Numbers), failed : SUBSET Names]

\* The locals of a request for a report.
AdminCall == [pc : {"idle", "reading", "storing", "answered", "failed"},
              key : Asked \cup {None}, todo : Seq(Names), report : Report]

\* An account, with the days of its creation and deletion (0 is never).
AccountRow == [status : {None, "active", "blocked"}, created : Nat, deleted : Nat]

\* No account is deleted before it was created, nor created after today.
ReportsTyped ==
    /\ Reports!TypeOK
    /\ account \in [Members -> AccountRow]
    /\ day \in Nat /\ day >= 1
    /\ \A u \in Members : account[u].created <= day /\ (account[u].deleted = 0 \/ account[u].created <= account[u].deleted)
    /\ cache \in [Asked -> {None} \cup Report]
    /\ admin \in [Admins -> AdminCall]

\* The credentials of a kind, those of them that are there, and the accounts that the churn
\* is a part of.
Of(kind) == IF kind = "backed-up" THEN BackedUp ELSE {p \in Passkeys : Attachment[p] = kind}
Owned(kind) == {p \in Of(kind) : owner[p] # None}
Ever(key) == Reports!Matching("ever", key)

\* No error that is returned is given as a zero.
Honest(r) == \A query \in r.failed : ~Reports!FailsAsAWhole(query)

\* What PartsWithinWhole says of one report.
Sound(r) ==
    /\ "ever" \in Reports!Known(r) => r.got["churned"] <= r.got["ever"]
    /\ "users" \in Reports!Known(r) =>
           r.got["locked"] <= r.got["users"] + Cardinality(r.added \cap Members)
    /\ "mobiles" \in Reports!Known(r) =>
           r.got["verified"] <= r.got["mobiles"] + Cardinality(r.added \cap Numbers)
    /\ "passkeys" \in Reports!Known(r) =>
           /\ r.got["platform"] + r.got["cross-platform"]
                 <= r.got["passkeys"] + Cardinality(r.added \cap Passkeys)
           /\ r.got["backed-up"] <= r.got["passkeys"] + Cardinality(r.added \cap Passkeys)
    /\ Honest(r)

\* How far a report is, and how the next count compares with the ones it has: what is there
\* now and was not added meanwhile is no more than the whole that was counted.
Begun(l) == l.todo = Reports!Reads(l.key.report) /\ DOMAIN l.report.got = {}

\* The churn, before the accounts of the time are counted.
HasChurned(l) ==
    /\ l.key.report = "churn" /\ l.todo = <<"ever">> /\ DOMAIN l.report.got = {"churned"}
    /\ l.report.got["churned"] <= Cardinality(Ever(l.key))

\* The fraud report, which has its users and makes one call more.
HasNear(l) == l.key.report = "fraud" /\ l.todo = <<"stuffing">> /\ DOMAIN l.report.got = {"near"}

\* The lockouts, the phones and the passkeys, once the whole is counted ...
HasUsers(l) ==
    /\ l.key.report = "lockout" /\ l.todo = <<"locked">> /\ DOMAIN l.report.got = {"users"}
    /\ "users" \notin l.report.failed =>
          Cardinality(Reports!Live \ l.report.added) <= l.report.got["users"]

HasMobiles(l) ==
    /\ l.key.report = "mobile" /\ l.todo = <<"verified">> /\ DOMAIN l.report.got = {"mobiles"}
    /\ "mobiles" \notin l.report.failed =>
          Cardinality(mobiles \ l.report.added) <= l.report.got["mobiles"]

HasPasskeys(l) ==
    /\ l.key.report = "adoption" /\ l.todo = <<"platform", "cross-platform", "backed-up", "active", "owners">>
    /\ DOMAIN l.report.got = {"passkeys"}
    /\ "passkeys" \notin l.report.failed =>
          /\ Cardinality(Owned("platform") \ l.report.added) + Cardinality(Owned("cross-platform") \ l.report.added)
                <= l.report.got["passkeys"]
          /\ Cardinality(Owned("backed-up") \ l.report.added) <= l.report.got["passkeys"]

\* ... the first of the two kinds ...
HasPlatform(l) ==
    /\ l.key.report = "adoption" /\ l.todo = <<"cross-platform", "backed-up", "active", "owners">>
    /\ DOMAIN l.report.got = {"passkeys", "platform"}
    /\ "passkeys" \notin l.report.failed =>
          /\ l.report.got["platform"] + Cardinality(Owned("cross-platform") \ l.report.added)
                <= l.report.got["passkeys"] + Cardinality(l.report.added \cap Of("platform"))
          /\ Cardinality(Owned("backed-up") \ l.report.added) <= l.report.got["passkeys"]

\* ... both ...
HasBoth(l) ==
    /\ l.key.report = "adoption" /\ l.todo = <<"backed-up", "active", "owners">>
    /\ DOMAIN l.report.got = {"passkeys", "platform", "cross-platform"}
    /\ "passkeys" \notin l.report.failed =>
          /\ l.report.got["platform"] + l.report.got["cross-platform"]
                <= l.report.got["passkeys"] + Cardinality(l.report.added \cap Passkeys)
          /\ Cardinality(Owned("backed-up") \ l.report.added) <= l.report.got["passkeys"]

\* ... and those backed up, with the counts nothing is compared with still to come.
HasBacked(l) ==
    /\ l.key.report = "adoption"
    /\ \/ /\ l.todo = <<"active", "owners">>
          /\ DOMAIN l.report.got = {"passkeys", "platform", "cross-platform", "backed-up"}
       \/ /\ l.todo = <<"owners">>
          /\ DOMAIN l.report.got = {"passkeys", "platform", "cross-platform", "backed-up", "active"}
    /\ Sound(l.report)

\* One of these, for a report that may be asked for.
Underway(l) ==
    /\ l.key \in Asked /\ Honest(l.report)
    /\ \/ Begun(l) \/ HasChurned(l) \/ HasNear(l) \/ HasUsers(l) \/ HasMobiles(l)
       \/ HasPasskeys(l) \/ HasPlatform(l) \/ HasBoth(l) \/ HasBacked(l)

\* Every report under way is at one of these points, and every one given or kept is sound.
ReportsInv ==
    /\ ReportsTyped
    /\ \A o \in Admins :
          /\ admin[o].pc = "reading" => Underway(admin[o])
          /\ admin[o].pc \in {"storing", "answered"} => Sound(admin[o].report)
          /\ admin[o].pc = "storing" => admin[o].key \in Asked
    /\ \A k \in Asked : cache[k] # None => Sound(cache[k])

\* Before the first day's work nothing was asked.
LEMMA ReportsStart == Reports!Init => ReportsInv
<1> SUFFICES ASSUME Reports!Init PROVE ReportsInv
  OBVIOUS
<1>1. Reports!Idle \in AdminCall /\ Reports!Idle.pc = "idle"
  <2>1. [q0 \in {} |-> 0] \in UNION {[qs -> Nat] : qs \in SUBSET Names}
    <3>1. [q0 \in {} |-> 0] \in [{} -> Nat] /\ {} \in SUBSET Names
      OBVIOUS
    <3> QED
      BY <3>1
  <2>2. Reports!NoReport \in Report
    BY <2>1 DEF Reports!NoReport, Report
  <2>3. <<>> \in Seq(Names)
    OBVIOUS
  <2> QED
    BY <2>2, <2>3 DEF Reports!Idle, AdminCall
<1>2. \A o \in Admins : admin[o] = Reports!Idle
  BY DEF Reports!Init
<1>3. account \in [Members -> AccountRow] /\ \A u \in Members : account[u].created <= 1 /\ account[u].deleted = 0
  <2>1. PICK rows0 \in SUBSET AccountRow :
           /\ account \in [Members -> rows0]
           /\ \A x \in rows0 : x.created <= 1 /\ x.deleted = 0
    <3> DEFINE rows0 == {[status |-> None, created |-> 0, deleted |-> 0],
                         [status |-> "active", created |-> 1, deleted |-> 0]}
    <3>1. account \in [Members -> rows0]
      BY DEF Reports!Init
    <3>2. rows0 \in SUBSET AccountRow
      BY DEF AccountRow
    <3>3. \A x \in rows0 : x.created <= 1 /\ x.deleted = 0
      OBVIOUS
    <3> HIDE DEF rows0
    <3> QED
      BY <3>1, <3>2, <3>3
  <2> QED
    BY <2>1
<1>4. Reports!TypeOK
  BY <1>1, <1>2, <1>3, AuthAssumption, ReportAssumption DEF Reports!Init, Reports!TypeOK, AccountRow
<1>5. ReportsTyped
  BY <1>1, <1>3, <1>4 DEF Reports!Init, ReportsTyped
<1> QED
  BY <1>1, <1>2, <1>5 DEF ReportsInv, Reports!Init

\* What a report has got is a number for each of its queries.
LEMMA GotIs ==
    ASSUME NEW r \in Report
    PROVE  /\ DOMAIN r.got \in SUBSET Names /\ r.got \in [DOMAIN r.got -> Nat]
           /\ \A q0 \in DOMAIN r.got : r.got[q0] \in Nat
<1>1. PICK qs \in SUBSET Names : r.got \in [qs -> Nat]
  BY DEF Report
<1> QED
  BY <1>1

\* A count that is added leaves the others.
LEMMA WithIs ==
    ASSUME NEW r \in Report, NEW query \in Names, NEW n \in Nat
    PROVE  LET w == Reports!With(r, query, n)
           IN  /\ w \in Report /\ DOMAIN w.got = DOMAIN r.got \cup {query} /\ w.got[query] = n
               /\ \A q0 \in DOMAIN r.got \ {query} : w.got[q0] = r.got[q0]
               /\ w.added = r.added /\ w.failed = r.failed
<1> DEFINE g == [q0 \in DOMAIN r.got \cup {query} |-> IF q0 = query THEN n ELSE r.got[q0]]
           w == Reports!With(r, query, n)
<1>1. g \in [DOMAIN r.got \cup {query} -> Nat] /\ DOMAIN r.got \cup {query} \in SUBSET Names
  BY GotIs
<1>2. g \in UNION {[qs -> Nat] : qs \in SUBSET Names}
  <2> HIDE DEF g
  <2> QED
    BY <1>1
<1>3. w = [r EXCEPT !.got = g]
  BY DEF Reports!With
<1>4. DOMAIN g = DOMAIN r.got \cup {query} /\ g[query] = n /\ \A q0 \in DOMAIN r.got \ {query} : g[q0] = r.got[q0]
  OBVIOUS
<1> HIDE DEF g
<1>5. w.got = g /\ w.added = r.added /\ w.failed = r.failed /\ w \in Report
  BY <1>2, <1>3 DEF Report
<1> QED
  BY <1>4, <1>5

\* The sets that are counted are finite.
LEMMA SetsFinite ==
    ASSUME ReportsTyped
    PROVE  /\ \A query \in Names, key \in Asked :
                 IsFiniteSet(Reports!Matching(query, key)) /\ Cardinality(Reports!Matching(query, key)) \in Nat
           /\ \A S : S \subseteq Members \/ S \subseteq Passkeys \/ S \subseteq Numbers =>
                 IsFiniteSet(S) /\ Cardinality(S) \in Nat
           /\ Reports!Live \in SUBSET Members /\ mobiles \in SUBSET Numbers
           /\ \A kind : Owned(kind) \in SUBSET Passkeys /\ Of(kind) \in SUBSET Passkeys
<1>1. Reports!Created \subseteq Members /\ Reports!Live \subseteq Members
  BY DEF Reports!Created, Reports!Live
<1>2. mobiles \subseteq Numbers /\ owner \in [Passkeys -> Members \cup {None}]
  BY DEF ReportsTyped, Reports!TypeOK
<1>a. {owner[p] : p \in Passkeys} \ {None} \subseteq Members
  BY <1>2
<1>3. ASSUME NEW query \in Names, NEW key \in Asked
      PROVE  \/ Reports!Matching(query, key) \subseteq Members
             \/ Reports!Matching(query, key) \subseteq Passkeys
             \/ Reports!Matching(query, key) \subseteq Numbers
  <2>1. CASE query \in {"registered", "churned", "ever", "users", "methods", "locked", "near", "active"}
    <3>1. Reports!Matching(query, key) \subseteq Reports!Created \cup Reports!Live
      BY <2>1 DEF Reports!Matching, Reports!Live
    <3> QED
      BY <1>1, <3>1
  <2>2. CASE query \in {"mobiles", "verified", "logged", "stuffing"}
    <3>1. Reports!Matching(query, key) \subseteq mobiles
      BY <2>2 DEF Reports!Matching
    <3> QED
      BY <1>2, <3>1
  <2>3. CASE query = "owners"
    BY <1>a, <2>3 DEF Reports!Matching
  <2>4. CASE query \in {"passkeys", "platform", "cross-platform"}
    BY <2>4 DEF Reports!Matching
  <2>5. CASE query = "backed-up"
    BY <2>5, ReportAssumption DEF Reports!Matching
  <2> QED
    BY <2>1, <2>2, <2>3, <2>4, <2>5 DEF Names
<1>4. ASSUME NEW S, S \subseteq Members \/ S \subseteq Passkeys \/ S \subseteq Numbers
      PROVE  IsFiniteSet(S) /\ Cardinality(S) \in Nat
  <2>1. IsFiniteSet(Members) /\ IsFiniteSet(Passkeys) /\ IsFiniteSet(Numbers)
    BY ReportAssumption
  <2>2. IsFiniteSet(S)
    BY <1>4, <2>1, FS_Subset
  <2> QED
    BY <2>2, FS_CardinalityType
<1>5. \A kind : Of(kind) \subseteq Passkeys
  BY ReportAssumption DEF Of
<1> QED
  BY <1>1, <1>2, <1>3, <1>4, <1>5 DEF Owned

\* Two sets apart from each other count no more together than one that holds both.
LEMMA CountTwo ==
    ASSUME NEW U, IsFiniteSet(U), NEW S, NEW T, S \subseteq U, T \subseteq U, S \cap T = {}
    PROVE  /\ Cardinality(S) \in Nat /\ Cardinality(T) \in Nat /\ Cardinality(U) \in Nat
           /\ Cardinality(S) + Cardinality(T) <= Cardinality(U)
<1>1. /\ IsFiniteSet(S) /\ IsFiniteSet(T)
      /\ Cardinality(S) \in Nat /\ Cardinality(T) \in Nat /\ Cardinality(U) \in Nat
  BY CountLess
<1>2. Cardinality(S \cup T) = Cardinality(S) + Cardinality(T) - Cardinality({})
  BY <1>1, FS_Union
<1>3. Cardinality({}) = 0
  BY FS_EmptySet
<1>4. S \cup T \subseteq U
  OBVIOUS
<1>5. Cardinality(S \cup T) <= Cardinality(U)
  BY <1>4, CountLess
<1> QED
  BY <1>1, <1>2, <1>3, <1>5

\* A set counts no more than what is left of it and what was taken away.
LEMMA CountSplit ==
    ASSUME NEW A, NEW B, IsFiniteSet(A), IsFiniteSet(B), NEW S, S \subseteq A \cup B
    PROVE  /\ Cardinality(S) \in Nat /\ Cardinality(A) \in Nat /\ Cardinality(B) \in Nat
           /\ Cardinality(S) <= Cardinality(A) + Cardinality(B)
<1>1. /\ IsFiniteSet(A \cup B) /\ Cardinality(A) \in Nat /\ Cardinality(B) \in Nat
      /\ Cardinality(A \cap B) \in Nat /\ Cardinality(A \cup B) \in Nat
      /\ Cardinality(A \cup B) = Cardinality(A) + Cardinality(B) - Cardinality(A \cap B)
  <2>1. IsFiniteSet(A \cup B) /\ Cardinality(A \cup B) = Cardinality(A) + Cardinality(B) - Cardinality(A \cap B)
    BY FS_Union
  <2>2. IsFiniteSet(A \cap B)
    BY CountLess
  <2> QED
    BY <2>1, <2>2, FS_CardinalityType
<1>2. Cardinality(S) \in Nat /\ Cardinality(S) <= Cardinality(A \cup B)
  BY <1>1, CountLess
<1> QED
  BY <1>1, <1>2

\* What each query matches.
LEMMA MatchingIs ==
    ASSUME NEW key
    PROVE  /\ Reports!Matching("churned", key) =
                 {u \in Reports!Created : Reports!Within(account[u].deleted, key)}
           /\ Ever(key) = {u \in Reports!Created : account[u].created < key.to}
           /\ Reports!Matching("users", key) = Reports!Live
           /\ Reports!Matching("locked", key) = Reports!Live \cap nearLock
           /\ Reports!Matching("mobiles", key) = mobiles
           /\ Reports!Matching("verified", key) = mobiles
           /\ Reports!Matching("passkeys", key) = {p \in Passkeys : owner[p] # None}
           /\ Reports!Matching("platform", key) = Owned("platform")
           /\ Reports!Matching("cross-platform", key) = Owned("cross-platform")
           /\ Reports!Matching("backed-up", key) = Owned("backed-up")
  BY DEF Reports!Matching, Ever, Owned, Of

\* The calls of each report, in order.
LEMMA ReadsIs ==
    /\ Reports!Reads("churn") = <<"churned", "ever">>
    /\ Reports!Reads("registrations") = <<"registered">>
    /\ Reports!Reads("lockout") = <<"users", "locked">>
    /\ Reports!Reads("adoption") = <<"passkeys", "platform", "cross-platform", "backed-up", "active", "owners">>
    /\ Reports!Reads("mobile") = <<"mobiles", "verified">>
    /\ Reports!Reads("fraud") = <<"near", "stuffing">>
    /\ Reports!Reads("signups") = <<"methods">>
    /\ Reports!Reads("logins") = <<"logged">>
  BY DEF Reports!Reads, Reports!ChurnReads

\* One count of a report: it answers the query at the head, unless it failed.
Advanced(l, m) ==
    /\ m.key = l.key /\ m.todo = Tail(l.todo) /\ m.report \in Report
    /\ DOMAIN m.report.got = DOMAIN l.report.got \cup {Head(l.todo)}
    /\ \A q0 \in DOMAIN l.report.got \ {Head(l.todo)} : m.report.got[q0] = l.report.got[q0]
    /\ m.report.added = l.report.added
    /\ l.report.failed \subseteq m.report.failed /\ Honest(m.report)
    /\ m.report.got[Head(l.todo)] <= Cardinality(Reports!Matching(Head(l.todo), l.key))
    /\ Head(l.todo) \notin m.report.failed =>
          m.report.got[Head(l.todo)] = Cardinality(Reports!Matching(Head(l.todo), l.key))

\* The first count of a report.
LEMMA FirstCount ==
    ASSUME ReportsTyped, NEW l \in AdminCall, l.key \in Asked, Begun(l), NEW m, Advanced(l, m)
    PROVE  IF Len(l.todo) = 1 THEN Sound(m.report) ELSE Underway(m)
<1> DEFINE a == l.report.added   key == l.key   g == m.report.got
<1>1. /\ l.report \in Report /\ a \subseteq Members \cup Passkeys \cup Numbers
      /\ m.key = key /\ m.report.added = a
  BY DEF AdminCall, Report, Advanced
<1>h. Honest(m.report)
  BY DEF Advanced
<1>2. /\ key.from \in Nat \ {0} /\ key.to \in Nat
      /\ key.report \in {"registrations", "churn", "lockout", "adoption", "mobile", "fraud", "signups", "logins"}
  BY ReportAssumption
<1>3. CASE key.report \in {"registrations", "signups", "logins"}
  <2>1. l.todo \in {<<"registered">>, <<"methods">>, <<"logged">>}
    BY <1>3, ReadsIs DEF Begun
  <2>2. Len(l.todo) = 1 /\ Head(l.todo) \in {"registered", "methods", "logged"}
    BY <2>1
  <2>3. DOMAIN g = {Head(l.todo)}
    BY DEF Advanced, Begun
  <2> QED
    BY <1>h, <2>2, <2>3 DEF Sound, Reports!Known
<1>8. CASE key.report = "fraud"
  <2>1. l.todo = <<"near", "stuffing">> /\ DOMAIN l.report.got = {}
    BY <1>8, ReadsIs DEF Begun
  <2>2. Len(l.todo) = 2 /\ Head(l.todo) = "near" /\ Tail(l.todo) = <<"stuffing">>
    BY <2>1
  <2>3. m.todo = <<"stuffing">> /\ DOMAIN g = {"near"}
    BY <2>1, <2>2 DEF Advanced
  <2> QED
    BY <1>1, <1>8, <1>h, <2>2, <2>3 DEF Underway, HasNear
<1>4. CASE key.report = "churn"
  <2>1. l.todo = <<"churned", "ever">> /\ DOMAIN l.report.got = {}
    BY <1>4, ReadsIs DEF Begun
  <2>2. Len(l.todo) = 2 /\ Head(l.todo) = "churned" /\ Tail(l.todo) = <<"ever">>
    BY <2>1
  <2>3. /\ m.todo = <<"ever">> /\ DOMAIN g = {"churned"}
        /\ g["churned"] <= Cardinality(Reports!Matching("churned", key)) /\ g["churned"] \in Nat
    BY <2>1, <2>2, GotIs DEF Advanced
  <2>4. Reports!Matching("churned", key) \subseteq Ever(key)
    <3>1. ASSUME NEW u \in Reports!Created, Reports!Within(account[u].deleted, key)
          PROVE  account[u].created < key.to
      <4>1. u \in Members /\ account[u].created \in Nat /\ account[u].deleted \in Nat
        BY DEF Reports!Created, ReportsTyped, AccountRow
      <4>2. key.from <= account[u].deleted /\ account[u].deleted < key.to
        BY <3>1 DEF Reports!Within
      <4>3. account[u].created <= account[u].deleted
        BY <1>2, <4>1, <4>2 DEF ReportsTyped
      <4> QED
        BY <1>2, <4>1, <4>2, <4>3
    <3> QED
      BY <3>1, MatchingIs
  <2>5. /\ Cardinality(Reports!Matching("churned", key)) <= Cardinality(Ever(key))
        /\ Cardinality(Reports!Matching("churned", key)) \in Nat /\ Cardinality(Ever(key)) \in Nat
    BY <2>4, SetsFinite, CountLess DEF Ever, Names
  <2>6. HasChurned(m)
    BY <1>1, <1>4, <2>3, <2>5 DEF HasChurned
  <2> QED
    BY <1>1, <1>h, <2>2, <2>6 DEF Underway
<1>5. CASE key.report = "lockout"
  <2>1. l.todo = <<"users", "locked">> /\ DOMAIN l.report.got = {}
    BY <1>5, ReadsIs DEF Begun
  <2>2. Len(l.todo) = 2 /\ Head(l.todo) = "users" /\ Tail(l.todo) = <<"locked">>
    BY <2>1
  <2>3. /\ m.todo = <<"locked">> /\ DOMAIN g = {"users"}
        /\ "users" \notin m.report.failed => g["users"] = Cardinality(Reports!Live)
    BY <2>1, <2>2, MatchingIs DEF Advanced
  <2>4. Cardinality(Reports!Live \ a) <= Cardinality(Reports!Live)
    BY SetsFinite, CountLess
  <2>5. HasUsers(m)
    BY <1>1, <1>5, <2>3, <2>4 DEF HasUsers
  <2> QED
    BY <1>1, <1>h, <2>2, <2>5 DEF Underway
<1>6. CASE key.report = "mobile"
  <2>1. l.todo = <<"mobiles", "verified">> /\ DOMAIN l.report.got = {}
    BY <1>6, ReadsIs DEF Begun
  <2>2. Len(l.todo) = 2 /\ Head(l.todo) = "mobiles" /\ Tail(l.todo) = <<"verified">>
    BY <2>1
  <2>3. /\ m.todo = <<"verified">> /\ DOMAIN g = {"mobiles"}
        /\ "mobiles" \notin m.report.failed => g["mobiles"] = Cardinality(mobiles)
    BY <2>1, <2>2, MatchingIs DEF Advanced
  <2>4. Cardinality(mobiles \ a) <= Cardinality(mobiles)
    BY SetsFinite, CountLess
  <2>5. HasMobiles(m)
    BY <1>1, <1>6, <2>3, <2>4 DEF HasMobiles
  <2> QED
    BY <1>1, <1>h, <2>2, <2>5 DEF Underway
<1>7. CASE key.report = "adoption"
  <2>1. l.todo = <<"passkeys", "platform", "cross-platform", "backed-up", "active", "owners">> /\ DOMAIN l.report.got = {}
    BY <1>7, ReadsIs DEF Begun
  <2>2. /\ Len(l.todo) = 6 /\ Head(l.todo) = "passkeys"
        /\ Tail(l.todo) = <<"platform", "cross-platform", "backed-up", "active", "owners">>
    BY <2>1
  <2>3. /\ m.todo = <<"platform", "cross-platform", "backed-up", "active", "owners">> /\ DOMAIN g = {"passkeys"}
        /\ "passkeys" \notin m.report.failed => g["passkeys"] = Cardinality({p \in Passkeys : owner[p] # None})
    BY <2>1, <2>2, MatchingIs DEF Advanced
  <2>4. /\ Cardinality(Owned("platform") \ a) + Cardinality(Owned("cross-platform") \ a)
              <= Cardinality({p \in Passkeys : owner[p] # None})
        /\ Cardinality(Owned("backed-up") \ a) <= Cardinality({p \in Passkeys : owner[p] # None})
    <3> DEFINE S == Owned("platform") \ a   T == Owned("cross-platform") \ a
               B == Owned("backed-up") \ a
               U == {p \in Passkeys : owner[p] # None}
    <3>1. S \subseteq U /\ T \subseteq U /\ S \cap T = {} /\ U \subseteq Passkeys /\ B \subseteq U
      BY ReportAssumption DEF Owned, Of
    <3>2. IsFiniteSet(U)
      BY <3>1, SetsFinite
    <3> HIDE DEF S, T, U, B
    <3>3. Cardinality(S) + Cardinality(T) <= Cardinality(U) /\ Cardinality(B) <= Cardinality(U)
      BY <3>1, <3>2, CountTwo, CountLess
    <3> QED
      BY <3>3 DEF S, T, U, B
  <2>5. HasPasskeys(m)
    BY <1>1, <1>7, <2>3, <2>4 DEF HasPasskeys
  <2> QED
    BY <1>1, <1>h, <2>2, <2>5 DEF Underway
<1> QED
  BY <1>2, <1>3, <1>4, <1>5, <1>6, <1>7, <1>8

\* The later counts: a part is no more than the whole and what was added since.
LEMMA LaterCount ==
    ASSUME ReportsTyped, NEW l \in AdminCall, Underway(l), ~Begun(l), NEW m, Advanced(l, m)
    PROVE  IF Len(l.todo) = 1 THEN Sound(m.report) ELSE Underway(m)
<1> DEFINE a == l.report.added   key == l.key   f == l.report.got   g == m.report.got
<1>1. /\ l.report \in Report /\ a \subseteq Members \cup Passkeys \cup Numbers
      /\ m.key = key /\ m.report.added = a /\ key \in Asked /\ m.report \in Report
      /\ IsFiniteSet(a \cap Members) /\ IsFiniteSet(a \cap Numbers)
      /\ \A kind : IsFiniteSet(a \cap Of(kind))
  <2>1. a \cap Members \subseteq Members /\ a \cap Numbers \subseteq Numbers
    OBVIOUS
  <2>0. ASSUME NEW kind
        PROVE  IsFiniteSet(a \cap Of(kind))
    <3>1. Of(kind) \in SUBSET Passkeys
      BY SetsFinite
    <3>2. a \cap Of(kind) \subseteq Passkeys
      BY <3>1
    <3> QED
      BY <3>2, SetsFinite
  <2> QED
    BY <2>0, <2>1, SetsFinite DEF AdminCall, Report, Advanced, Underway
<1>h. Honest(m.report) /\ l.report.failed \subseteq m.report.failed
  BY DEF Advanced
<1>2. (\A q0 \in DOMAIN f : f[q0] \in Nat) /\ \A q0 \in DOMAIN g : g[q0] \in Nat
  BY <1>1, GotIs
<1>3. CASE HasChurned(l)
  <2>1. l.todo = <<"ever">> /\ DOMAIN f = {"churned"}
    BY <1>3 DEF HasChurned
  <2>2. Len(l.todo) = 1 /\ Head(l.todo) = "ever"
    BY <2>1
  <2>3. /\ DOMAIN g = {"churned", "ever"}
        /\ "ever" \notin m.report.failed => g["ever"] = Cardinality(Ever(key))
        /\ g["churned"] = f["churned"]
    BY <2>1, <2>2 DEF Advanced, Ever
  <2> QED
    BY <1>3, <1>h, <2>2, <2>3 DEF Sound, Reports!Known, HasChurned
<1>10. CASE HasNear(l)
  <2>1. l.todo = <<"stuffing">> /\ DOMAIN f = {"near"}
    BY <1>10 DEF HasNear
  <2>2. Len(l.todo) = 1 /\ Head(l.todo) = "stuffing"
    BY <2>1
  <2>3. DOMAIN g = {"near", "stuffing"}
    BY <2>1, <2>2 DEF Advanced
  <2> QED
    BY <1>h, <2>2, <2>3 DEF Sound, Reports!Known
<1>4. CASE HasUsers(l)
  <2>1. l.todo = <<"locked">> /\ DOMAIN f = {"users"}
    BY <1>4 DEF HasUsers
  <2>2. Len(l.todo) = 1 /\ Head(l.todo) = "locked"
    BY <2>1
  <2>3. /\ DOMAIN g = {"users", "locked"}
        /\ g["locked"] <= Cardinality(Reports!Live \cap nearLock) /\ g["users"] = f["users"]
    BY <2>1, <2>2, MatchingIs DEF Advanced
  <2>4. /\ Cardinality(Reports!Live \cap nearLock) <= Cardinality(Reports!Live \ a) + Cardinality(a \cap Members)
        /\ Cardinality(Reports!Live \cap nearLock) \in Nat /\ Cardinality(Reports!Live \ a) \in Nat
        /\ Cardinality(a \cap Members) \in Nat
    <3>1. /\ Reports!Live \cap nearLock \subseteq (Reports!Live \ a) \cup (a \cap Members)
          /\ Reports!Live \ a \subseteq Members
      BY SetsFinite
    <3>2. IsFiniteSet(Reports!Live \ a)
      BY <3>1, SetsFinite
    <3> QED
      BY <1>1, <3>1, <3>2, CountSplit
  <2>5. "users" \notin m.report.failed => g["locked"] <= g["users"] + Cardinality(a \cap Members)
    <3> SUFFICES ASSUME "users" \notin m.report.failed PROVE g["locked"] <= g["users"] + Cardinality(a \cap Members)
      OBVIOUS
    <3>1. /\ Cardinality(Reports!Live \ a) <= f["users"] /\ f["users"] \in Nat
          /\ g["locked"] \in Nat
      BY <1>2, <1>h, <1>4, <2>1, <2>3 DEF HasUsers
    <3> HIDE DEF a, f, g
    <3> QED
      BY <2>3, <2>4, <3>1
  <2> QED
    BY <1>1, <1>h, <2>2, <2>3, <2>5 DEF Sound, Reports!Known
<1>5. CASE HasMobiles(l)
  <2>1. l.todo = <<"verified">> /\ DOMAIN f = {"mobiles"}
    BY <1>5 DEF HasMobiles
  <2>2. Len(l.todo) = 1 /\ Head(l.todo) = "verified"
    BY <2>1
  <2>3. /\ DOMAIN g = {"mobiles", "verified"}
        /\ g["verified"] <= Cardinality(mobiles) /\ g["mobiles"] = f["mobiles"]
    BY <2>1, <2>2, MatchingIs DEF Advanced
  <2>4. /\ Cardinality(mobiles) <= Cardinality(mobiles \ a) + Cardinality(a \cap Numbers)
        /\ Cardinality(mobiles) \in Nat /\ Cardinality(mobiles \ a) \in Nat /\ Cardinality(a \cap Numbers) \in Nat
    <3>1. mobiles \subseteq (mobiles \ a) \cup (a \cap Numbers) /\ mobiles \ a \subseteq Numbers
      BY SetsFinite
    <3>2. IsFiniteSet(mobiles \ a)
      BY <3>1, SetsFinite
    <3> QED
      BY <1>1, <3>1, <3>2, CountSplit
  <2>5. "mobiles" \notin m.report.failed => g["verified"] <= g["mobiles"] + Cardinality(a \cap Numbers)
    <3> SUFFICES ASSUME "mobiles" \notin m.report.failed PROVE g["verified"] <= g["mobiles"] + Cardinality(a \cap Numbers)
      OBVIOUS
    <3>1. /\ Cardinality(mobiles \ a) <= f["mobiles"] /\ f["mobiles"] \in Nat
          /\ g["verified"] \in Nat
      BY <1>2, <1>h, <1>5, <2>1, <2>3 DEF HasMobiles
    <3> HIDE DEF a, f, g
    <3> QED
      BY <2>3, <2>4, <3>1
  <2> QED
    BY <1>1, <1>h, <2>2, <2>3, <2>5 DEF Sound, Reports!Known
<1>6. \A kind : /\ Cardinality(Owned(kind)) <= Cardinality(Owned(kind) \ a) + Cardinality(a \cap Of(kind))
                /\ Cardinality(Owned(kind)) \in Nat /\ Cardinality(Owned(kind) \ a) \in Nat
                /\ Cardinality(a \cap Of(kind)) \in Nat
  <2> SUFFICES ASSUME NEW kind
               PROVE  /\ Cardinality(Owned(kind)) <= Cardinality(Owned(kind) \ a) + Cardinality(a \cap Of(kind))
                      /\ Cardinality(Owned(kind)) \in Nat /\ Cardinality(Owned(kind) \ a) \in Nat
                      /\ Cardinality(a \cap Of(kind)) \in Nat
    OBVIOUS
  <2>1. Owned(kind) \subseteq (Owned(kind) \ a) \cup (a \cap Of(kind)) /\ Owned(kind) \ a \subseteq Passkeys
    <3>1. Owned(kind) \in SUBSET Passkeys /\ Owned(kind) \subseteq Of(kind)
      BY SetsFinite DEF Owned
    <3> QED
      BY <3>1
  <2>2. IsFiniteSet(Owned(kind) \ a)
    BY <2>1, SetsFinite
  <2> QED
    BY <1>1, <2>1, <2>2, CountSplit
<1>7. CASE HasPasskeys(l)
  <2>1. l.todo = <<"platform", "cross-platform", "backed-up", "active", "owners">> /\ DOMAIN f = {"passkeys"}
    BY <1>7 DEF HasPasskeys
  <2>2. /\ Len(l.todo) = 5 /\ Head(l.todo) = "platform"
        /\ Tail(l.todo) = <<"cross-platform", "backed-up", "active", "owners">>
    BY <2>1
  <2>3. /\ m.todo = <<"cross-platform", "backed-up", "active", "owners">> /\ DOMAIN g = {"passkeys", "platform"}
        /\ g["platform"] <= Cardinality(Owned("platform")) /\ g["passkeys"] = f["passkeys"]
    BY <2>1, <2>2, MatchingIs DEF Advanced
  <2>4. "passkeys" \notin m.report.failed =>
           /\ g["platform"] + Cardinality(Owned("cross-platform") \ a)
                 <= g["passkeys"] + Cardinality(a \cap Of("platform"))
           /\ Cardinality(Owned("backed-up") \ a) <= g["passkeys"]
    <3> SUFFICES ASSUME "passkeys" \notin m.report.failed
                 PROVE  /\ g["platform"] + Cardinality(Owned("cross-platform") \ a)
                              <= g["passkeys"] + Cardinality(a \cap Of("platform"))
                        /\ Cardinality(Owned("backed-up") \ a) <= g["passkeys"]
      OBVIOUS
    <3>1. /\ Cardinality(Owned("platform") \ a) + Cardinality(Owned("cross-platform") \ a) <= f["passkeys"]
          /\ Cardinality(Owned("backed-up") \ a) <= f["passkeys"]
          /\ f["passkeys"] \in Nat /\ g["platform"] \in Nat
      BY <1>2, <1>7, <1>h, <2>1, <2>3 DEF HasPasskeys
    <3>2. /\ Cardinality(Owned("platform")) <= Cardinality(Owned("platform") \ a) + Cardinality(a \cap Of("platform"))
          /\ Cardinality(Owned("platform")) \in Nat /\ Cardinality(Owned("platform") \ a) \in Nat
          /\ Cardinality(a \cap Of("platform")) \in Nat /\ Cardinality(Owned("cross-platform") \ a) \in Nat
      BY <1>6
    <3> HIDE DEF a, f, g
    <3> QED
      BY <2>3, <3>1, <3>2
  <2>5. HasPlatform(m)
    BY <1>1, <1>7, <2>3, <2>4 DEF HasPlatform, HasPasskeys
  <2> QED
    BY <1>1, <1>h, <2>2, <2>5 DEF Underway
<1>8. CASE HasPlatform(l)
  <2>1. l.todo = <<"cross-platform", "backed-up", "active", "owners">> /\ DOMAIN f = {"passkeys", "platform"}
    BY <1>8 DEF HasPlatform
  <2>2. /\ Len(l.todo) = 4 /\ Head(l.todo) = "cross-platform"
        /\ Tail(l.todo) = <<"backed-up", "active", "owners">>
    BY <2>1
  <2>3. /\ m.todo = <<"backed-up", "active", "owners">> /\ DOMAIN g = {"passkeys", "platform", "cross-platform"}
        /\ g["cross-platform"] <= Cardinality(Owned("cross-platform"))
        /\ g["passkeys"] = f["passkeys"] /\ g["platform"] = f["platform"]
    BY <2>1, <2>2, MatchingIs DEF Advanced
  <2>4. /\ Cardinality(a \cap Of("platform")) + Cardinality(a \cap Of("cross-platform"))
              <= Cardinality(a \cap Passkeys)
        /\ Cardinality(a \cap Passkeys) \in Nat
    <3>1. /\ a \cap Of("platform") \subseteq a \cap Passkeys
          /\ a \cap Of("cross-platform") \subseteq a \cap Passkeys
          /\ (a \cap Of("platform")) \cap (a \cap Of("cross-platform")) = {}
          /\ a \cap Passkeys \subseteq Passkeys
      BY DEF Of
    <3>2. IsFiniteSet(a \cap Passkeys)
      BY <3>1, SetsFinite
    <3> HIDE DEF a
    <3> QED
      BY <3>1, <3>2, CountTwo
  <2>5. "passkeys" \notin m.report.failed =>
           /\ g["platform"] + g["cross-platform"] <= g["passkeys"] + Cardinality(a \cap Passkeys)
           /\ Cardinality(Owned("backed-up") \ a) <= g["passkeys"]
    <3> SUFFICES ASSUME "passkeys" \notin m.report.failed
                 PROVE  /\ g["platform"] + g["cross-platform"] <= g["passkeys"] + Cardinality(a \cap Passkeys)
                        /\ Cardinality(Owned("backed-up") \ a) <= g["passkeys"]
      OBVIOUS
    <3>1. /\ f["platform"] + Cardinality(Owned("cross-platform") \ a)
                <= f["passkeys"] + Cardinality(a \cap Of("platform"))
          /\ Cardinality(Owned("backed-up") \ a) <= f["passkeys"]
          /\ f["passkeys"] \in Nat /\ f["platform"] \in Nat /\ g["cross-platform"] \in Nat
      BY <1>2, <1>8, <1>h, <2>1, <2>3 DEF HasPlatform
    <3>2. /\ Cardinality(Owned("cross-platform"))
                <= Cardinality(Owned("cross-platform") \ a) + Cardinality(a \cap Of("cross-platform"))
          /\ Cardinality(Owned("cross-platform")) \in Nat /\ Cardinality(Owned("cross-platform") \ a) \in Nat
          /\ Cardinality(a \cap Of("platform")) \in Nat /\ Cardinality(a \cap Of("cross-platform")) \in Nat
      BY <1>6
    <3> HIDE DEF a, f, g
    <3> QED
      BY <2>3, <2>4, <3>1, <3>2
  <2>6. HasBoth(m)
    BY <1>1, <1>8, <2>3, <2>5 DEF HasBoth, HasPlatform
  <2> QED
    BY <1>1, <1>h, <2>2, <2>6 DEF Underway
<1>11. CASE HasBoth(l)
  <2>1. l.todo = <<"backed-up", "active", "owners">> /\ DOMAIN f = {"passkeys", "platform", "cross-platform"}
    BY <1>11 DEF HasBoth
  <2>2. Len(l.todo) = 3 /\ Head(l.todo) = "backed-up" /\ Tail(l.todo) = <<"active", "owners">>
    BY <2>1
  <2>3. /\ m.todo = <<"active", "owners">>
        /\ DOMAIN g = {"passkeys", "platform", "cross-platform", "backed-up"}
        /\ g["backed-up"] <= Cardinality(Owned("backed-up"))
        /\ \A q0 \in {"passkeys", "platform", "cross-platform"} : g[q0] = f[q0]
    BY <2>1, <2>2, MatchingIs DEF Advanced
  <2>4. /\ Cardinality(a \cap Of("backed-up")) <= Cardinality(a \cap Passkeys)
        /\ Cardinality(a \cap Passkeys) \in Nat
    <3>1. a \cap Of("backed-up") \subseteq a \cap Passkeys /\ a \cap Passkeys \subseteq Passkeys
      BY SetsFinite
    <3>2. IsFiniteSet(a \cap Passkeys)
      BY <3>1, SetsFinite
    <3> HIDE DEF a
    <3> QED
      BY <3>1, <3>2, CountLess
  <2>5. "passkeys" \notin m.report.failed =>
           /\ g["platform"] + g["cross-platform"] <= g["passkeys"] + Cardinality(a \cap Passkeys)
           /\ g["backed-up"] <= g["passkeys"] + Cardinality(a \cap Passkeys)
    <3> SUFFICES ASSUME "passkeys" \notin m.report.failed
                 PROVE  /\ g["platform"] + g["cross-platform"] <= g["passkeys"] + Cardinality(a \cap Passkeys)
                        /\ g["backed-up"] <= g["passkeys"] + Cardinality(a \cap Passkeys)
      OBVIOUS
    <3>1. /\ f["platform"] + f["cross-platform"] <= f["passkeys"] + Cardinality(a \cap Passkeys)
          /\ Cardinality(Owned("backed-up") \ a) <= f["passkeys"]
          /\ f["passkeys"] \in Nat /\ g["backed-up"] \in Nat
      BY <1>2, <1>11, <1>h, <2>1, <2>3 DEF HasBoth
    <3>2. /\ Cardinality(Owned("backed-up"))
                <= Cardinality(Owned("backed-up") \ a) + Cardinality(a \cap Of("backed-up"))
          /\ Cardinality(Owned("backed-up")) \in Nat /\ Cardinality(Owned("backed-up") \ a) \in Nat
          /\ Cardinality(a \cap Of("backed-up")) \in Nat
      BY <1>6
    <3> HIDE DEF a, f
    <3>3. g["platform"] + g["cross-platform"] <= g["passkeys"] + Cardinality(a \cap Passkeys)
      BY <2>3, <3>1
    <3>4. g["passkeys"] = f["passkeys"]
      BY <2>3
    <3> HIDE DEF g
    <3> QED
      BY <2>3, <2>4, <3>1, <3>2, <3>3, <3>4
  <2>6. Sound(m.report)
    BY <1>1, <1>h, <2>3, <2>5 DEF Sound, Reports!Known
  <2>7. HasBacked(m)
    BY <1>1, <1>11, <2>3, <2>6 DEF HasBacked, HasBoth
  <2> QED
    BY <1>1, <1>h, <2>2, <2>7 DEF Underway
<1>9. CASE HasBacked(l)
  <2> DEFINE D == {"passkeys", "platform", "cross-platform", "backed-up"}
  <2>1. \/ l.todo = <<"active", "owners">> /\ DOMAIN f = D
        \/ l.todo = <<"owners">> /\ DOMAIN f = D \cup {"active"}
    BY <1>9 DEF HasBacked
  <2>2. /\ l.todo = <<"active", "owners">> => Len(l.todo) = 2 /\ Head(l.todo) = "active" /\ Tail(l.todo) = <<"owners">>
        /\ l.todo = <<"owners">> => Len(l.todo) = 1 /\ Head(l.todo) = "owners"
    <3>1. Len(<<"active", "owners">>) = 2 /\ Head(<<"active", "owners">>) = "active"
          /\ Tail(<<"active", "owners">>) = <<"owners">>
      OBVIOUS
    <3>2. Len(<<"owners">>) = 1 /\ Head(<<"owners">>) = "owners"
      OBVIOUS
    <3> QED
      BY <3>1, <3>2, Zenon
  <2>3. /\ \/ Head(l.todo) = "active" /\ DOMAIN g = D \cup {"active"}
           \/ Head(l.todo) = "owners" /\ DOMAIN g = D \cup {"active", "owners"}
        /\ \A q0 \in D : g[q0] = f[q0]
    BY <2>1, <2>2 DEF Advanced
  <2>4. Sound(m.report)
    <3>1. "passkeys" \notin l.report.failed =>
             /\ f["platform"] + f["cross-platform"] <= f["passkeys"] + Cardinality(a \cap Passkeys)
             /\ f["backed-up"] <= f["passkeys"] + Cardinality(a \cap Passkeys)
      BY <1>9, <2>1 DEF HasBacked, Sound, Reports!Known
    <3> QED
      BY <1>1, <1>h, <2>3, <3>1 DEF Sound, Reports!Known
  <2>5. CASE l.todo = <<"owners">>
    BY <2>2, <2>4, <2>5
  <2>6. CASE l.todo = <<"active", "owners">>
    <3>1. m.todo = <<"owners">> /\ Len(l.todo) = 2 /\ Head(l.todo) = "active"
      BY <2>2, <2>6 DEF Advanced
    <3>2. HasBacked(m)
      BY <1>1, <1>9, <2>3, <2>4, <3>1 DEF HasBacked
    <3> QED
      BY <1>1, <1>h, <3>1, <3>2 DEF Underway
  <2> QED
    BY <2>1, <2>5, <2>6
<1> QED
  BY <1>3, <1>4, <1>5, <1>7, <1>8, <1>9, <1>10, <1>11 DEF Underway

\* What is there beyond x is there beyond what was added since: a report under way stays at
\* its point whatever changes, if what is new is noted in it.
LEMMA UnderwayMoves ==
    ASSUME ReportsTyped, NEW o \in Admins, NEW m \in AdminCall, Underway(m), NEW X,
           /\ admin'[o].key = m.key /\ admin'[o].todo = m.todo /\ admin'[o].report.got = m.report.got
           /\ admin'[o].report.failed = m.report.failed
           /\ admin'[o].report.added = m.report.added \cup X,
           X \subseteq Members \cup Passkeys \cup Numbers,
           Reports!Live' \subseteq Reports!Live \cup X,
           mobiles' \subseteq mobiles \cup X,
           \A kind : Owned(kind)' \subseteq Owned(kind) \cup X,
           \A u \in Reports!Created : u \in Reports!Created' /\ account'[u].created = account[u].created
    PROVE  Underway(admin[o])'
<1> DEFINE a == m.report.added   b == a \cup X   f == m.report.got
<1>1. /\ a \subseteq Members \cup Passkeys \cup Numbers /\ m.key \in Asked /\ m.report \in Report
      /\ \A q0 \in DOMAIN f : f[q0] \in Nat
  BY GotIs DEF AdminCall, Report, Underway
<1>h. Honest(admin'[o].report)
  BY DEF Underway, Honest
<1>2. CASE Begun(m)
  <2>1. Begun(admin[o])'
    BY <1>2 DEF Begun, Reports!Reads, Reports!ChurnReads
  <2> QED
    BY <1>1, <1>h, <2>1 DEF Underway, Honest
<1>3. CASE HasChurned(m)
  <2> DEFINE E == {u \in Reports!Created : account[u].created < m.key.to}
             F == {u \in Reports!Created' : account'[u].created < m.key.to}
  <2>1. E \subseteq F /\ F \subseteq Members
    BY DEF Reports!Created
  <2>2. Cardinality(E) <= Cardinality(F) /\ Cardinality(E) \in Nat /\ Cardinality(F) \in Nat
    BY <2>1, SetsFinite, CountLess
  <2>3. Ever(m.key) = E
    BY MatchingIs
  <2>4. Ever(admin[o].key)' = F
    BY DEF Ever, Reports!Matching
  <2> HIDE DEF E, F
  <2>5. f["churned"] <= Cardinality(F) /\ f["churned"] \in Nat
    BY <1>1, <1>3, <2>2, <2>3 DEF HasChurned
  <2>6. HasChurned(admin[o])'
    BY <1>3, <2>4, <2>5 DEF HasChurned
  <2> QED
    BY <1>1, <1>h, <2>6 DEF Underway, Honest
<1>12. CASE HasNear(m)
  <2>1. HasNear(admin[o])'
    BY <1>12 DEF HasNear
  <2> QED
    BY <1>1, <1>h, <2>1 DEF Underway, Honest
<1>4. CASE HasUsers(m)
  <2>1. Reports!Live' \ b \subseteq Reports!Live \ a /\ Reports!Live \ a \subseteq Members
    BY SetsFinite
  <2>2. /\ Cardinality(Reports!Live' \ b) <= Cardinality(Reports!Live \ a)
        /\ Cardinality(Reports!Live' \ b) \in Nat /\ Cardinality(Reports!Live \ a) \in Nat
    BY <2>1, SetsFinite, CountLess
  <2>3. "users" \notin m.report.failed => Cardinality(Reports!Live' \ b) <= f["users"]
    <3>1. "users" \notin m.report.failed => Cardinality(Reports!Live \ a) <= f["users"] /\ f["users"] \in Nat
      BY <1>1, <1>4 DEF HasUsers
    <3> HIDE DEF a, b, f
    <3> QED
      BY <2>2, <3>1
  <2>4. HasUsers(admin[o])'
    BY <1>4, <2>3 DEF HasUsers
  <2> QED
    BY <1>1, <1>h, <2>4 DEF Underway, Honest
<1>5. CASE HasMobiles(m)
  <2>1. mobiles' \ b \subseteq mobiles \ a /\ mobiles \ a \subseteq Numbers
    BY SetsFinite
  <2>2. /\ Cardinality(mobiles' \ b) <= Cardinality(mobiles \ a)
        /\ Cardinality(mobiles' \ b) \in Nat /\ Cardinality(mobiles \ a) \in Nat
    BY <2>1, SetsFinite, CountLess
  <2>3. "mobiles" \notin m.report.failed => Cardinality(mobiles' \ b) <= f["mobiles"]
    <3>1. "mobiles" \notin m.report.failed => Cardinality(mobiles \ a) <= f["mobiles"] /\ f["mobiles"] \in Nat
      BY <1>1, <1>5 DEF HasMobiles
    <3> HIDE DEF a, b, f
    <3> QED
      BY <2>2, <3>1
  <2>4. HasMobiles(admin[o])'
    BY <1>5, <2>3 DEF HasMobiles
  <2> QED
    BY <1>1, <1>h, <2>4 DEF Underway, Honest
<1>6. ASSUME NEW kind
      PROVE  /\ Cardinality(Owned(kind)' \ b) <= Cardinality(Owned(kind) \ a)
             /\ Cardinality(Owned(kind)' \ b) \in Nat /\ Cardinality(Owned(kind) \ a) \in Nat
  <2>1. Owned(kind)' \ b \subseteq Owned(kind) \ a /\ Owned(kind) \ a \subseteq Passkeys
    <3>1. Owned(kind) \subseteq Passkeys
      BY SetsFinite
    <3>2. Owned(kind)' \subseteq Owned(kind) \cup X
      OBVIOUS
    <3> QED
      BY <3>1, <3>2
  <2> QED
    BY <2>1, SetsFinite, CountLess
<1>7. /\ Cardinality(Owned("platform")' \ b) <= Cardinality(Owned("platform") \ a)
      /\ Cardinality(Owned("platform")' \ b) \in Nat /\ Cardinality(Owned("platform") \ a) \in Nat
      /\ Cardinality(Owned("cross-platform")' \ b) <= Cardinality(Owned("cross-platform") \ a)
      /\ Cardinality(Owned("cross-platform")' \ b) \in Nat /\ Cardinality(Owned("cross-platform") \ a) \in Nat
      /\ Cardinality(Owned("backed-up")' \ b) <= Cardinality(Owned("backed-up") \ a)
      /\ Cardinality(Owned("backed-up")' \ b) \in Nat /\ Cardinality(Owned("backed-up") \ a) \in Nat
  BY <1>6
<1>8. ASSUME NEW S, S \subseteq Passkeys
      PROVE  /\ Cardinality(a \cap S) <= Cardinality(b \cap S)
             /\ Cardinality(a \cap S) \in Nat /\ Cardinality(b \cap S) \in Nat
  <2>1. a \cap S \subseteq b \cap S /\ b \cap S \subseteq Passkeys
    BY <1>8
  <2> HIDE DEF a, b
  <2> QED
    BY <2>1, SetsFinite, CountLess
<1>9. CASE HasPasskeys(m)
  <2>1. "passkeys" \notin m.report.failed =>
           /\ Cardinality(Owned("platform")' \ b) + Cardinality(Owned("cross-platform")' \ b) <= f["passkeys"]
           /\ Cardinality(Owned("backed-up")' \ b) <= f["passkeys"]
    <3>1. "passkeys" \notin m.report.failed =>
             /\ Cardinality(Owned("platform") \ a) + Cardinality(Owned("cross-platform") \ a) <= f["passkeys"]
             /\ Cardinality(Owned("backed-up") \ a) <= f["passkeys"]
             /\ f["passkeys"] \in Nat
      BY <1>1, <1>9 DEF HasPasskeys
    <3> HIDE DEF a, b, f
    <3> QED
      BY <1>7, <3>1
  <2>2. HasPasskeys(admin[o])'
    BY <1>9, <2>1 DEF HasPasskeys
  <2> QED
    BY <1>1, <1>h, <2>2 DEF Underway, Honest
<1>10. CASE HasPlatform(m)
  <2>1. "passkeys" \notin m.report.failed =>
           /\ f["platform"] + Cardinality(Owned("cross-platform")' \ b)
                 <= f["passkeys"] + Cardinality(b \cap Of("platform"))
           /\ Cardinality(Owned("backed-up")' \ b) <= f["passkeys"]
    <3>1. "passkeys" \notin m.report.failed =>
             /\ f["platform"] + Cardinality(Owned("cross-platform") \ a)
                   <= f["passkeys"] + Cardinality(a \cap Of("platform"))
             /\ Cardinality(Owned("backed-up") \ a) <= f["passkeys"]
             /\ f["passkeys"] \in Nat /\ f["platform"] \in Nat
      BY <1>1, <1>10 DEF HasPlatform
    <3>2. /\ Cardinality(a \cap Of("platform")) <= Cardinality(b \cap Of("platform"))
          /\ Cardinality(a \cap Of("platform")) \in Nat /\ Cardinality(b \cap Of("platform")) \in Nat
      BY <1>8, SetsFinite
    <3> HIDE DEF a, b, f
    <3> QED
      BY <1>7, <3>1, <3>2
  <2>2. HasPlatform(admin[o])'
    BY <1>10, <2>1 DEF HasPlatform, Of
  <2> QED
    BY <1>1, <1>h, <2>2 DEF Underway, Honest
<1>13. /\ Cardinality(a \cap Passkeys) <= Cardinality(b \cap Passkeys)
       /\ Cardinality(a \cap Passkeys) \in Nat /\ Cardinality(b \cap Passkeys) \in Nat
  BY <1>8
<1>14. CASE HasBoth(m)
  <2>1. "passkeys" \notin m.report.failed =>
           /\ f["platform"] + f["cross-platform"] <= f["passkeys"] + Cardinality(b \cap Passkeys)
           /\ Cardinality(Owned("backed-up")' \ b) <= f["passkeys"]
    <3>1. "passkeys" \notin m.report.failed =>
             /\ f["platform"] + f["cross-platform"] <= f["passkeys"] + Cardinality(a \cap Passkeys)
             /\ Cardinality(Owned("backed-up") \ a) <= f["passkeys"]
             /\ f["passkeys"] \in Nat /\ f["platform"] \in Nat /\ f["cross-platform"] \in Nat
      BY <1>1, <1>14 DEF HasBoth
    <3> HIDE DEF a, b, f
    <3> QED
      BY <1>7, <1>13, <3>1
  <2>2. HasBoth(admin[o])'
    BY <1>14, <2>1 DEF HasBoth
  <2> QED
    BY <1>1, <1>h, <2>2 DEF Underway, Honest
<1>11. CASE HasBacked(m)
  <2> DEFINE D == {"passkeys", "platform", "cross-platform", "backed-up"}
  <2>1. DOMAIN f \in {D, D \cup {"active"}}
    BY <1>11 DEF HasBacked
  <2>2. "passkeys" \notin m.report.failed =>
           /\ f["platform"] + f["cross-platform"] <= f["passkeys"] + Cardinality(b \cap Passkeys)
           /\ f["backed-up"] <= f["passkeys"] + Cardinality(b \cap Passkeys)
    <3>1. "passkeys" \notin m.report.failed =>
             /\ f["platform"] + f["cross-platform"] <= f["passkeys"] + Cardinality(a \cap Passkeys)
             /\ f["backed-up"] <= f["passkeys"] + Cardinality(a \cap Passkeys)
             /\ f["passkeys"] \in Nat /\ f["platform"] \in Nat /\ f["cross-platform"] \in Nat
             /\ f["backed-up"] \in Nat
      BY <1>1, <1>11, <2>1 DEF HasBacked, Sound, Reports!Known
    <3> HIDE DEF a, b, f
    <3> QED
      BY <1>13, <3>1
  <2>3. Sound(admin'[o].report)
    BY <1>h, <2>1, <2>2 DEF Sound, Reports!Known
  <2>4. HasBacked(admin[o])'
    BY <1>11, <2>3 DEF HasBacked, Sound, Honest, Reports!Known
  <2> QED
    BY <1>1, <1>h, <2>4 DEF Underway, Honest
<1> QED
  BY <1>2, <1>3, <1>4, <1>5, <1>9, <1>10, <1>11, <1>12, <1>14 DEF Underway

\* A change of what is counted, which adds X to the reports that are being read.
LEMMA WorldKeeps ==
    ASSUME ReportsInv, NEW X, X \subseteq Members \cup Passkeys \cup Numbers, UNCHANGED cache,
           \/ admin' = admin /\ X = {}
           \/ admin' = [o \in Admins |-> IF admin[o].pc = "reading"
                                         THEN [admin[o] EXCEPT !.report.added = @ \cup X] ELSE admin[o]],
           changes' \in 0..MaxChanges, mishaps' \in 0..MaxFaults,
           account' \in [Members -> AccountRow], day' \in Nat, day' >= 1,
           \A u \in Members : account'[u].created <= day'
                              /\ (account'[u].deleted = 0 \/ account'[u].created <= account'[u].deleted),
           owner' \in [Passkeys -> Members \cup {None}], mobiles' \subseteq Numbers,
           Reports!Live' \subseteq Reports!Live \cup X,
           mobiles' \subseteq mobiles \cup X,
           \A kind : Owned(kind)' \subseteq Owned(kind) \cup X,
           \A u \in Reports!Created : u \in Reports!Created' /\ account'[u].created = account[u].created
    PROVE  ReportsInv'
<1>1. ASSUME NEW o \in Admins
      PROVE  /\ admin'[o] \in AdminCall /\ admin'[o].pc = admin[o].pc /\ admin'[o].key = admin[o].key
             /\ admin'[o].todo = admin[o].todo
             /\ admin[o].pc # "reading" => admin'[o] = admin[o]
             /\ admin[o].pc = "reading" =>
                   /\ admin'[o].report.got = admin[o].report.got
                   /\ admin'[o].report.failed = admin[o].report.failed
                   /\ admin'[o].report.added = admin[o].report.added \cup X
  <2>1. admin[o] \in AdminCall /\ admin[o].report \in Report
    BY DEF ReportsInv, ReportsTyped, AdminCall
  <2>2. CASE admin' = admin /\ X = {}
    BY <2>1, <2>2
  <2>3. CASE admin'[o] = IF admin[o].pc = "reading"
                         THEN [admin[o] EXCEPT !.report.added = @ \cup X] ELSE admin[o]
    <3> DEFINE r == [admin[o].report EXCEPT !.added = @ \cup X]
    <3>1. /\ r \in Report /\ r.got = admin[o].report.got /\ r.failed = admin[o].report.failed
          /\ r.added = admin[o].report.added \cup X
      BY <2>1 DEF Report
    <3>2. CASE admin[o].pc = "reading"
      <4>1. admin'[o] = [admin[o] EXCEPT !.report = r]
        BY <2>1, <2>3, <3>2
      <4> HIDE DEF r
      <4>2. /\ admin'[o].report = r /\ admin'[o].pc = admin[o].pc /\ admin'[o].key = admin[o].key
            /\ admin'[o].todo = admin[o].todo /\ admin'[o] \in AdminCall
        BY <2>1, <3>1, <4>1 DEF AdminCall
      <4> QED
        BY <3>1, <3>2, <4>2
    <3>3. CASE admin[o].pc # "reading"
      BY <2>1, <2>3, <3>3
    <3> QED
      BY <3>2, <3>3
  <2> QED
    BY <2>2, <2>3
<1>2. admin' \in [Admins -> AdminCall]
  <2>1. DOMAIN admin = Admins
    BY DEF ReportsInv, ReportsTyped
  <2>2. admin' = [o \in Admins |-> admin'[o]]
    BY <2>1 DEF ReportsInv, ReportsTyped
  <2> QED
    BY <1>1, <2>2
<1>3. Reports!TypeOK'
  <2>1. \A u \in Members : account'[u].status \in {None, "active", "blocked"}
    BY DEF AccountRow
  <2>2. \A o \in Admins : admin'[o].pc \in {"idle", "reading", "storing", "answered", "failed"}
    BY <1>1 DEF AdminCall
  <2> QED
    BY <2>1, <2>2 DEF Reports!TypeOK
<1>4. ReportsTyped'
  BY <1>2, <1>3 DEF ReportsInv, ReportsTyped
<1>5. ASSUME NEW o \in Admins, admin'[o].pc = "reading" PROVE Underway(admin[o])'
  <2>1. Underway(admin[o]) /\ admin[o] \in AdminCall /\ admin[o].pc = "reading" /\ ReportsTyped
    BY <1>1, <1>5 DEF ReportsInv, ReportsTyped
  <2>2. /\ admin'[o].key = admin[o].key /\ admin'[o].todo = admin[o].todo
        /\ admin'[o].report.got = admin[o].report.got
        /\ admin'[o].report.failed = admin[o].report.failed
        /\ admin'[o].report.added = admin[o].report.added \cup X
    BY <1>1, <2>1
  <2> QED
    BY <2>1, <2>2, UnderwayMoves
<1>6. ASSUME NEW o \in Admins, admin'[o].pc \in {"storing", "answered"}
      PROVE  Sound(admin'[o].report) /\ (admin'[o].pc = "storing" => admin'[o].key \in Asked)
  BY <1>1, <1>6 DEF ReportsInv
<1>7. \A k \in Asked : cache'[k] # None => Sound(cache'[k])
  BY DEF ReportsInv
<1> QED
  BY <1>4, <1>5, <1>6, <1>7 DEF ReportsInv, Sound

\* A step of one request, which changes nothing that is counted.
LEMMA RequestKeeps ==
    ASSUME ReportsInv, NEW o \in Admins, NEW m \in AdminCall, admin' = [admin EXCEPT ![o] = m],
           UNCHANGED <<account, nearLock, owner, mobiles, day, changes>>, mishaps' \in 0..MaxFaults,
           cache' \in [Asked -> {None} \cup Report],
           \A k \in Asked : cache'[k] # None => Sound(cache'[k]),
           m.pc = "reading" => Underway(m),
           m.pc \in {"storing", "answered"} => Sound(m.report),
           m.pc = "storing" => m.key \in Asked
    PROVE  ReportsInv'
<1>1. /\ admin' \in [Admins -> AdminCall] /\ admin'[o] = m
      /\ \A p \in Admins \ {o} : admin'[p] = admin[p]
  BY DEF ReportsInv, ReportsTyped
<1>2. Reports!TypeOK'
  <2>1. \A p \in Admins : admin'[p].pc \in {"idle", "reading", "storing", "answered", "failed"}
    BY <1>1 DEF AdminCall
  <2> QED
    BY <2>1 DEF ReportsInv, ReportsTyped, Reports!TypeOK
<1>3. ReportsTyped'
  BY <1>1, <1>2 DEF ReportsInv, ReportsTyped
<1>4. /\ Reports!Live' \subseteq Reports!Live \cup {} /\ mobiles' \subseteq mobiles \cup {}
      /\ \A kind : Owned(kind)' \subseteq Owned(kind) \cup {}
      /\ \A u \in Reports!Created : u \in Reports!Created' /\ account'[u].created = account[u].created
  BY DEF Reports!Live, Reports!Created, Owned
<1>5. ASSUME NEW p \in Admins, admin'[p].pc = "reading" PROVE Underway(admin[p])'
  <2>1. PICK n \in AdminCall : n = admin'[p] /\ Underway(n)
    <3>1. CASE p = o
      BY <1>1, <1>5, <3>1
    <3>2. CASE p # o
      BY <1>1, <1>5, <3>2 DEF ReportsInv
    <3> QED
      BY <3>1, <3>2
  <2>2. /\ admin'[p].key = n.key /\ admin'[p].todo = n.todo
        /\ admin'[p].report.got = n.report.got /\ admin'[p].report.failed = n.report.failed
        /\ admin'[p].report.added = n.report.added \cup {}
    BY <2>1
  <2>3. ReportsTyped /\ {} \subseteq Members \cup Passkeys \cup Numbers
    BY DEF ReportsInv
  <2> QED
    BY <1>4, <2>1, <2>2, <2>3, UnderwayMoves
<1>6. ASSUME NEW p \in Admins, admin'[p].pc \in {"storing", "answered"}
      PROVE  Sound(admin'[p].report) /\ (admin'[p].pc = "storing" => admin'[p].key \in Asked)
  <2>1. CASE p = o
    BY <1>1, <1>6, <2>1
  <2>2. CASE p # o
    BY <1>1, <1>6, <2>2 DEF ReportsInv
  <2> QED
    BY <2>1, <2>2
<1> QED
  BY <1>3, <1>5, <1>6 DEF ReportsInv, Sound

\* A report under way has a query to make.
LEMMA TodoIs ==
    ASSUME NEW l \in AdminCall, Underway(l)
    PROVE  /\ l.todo # <<>> /\ Head(l.todo) \in Names /\ Tail(l.todo) \in Seq(Names)
           /\ l.key \in Asked /\ l.report \in Report
<1>1. l.todo # <<>>
  <2>1. CASE Begun(l)
    <3>1. l.key.report \in {"registrations", "churn", "lockout", "adoption", "mobile", "fraud", "signups", "logins"}
      BY ReportAssumption DEF Underway
    <3> QED
      BY <2>1, <3>1, ReadsIs DEF Begun
  <2>2. CASE ~Begun(l)
    <3>1. \/ l.todo = <<"ever">> \/ l.todo = <<"locked">> \/ l.todo = <<"verified">>
          \/ l.todo = <<"platform", "cross-platform", "backed-up", "active", "owners">>
          \/ l.todo = <<"cross-platform", "backed-up", "active", "owners">>
          \/ l.todo = <<"backed-up", "active", "owners">> \/ l.todo = <<"stuffing">>
          \/ l.todo = <<"active", "owners">> \/ l.todo = <<"owners">>
      BY <2>2, Zenon DEF Underway, HasChurned, HasNear, HasUsers, HasMobiles, HasPasskeys, HasPlatform,
                        HasBoth, HasBacked
    <3>2. /\ <<"ever">> # <<>> /\ <<"locked">> # <<>> /\ <<"verified">> # <<>>
          /\ <<"platform", "cross-platform", "backed-up", "active", "owners">> # <<>>
          /\ <<"cross-platform", "backed-up", "active", "owners">> # <<>>
          /\ <<"backed-up", "active", "owners">> # <<>> /\ <<"stuffing">> # <<>>
          /\ <<"active", "owners">> # <<>> /\ <<"owners">> # <<>>
      OBVIOUS
    <3> QED
      BY <3>1, <3>2, Zenon
  <2> QED
    BY <2>1, <2>2
<1>2. l.todo \in Seq(Names) /\ l.report \in Report
  BY DEF AdminCall
<1> QED
  BY <1>1, <1>2 DEF Underway

\* A report takes the answer of its next query, or a zero for the one that failed.
LEMMA TookKeeps ==
    ASSUME ReportsInv, NEW o \in Admins, admin[o].pc = "reading", NEW r \in Report, Reports!Took(o, r),
           DOMAIN r.got = DOMAIN admin[o].report.got \cup {Head(admin[o].todo)},
           \A q0 \in DOMAIN admin[o].report.got \ {Head(admin[o].todo)} : r.got[q0] = admin[o].report.got[q0],
           r.added = admin[o].report.added,
           admin[o].report.failed \subseteq r.failed, Honest(r),
           r.got[Head(admin[o].todo)] <= Cardinality(Reports!Matching(Head(admin[o].todo), admin[o].key)),
           Head(admin[o].todo) \notin r.failed =>
              r.got[Head(admin[o].todo)] = Cardinality(Reports!Matching(Head(admin[o].todo), admin[o].key)),
           UNCHANGED <<account, nearLock, owner, mobiles, day, cache, changes>>, mishaps' \in 0..MaxFaults
    PROVE  ReportsInv'
<1> DEFINE l == admin[o]
           pc0 == IF Len(l.todo) = 1 THEN "storing" ELSE "reading"
           m == [l EXCEPT !.todo = Tail(@), !.report = r, !.pc = pc0]
<1>1. l \in AdminCall /\ Underway(l) /\ ReportsTyped
  BY DEF ReportsInv, ReportsTyped
<1>2. /\ l.todo # <<>> /\ Tail(l.todo) \in Seq(Names) /\ l.key \in Asked
  BY <1>1, TodoIs
<1>3. admin' = [admin EXCEPT ![o] = m]
  BY <1>1 DEF Reports!Took, ReportsTyped
<1>4. /\ m \in AdminCall /\ m.todo = Tail(l.todo) /\ m.report = r /\ m.key = l.key /\ m.pc = pc0
  <2>1. pc0 \in {"storing", "reading"}
    OBVIOUS
  <2> HIDE DEF pc0, l
  <2> QED
    BY <1>1, <1>2, <2>1 DEF AdminCall
<1> HIDE DEF m
<1>5. Advanced(l, m)
  BY <1>4 DEF Advanced
<1>6. IF Len(l.todo) = 1 THEN Sound(m.report) ELSE Underway(m)
  <2>1. CASE Begun(l)
    BY <1>1, <1>2, <1>5, <2>1, FirstCount
  <2>2. CASE ~Begun(l)
    BY <1>1, <1>5, <2>2, LaterCount
  <2> QED
    BY <2>1, <2>2
<1>7. \A k \in Asked : cache'[k] # None => Sound(cache'[k])
  BY DEF ReportsInv
<1>8. cache' \in [Asked -> {None} \cup Report]
  BY <1>1 DEF ReportsTyped
<1> QED
  BY <1>2, <1>3, <1>4, <1>6, <1>7, <1>8, RequestKeeps

\* A query is answered.
LEMMA CountKeeps ==
    ASSUME ReportsInv, NEW o \in Admins, Reports!Count(o)
    PROVE  ReportsInv'
<1> DEFINE l == admin[o]   query == Head(l.todo)
           n == Cardinality(Reports!Matching(query, l.key))
           r == Reports!With(l.report, query, n)
<1>1. /\ l.pc = "reading" /\ Reports!Took(o, r)
      /\ UNCHANGED <<account, nearLock, owner, mobiles, day, cache, changes, mishaps>>
  BY SameCount DEF Reports!Count, Reports!world
<1>2. l \in AdminCall /\ Underway(l) /\ ReportsTyped
  BY <1>1 DEF ReportsInv, ReportsTyped
<1>3. query \in Names /\ l.key \in Asked /\ l.report \in Report
  BY <1>2, TodoIs
<1>4. n \in Nat
  BY <1>2, <1>3, SetsFinite
<1>5. /\ r \in Report /\ DOMAIN r.got = DOMAIN l.report.got \cup {query} /\ r.got[query] = n
      /\ \A q0 \in DOMAIN l.report.got \ {query} : r.got[q0] = l.report.got[q0]
      /\ r.added = l.report.added /\ r.failed = l.report.failed
  <2> HIDE DEF n, query, l
  <2> QED
    BY <1>3, <1>4, WithIs
<1>6. mishaps' \in 0..MaxFaults
  BY <1>1, <1>2 DEF ReportsTyped, Reports!TypeOK
<1>7. n <= n /\ Honest(r)
  <2>1. Honest(l.report)
    BY <1>2 DEF Underway
  <2> HIDE DEF n, r, l
  <2>2. Honest(r)
    BY <1>5, <2>1 DEF Honest
  <2> QED
    BY <1>4, <2>2
<1> HIDE DEF r
<1> QED
  BY <1>1, <1>5, <1>6, <1>7, TookKeeps

\* A query fails: the report with it, or a zero in its place.
LEMMA CountFailsKeeps ==
    ASSUME ReportsInv, NEW o \in Admins, Reports!CountFails(o)
    PROVE  ReportsInv'
<1> DEFINE l == admin[o]   query == Head(l.todo)
           w == Reports!With(l.report, query, 0)
           r == [w EXCEPT !.failed = @ \cup {query}]
<1>1. /\ l.pc = "reading" /\ mishaps < MaxFaults /\ mishaps' = mishaps + 1
      /\ UNCHANGED <<account, nearLock, owner, mobiles, day, cache, changes>>
      /\ \/ admin' = [admin EXCEPT ![o].pc = "failed"]
         \/ ~Reports!FailsAsAWhole(query) /\ Reports!Took(o, r)
  BY DEF Reports!CountFails, Reports!world
<1>2. l \in AdminCall /\ Underway(l) /\ ReportsTyped
  BY <1>1 DEF ReportsInv, ReportsTyped
<1>3. query \in Names /\ l.key \in Asked /\ l.report \in Report
  BY <1>2, TodoIs
<1>4. mishaps' \in 0..MaxFaults
  <2>1. mishaps \in 0..MaxFaults /\ MaxFaults \in Nat
    BY <1>2, AuthAssumption DEF ReportsTyped, Reports!TypeOK
  <2> QED
    BY <1>1, <2>1
<1>5. CASE admin' = [admin EXCEPT ![o].pc = "failed"]
  <2> DEFINE m == [l EXCEPT !.pc = "failed"]
  <2>1. m \in AdminCall /\ m.pc = "failed"
    BY <1>2 DEF AdminCall
  <2>2. admin' = [admin EXCEPT ![o] = m]
    BY <1>2, <1>5 DEF ReportsTyped
  <2> HIDE DEF m
  <2>3. cache' \in [Asked -> {None} \cup Report] /\ \A k \in Asked : cache'[k] # None => Sound(cache'[k])
    BY <1>1 DEF ReportsInv, ReportsTyped
  <2> QED
    BY <1>1, <1>4, <2>1, <2>2, <2>3, RequestKeeps
<1>6. CASE ~Reports!FailsAsAWhole(query) /\ Reports!Took(o, r)
  <2>1. /\ w \in Report /\ DOMAIN w.got = DOMAIN l.report.got \cup {query} /\ w.got[query] = 0
        /\ \A q0 \in DOMAIN l.report.got \ {query} : w.got[q0] = l.report.got[q0]
        /\ w.added = l.report.added /\ w.failed = l.report.failed
    <3> HIDE DEF query, l
    <3> QED
      BY <1>3, WithIs
  <2> HIDE DEF w
  <2>2. r \in Report /\ r.got = w.got /\ r.added = w.added /\ r.failed = w.failed \cup {query}
    BY <1>3, <2>1 DEF Report
  <2> HIDE DEF r
  <2>3. Honest(r)
    BY <1>2, <1>6, <2>1, <2>2 DEF Underway, Honest
  <2>4. 0 <= Cardinality(Reports!Matching(query, l.key))
    <3>1. Cardinality(Reports!Matching(query, l.key)) \in Nat
      BY <1>2, <1>3, SetsFinite
    <3> QED
      BY <3>1
  <2> QED
    BY <1>1, <1>4, <1>6, <2>1, <2>2, <2>3, <2>4, TookKeeps
<1> QED
  BY <1>1, <1>5, <1>6

\* A request begins: with the report kept for it, or reading.
LEMMA AskKeeps ==
    ASSUME ReportsInv, NEW o \in Admins, NEW key \in Asked, Reports!Ask(o, key)
    PROVE  ReportsInv'
<1> DEFINE m1 == [Reports!Idle EXCEPT !.pc = "answered", !.key = key, !.report = cache[key]]
           m2 == [Reports!Idle EXCEPT !.pc = "reading", !.key = key, !.todo = Reports!Reads(key.report)]
<1>1. /\ UNCHANGED <<account, nearLock, owner, mobiles, day, cache, changes>>
      /\ \/ cache[key] # None /\ admin' = [admin EXCEPT ![o] = m1]
         \/ admin' = [admin EXCEPT ![o] = m2]
      /\ mishaps' = mishaps \/ (mishaps < MaxFaults /\ mishaps' = mishaps + 1)
  BY DEF Reports!Ask, Reports!world
<1>2. mishaps' \in 0..MaxFaults
  <2>1. mishaps \in 0..MaxFaults /\ MaxFaults \in Nat
    BY AuthAssumption DEF ReportsInv, ReportsTyped, Reports!TypeOK
  <2> QED
    BY <1>1, <2>1
<1>3. cache' \in [Asked -> {None} \cup Report] /\ \A k \in Asked : cache'[k] # None => Sound(cache'[k])
  BY <1>1 DEF ReportsInv, ReportsTyped
<1>4. CASE cache[key] # None /\ admin' = [admin EXCEPT ![o] = m1]
  <2>1. cache[key] \in Report /\ Sound(cache[key])
    BY <1>4 DEF ReportsInv, ReportsTyped
  <2>2. <<>> \in Seq(Names)
    OBVIOUS
  <2>3. m1 \in AdminCall /\ m1.pc = "answered" /\ m1.report = cache[key]
    BY <2>1, <2>2 DEF Reports!Idle, AdminCall
  <2> HIDE DEF m1
  <2> QED
    BY <1>1, <1>2, <1>3, <1>4, <2>1, <2>3, RequestKeeps
<1>5. CASE admin' = [admin EXCEPT ![o] = m2]
  <2>1. Reports!Reads(key.report) \in Seq(Names)
    <3>1. key.report \in {"registrations", "churn", "lockout", "adoption", "mobile", "fraud", "signups", "logins"}
      BY ReportAssumption
    <3>2. /\ <<"churned", "ever">> \in Seq(Names) /\ <<"registered">> \in Seq(Names)
          /\ <<"users", "locked">> \in Seq(Names) /\ <<"mobiles", "verified">> \in Seq(Names)
      BY DEF Names
    <3>3. <<"near", "stuffing">> \in Seq(Names) /\ <<"methods">> \in Seq(Names) /\ <<"logged">> \in Seq(Names)
      BY DEF Names
    <3>4. <<"passkeys", "platform", "cross-platform", "backed-up", "active", "owners">> \in Seq(Names)
      BY DEF Names
    <3> QED
      BY <3>1, <3>2, <3>3, <3>4, ReadsIs
  <2>2. Reports!NoReport \in Report /\ DOMAIN Reports!NoReport.got = {} /\ Honest(Reports!NoReport)
    <3>1. [q0 \in {} |-> 0] \in [{} -> Nat] /\ {} \in SUBSET Names
      OBVIOUS
    <3>2. [q0 \in {} |-> 0] \in UNION {[qs -> Nat] : qs \in SUBSET Names}
      BY <3>1
    <3> QED
      BY <3>2 DEF Reports!NoReport, Report, Honest
  <2>3. /\ m2 \in AdminCall /\ m2.pc = "reading" /\ m2.key = key /\ m2.todo = Reports!Reads(key.report)
        /\ m2.report = Reports!NoReport
    BY <2>1, <2>2 DEF Reports!Idle, AdminCall
  <2> HIDE DEF m2
  <2>4. Underway(m2)
    BY <2>2, <2>3 DEF Underway, Begun
  <2> QED
    BY <1>1, <1>2, <1>3, <1>5, <2>3, <2>4, RequestKeeps
<1> QED
  BY <1>1, <1>4, <1>5

\* The answer is kept as it is.
LEMMA StoreKeeps ==
    ASSUME ReportsInv, NEW o \in Admins, Reports!Store(o)
    PROVE  ReportsInv'
<1> DEFINE l == admin[o]   m == [l EXCEPT !.pc = "answered"]
<1>1. /\ l.pc = "storing" /\ admin' = [admin EXCEPT ![o].pc = "answered"]
      /\ UNCHANGED <<account, nearLock, owner, mobiles, day, changes>>
      /\ \/ cache' = [cache EXCEPT ![l.key] = l.report] /\ UNCHANGED mishaps
         \/ mishaps < MaxFaults /\ mishaps' = mishaps + 1 /\ UNCHANGED cache
  BY DEF Reports!Store, Reports!world
<1>2. l \in AdminCall /\ l.report \in Report /\ Sound(l.report) /\ l.key \in Asked /\ ReportsTyped
  BY <1>1 DEF ReportsInv, ReportsTyped, AdminCall
<1>3. mishaps' \in 0..MaxFaults
  <2>1. mishaps \in 0..MaxFaults /\ MaxFaults \in Nat
    BY <1>2, AuthAssumption DEF ReportsTyped, Reports!TypeOK
  <2> QED
    BY <1>1, <2>1
<1>4. m \in AdminCall /\ m.pc = "answered" /\ m.report = l.report /\ admin' = [admin EXCEPT ![o] = m]
  BY <1>1, <1>2 DEF AdminCall, ReportsTyped
<1> HIDE DEF m
<1>5. cache' \in [Asked -> {None} \cup Report]
  BY <1>1, <1>2 DEF ReportsTyped
<1>6. ASSUME NEW k \in Asked, cache'[k] # None PROVE Sound(cache'[k])
  <2>1. cache'[k] = cache[k] \/ cache'[k] = l.report
    BY <1>1, <1>2 DEF ReportsTyped
  <2> QED
    BY <1>2, <1>6, <2>1 DEF ReportsInv
<1> HIDE DEF l
<1> QED
  BY <1>1, <1>2, <1>3, <1>4, <1>5, <1>6, RequestKeeps

\* What is kept for a question expires.
LEMMA ExpireReportKeeps ==
    ASSUME ReportsInv, NEW key \in Asked, Reports!Expire(key)
    PROVE  ReportsInv'
<1>1. /\ cache' = [cache EXCEPT ![key] = None]
      /\ UNCHANGED <<account, nearLock, owner, mobiles, day, admin, changes, mishaps>>
  BY DEF Reports!Expire, Reports!world
<1>2. ReportsTyped'
  BY <1>1 DEF ReportsInv, ReportsTyped, Reports!TypeOK
<1>3. \A k \in Asked : cache'[k] # None => Sound(cache'[k])
  BY <1>1 DEF ReportsInv, ReportsTyped
<1>4. ASSUME NEW o \in Admins, admin[o].pc = "reading" PROVE Underway(admin[o])'
  <2>1. Underway(admin[o]) /\ admin[o] \in AdminCall /\ ReportsTyped
    BY <1>4 DEF ReportsInv, ReportsTyped
  <2>2. /\ admin'[o].key = admin[o].key /\ admin'[o].todo = admin[o].todo
        /\ admin'[o].report.got = admin[o].report.got /\ admin'[o].report.failed = admin[o].report.failed
        /\ admin'[o].report.added = admin[o].report.added \cup {}
    BY <1>1
  <2>3. /\ Reports!Live' \subseteq Reports!Live \cup {} /\ mobiles' \subseteq mobiles \cup {}
        /\ \A kind : Owned(kind)' \subseteq Owned(kind) \cup {}
        /\ \A u \in Reports!Created : u \in Reports!Created' /\ account'[u].created = account[u].created
    BY <1>1 DEF Reports!Live, Reports!Created, Owned
  <2> QED
    BY <1>2, <2>1, <2>2, <2>3, UnderwayMoves
<1> QED
  BY <1>1, <1>2, <1>3, <1>4 DEF ReportsInv, Sound

\* A change of what is counted keeps the bound on changes.
LEMMA ChangeFits ==
    ASSUME ReportsInv, Reports!Change
    PROVE  changes' \in 0..MaxChanges
<1>1. changes \in 0..MaxChanges /\ MaxChanges \in Nat
  BY ReportAssumption DEF ReportsInv, ReportsTyped, Reports!TypeOK
<1> QED
  BY <1>1 DEF Reports!Change

\* A user registers, and is added to the reports that are being read.
LEMMA RegisterKeeps ==
    ASSUME ReportsInv, NEW u \in Members, Reports!Register(u)
    PROVE  ReportsInv'
<1> DEFINE row0 == [status |-> "active", created |-> day, deleted |-> 0]
<1>1. /\ account[u].status = None /\ account' = [account EXCEPT ![u] = row0] /\ Reports!Change
      /\ admin' = [o \in Admins |-> IF admin[o].pc = "reading"
                                    THEN [admin[o] EXCEPT !.report.added = @ \cup {u}] ELSE admin[o]]
      /\ UNCHANGED <<nearLock, owner, mobiles, day, cache, mishaps>>
  BY DEF Reports!Register, Reports!Added
<1>2. /\ ReportsTyped /\ account \in [Members -> AccountRow] /\ day \in Nat /\ day >= 1
      /\ \A v \in Members : account[v].created <= day
                            /\ (account[v].deleted = 0 \/ account[v].created <= account[v].deleted)
  BY DEF ReportsInv, ReportsTyped
<1>3. row0 \in AccountRow /\ row0.created = day /\ row0.deleted = 0
  BY <1>2 DEF AccountRow
<1>4. account' \in [Members -> AccountRow] /\ account'[u] = row0 /\ \A v \in Members \ {u} : account'[v] = account[v]
  <2> HIDE DEF row0
  <2> QED
    BY <1>1, <1>2, <1>3
<1> HIDE DEF row0
<1>5. \A v \in Members : account'[v].created <= day'
                         /\ (account'[v].deleted = 0 \/ account'[v].created <= account'[v].deleted)
  BY <1>1, <1>2, <1>3, <1>4
<1>6. \A v \in Reports!Created : v \in Reports!Created' /\ account'[v].created = account[v].created
  BY <1>1, <1>4 DEF Reports!Created
<1>7. Reports!Live' \subseteq Reports!Live \cup {u}
  BY <1>4 DEF Reports!Live, Reports!Created
<1>8. /\ mobiles' \subseteq mobiles \cup {u} /\ \A kind : Owned(kind)' \subseteq Owned(kind) \cup {u}
      /\ owner' \in [Passkeys -> Members \cup {None}] /\ mobiles' \subseteq Numbers /\ mishaps' \in 0..MaxFaults
  BY <1>1, <1>2 DEF Owned, ReportsTyped, Reports!TypeOK
<1>9. changes' \in 0..MaxChanges /\ day' \in Nat /\ day' >= 1 /\ cache' = cache
  BY <1>1, <1>2, ChangeFits
<1>10. PICK X : X = {u}
  OBVIOUS
<1>11. X \subseteq Members \cup Passkeys \cup Numbers
  BY <1>10
<1>12. admin' = [o \in Admins |-> IF admin[o].pc = "reading"
                                 THEN [admin[o] EXCEPT !.report.added = @ \cup X] ELSE admin[o]]
  BY <1>1, <1>10, Zenon
<1>13. /\ Reports!Live' \subseteq Reports!Live \cup X /\ mobiles' \subseteq mobiles \cup X
       /\ \A kind : Owned(kind)' \subseteq Owned(kind) \cup X
  BY <1>7, <1>8, <1>10, Zenon
<1> QED
  BY <1>4, <1>5, <1>6, <1>8, <1>9, <1>11, <1>12, <1>13, WorldKeeps

\* An account that is there changes, and stays created on the day it was.
LEMMA AccountKeeps ==
    ASSUME ReportsInv, NEW u \in Reports!Live, NEW row0 \in AccountRow, account' = [account EXCEPT ![u] = row0],
           row0.created = account[u].created, row0.status # None,
           row0.deleted = 0 \/ row0.deleted = day, Reports!Change,
           UNCHANGED <<nearLock, owner, mobiles, day, cache, admin, mishaps>>
    PROVE  ReportsInv'
<1>1. /\ ReportsTyped /\ account \in [Members -> AccountRow] /\ day \in Nat /\ day >= 1
      /\ \A v \in Members : account[v].created <= day
                            /\ (account[v].deleted = 0 \/ account[v].created <= account[v].deleted)
  BY DEF ReportsInv, ReportsTyped
<1>2. u \in Members /\ account[u].deleted = 0 /\ account[u].status # None
  BY DEF Reports!Live, Reports!Created
<1>3. account' \in [Members -> AccountRow] /\ account'[u] = row0 /\ \A v \in Members \ {u} : account'[v] = account[v]
  BY <1>1, <1>2
<1>4. \A v \in Members : account'[v].created <= day'
                         /\ (account'[v].deleted = 0 \/ account'[v].created <= account'[v].deleted)
  BY <1>1, <1>2, <1>3
<1>5. \A v \in Reports!Created : v \in Reports!Created' /\ account'[v].created = account[v].created
  BY <1>1, <1>2, <1>3 DEF Reports!Created
<1>6. Reports!Live' \subseteq Reports!Live \cup {}
  BY <1>2, <1>3 DEF Reports!Live, Reports!Created
<1>7. /\ mobiles' \subseteq mobiles \cup {} /\ \A kind : Owned(kind)' \subseteq Owned(kind) \cup {}
      /\ owner' \in [Passkeys -> Members \cup {None}] /\ mobiles' \subseteq Numbers /\ mishaps' \in 0..MaxFaults
  BY <1>1 DEF Owned, ReportsTyped, Reports!TypeOK
<1>8. changes' \in 0..MaxChanges /\ day' \in Nat /\ day' >= 1
  BY <1>1, ChangeFits
<1> QED
  BY <1>3, <1>4, <1>5, <1>6, <1>7, <1>8, WorldKeeps

\* The status of an account changes.
LEMMA UpdateStatusKeeps ==
    ASSUME ReportsInv, NEW u \in Members, NEW status \in {"active", "blocked"}, Reports!UpdateStatus(u, status)
    PROVE  ReportsInv'
<1> DEFINE row0 == [account[u] EXCEPT !.status = status]
<1>1. /\ u \in Reports!Live /\ Reports!Change /\ account' = [account EXCEPT ![u].status = status]
      /\ UNCHANGED <<nearLock, owner, mobiles, day, cache, admin, mishaps>>
  BY DEF Reports!UpdateStatus
<1>2. account \in [Members -> AccountRow] /\ account[u] \in AccountRow /\ account[u].deleted = 0
  BY <1>1 DEF ReportsInv, ReportsTyped, Reports!Live
<1>3. /\ row0 \in AccountRow /\ row0.created = account[u].created /\ row0.status # None /\ row0.deleted = 0
      /\ account' = [account EXCEPT ![u] = row0]
  BY <1>1, <1>2, ReportAssumption DEF AccountRow
<1> HIDE DEF row0
<1> QED
  BY <1>1, <1>3, AccountKeeps

\* An account is deleted; the document stays.
LEMMA SoftDeleteKeeps ==
    ASSUME ReportsInv, NEW u \in Members, Reports!SoftDelete(u)
    PROVE  ReportsInv'
<1> DEFINE row0 == [account[u] EXCEPT !.deleted = day]
<1>1. /\ u \in Reports!Live /\ Reports!Change /\ account' = [account EXCEPT ![u].deleted = day]
      /\ UNCHANGED <<nearLock, owner, mobiles, day, cache, admin, mishaps>>
  BY DEF Reports!SoftDelete
<1>2. account \in [Members -> AccountRow] /\ account[u] \in AccountRow /\ account[u].status # None /\ day \in Nat
  BY <1>1 DEF ReportsInv, ReportsTyped, Reports!Live, Reports!Created
<1>3. /\ row0 \in AccountRow /\ row0.created = account[u].created /\ row0.status # None /\ row0.deleted = day
      /\ account' = [account EXCEPT ![u] = row0]
  BY <1>1, <1>2 DEF AccountRow
<1> HIDE DEF row0
<1> QED
  BY <1>1, <1>3, AccountKeeps

\* A step on passkeys, numbers or the day, which adds at most X to what is counted.
LEMMA PasskeyOrNumberKeeps ==
    ASSUME ReportsInv, NEW X, X \subseteq Passkeys \cup Numbers,
           \/ admin' = admin /\ X = {}
           \/ admin' = [o \in Admins |-> IF admin[o].pc = "reading"
                                         THEN [admin[o] EXCEPT !.report.added = @ \cup X] ELSE admin[o]],
           UNCHANGED <<account, cache, mishaps>>, changes' \in 0..MaxChanges,
           day' = day \/ day' = day + 1,
           owner' \in [Passkeys -> Members \cup {None}], mobiles' \subseteq Numbers,
           mobiles' \subseteq mobiles \cup X,
           \A p \in Passkeys \ X : owner'[p] # None => owner'[p] = owner[p]
    PROVE  ReportsInv'
<1>1. /\ account' \in [Members -> AccountRow] /\ day' \in Nat /\ day' >= 1 /\ day' >= day /\ day \in Nat
      /\ \A v \in Members : account[v].created \in Nat /\ account[v].created <= day
                            /\ (account[v].deleted = 0 \/ account[v].created <= account[v].deleted)
  <2>1. /\ account \in [Members -> AccountRow] /\ day \in Nat /\ day >= 1
        /\ \A v \in Members : account[v].created <= day
                              /\ (account[v].deleted = 0 \/ account[v].created <= account[v].deleted)
    BY DEF ReportsInv, ReportsTyped
  <2>2. \A v \in Members : account[v].created \in Nat
    BY <2>1 DEF AccountRow
  <2> QED
    BY <2>1, <2>2
<1>2. \A v \in Members : account'[v].created <= day'
                         /\ (account'[v].deleted = 0 \/ account'[v].created <= account'[v].deleted)
  BY <1>1
<1>3. \A v \in Reports!Created : v \in Reports!Created' /\ account'[v].created = account[v].created
  BY DEF Reports!Created
<1>4. Reports!Live' \subseteq Reports!Live \cup X
  BY DEF Reports!Live, Reports!Created
<1>5. \A kind : Owned(kind)' \subseteq Owned(kind) \cup X
  <2>1. \A kind : Of(kind) \in SUBSET Passkeys
    BY SetsFinite DEF ReportsInv
  <2> QED
    BY <2>1 DEF Owned
<1>6. mishaps' \in 0..MaxFaults
  BY DEF ReportsInv, ReportsTyped, Reports!TypeOK
<1>7. X \subseteq Members \cup Passkeys \cup Numbers
  OBVIOUS
<1> QED
  BY <1>1, <1>2, <1>3, <1>4, <1>5, <1>6, <1>7, WorldKeeps

\* A step that adds no passkey and no number, and leaves the accounts.
LEMMA NothingAddedKeeps ==
    ASSUME ReportsInv, UNCHANGED <<account, cache, admin, mishaps>>, changes' \in 0..MaxChanges,
           day' = day \/ day' = day + 1,
           owner' \in [Passkeys -> Members \cup {None}], mobiles' \subseteq mobiles,
           \A p \in Passkeys : owner'[p] # None => owner'[p] = owner[p]
    PROVE  ReportsInv'
<1>1. PICK X : X = {}
  OBVIOUS
<1>2. X \subseteq Passkeys \cup Numbers /\ (admin' = admin /\ X = {}) /\ mobiles' \subseteq mobiles \cup X
  BY <1>1
<1>3. mobiles' \subseteq Numbers /\ \A p \in Passkeys \ X : owner'[p] # None => owner'[p] = owner[p]
  BY DEF ReportsInv, ReportsTyped, Reports!TypeOK
<1> QED
  BY <1>2, <1>3, PasskeyOrNumberKeeps

\* A report under way, given or kept stays so by every step.
LEMMA ReportsKeep == ReportsInv /\ [Reports!Next]_reportsVars => ReportsInv'
<1> SUFFICES ASSUME ReportsInv, [Reports!Next]_reportsVars PROVE ReportsInv'
  OBVIOUS
<1>1. /\ owner \in [Passkeys -> Members \cup {None}] /\ mobiles \subseteq Numbers
      /\ changes \in 0..MaxChanges
  BY DEF ReportsInv, ReportsTyped, Reports!TypeOK
<1>2. CASE \E o \in Admins : (\E key \in Asked : Reports!Ask(o, key)) \/ Reports!Count(o)
                             \/ Reports!CountFails(o) \/ Reports!Store(o)
  BY <1>2, AskKeeps, CountKeeps, CountFailsKeeps, StoreKeeps
<1>3. CASE \E key \in Asked : Reports!Expire(key)
  BY <1>3, ExpireReportKeeps
<1>4. ASSUME NEW u \in Members,
             Reports!Register(u) \/ Reports!SoftDelete(u)
             \/ \E status \in {"active", "blocked"} : Reports!UpdateStatus(u, status)
      PROVE  ReportsInv'
  BY <1>4, RegisterKeeps, SoftDeleteKeeps, UpdateStatusKeeps
<1>5. ASSUME NEW u \in Members, Reports!Attempts(u) PROVE ReportsInv'
  <2>1. changes' \in 0..MaxChanges
    BY <1>5, ChangeFits DEF Reports!Attempts
  <2> QED
    BY <1>1, <1>5, <2>1, NothingAddedKeeps DEF Reports!Attempts
<1>6. ASSUME NEW p \in Passkeys, NEW u \in Members, Reports!AddPasskey(p, u) PROVE ReportsInv'
  <2>1. changes' \in 0..MaxChanges
    BY <1>6, ChangeFits DEF Reports!AddPasskey
  <2>2. /\ owner' = [owner EXCEPT ![p] = u] /\ UNCHANGED <<account, mobiles, day, cache, mishaps>>
        /\ admin' = [o \in Admins |-> IF admin[o].pc = "reading"
                                      THEN [admin[o] EXCEPT !.report.added = @ \cup {p}] ELSE admin[o]]
    BY <1>6 DEF Reports!AddPasskey, Reports!Added
  <2>3. /\ owner' \in [Passkeys -> Members \cup {None}] /\ \A x \in Passkeys \ {p} : owner'[x] = owner[x]
        /\ mobiles' \subseteq mobiles \cup {p} /\ mobiles' \subseteq Numbers /\ {p} \subseteq Passkeys \cup Numbers
    BY <1>1, <2>2
  <2> QED
    BY <2>1, <2>2, <2>3, PasskeyOrNumberKeeps
<1>7. ASSUME NEW p \in Passkeys, Reports!RemovePasskey(p) PROVE ReportsInv'
  <2>1. changes' \in 0..MaxChanges
    BY <1>7, ChangeFits DEF Reports!RemovePasskey
  <2>2. owner' = [owner EXCEPT ![p] = None] /\ UNCHANGED <<account, mobiles, day, cache, admin, mishaps>>
    BY <1>7 DEF Reports!RemovePasskey
  <2>3. /\ owner' \in [Passkeys -> Members \cup {None}]
        /\ \A x \in Passkeys : owner'[x] # None => owner'[x] = owner[x]
    BY <1>1, <2>2
  <2> QED
    BY <2>1, <2>2, <2>3, NothingAddedKeeps
<1>8. ASSUME NEW n \in Numbers, Reports!VerifyOTP(n) PROVE ReportsInv'
  <2>1. changes' \in 0..MaxChanges
    BY <1>8, ChangeFits DEF Reports!VerifyOTP
  <2>2. /\ mobiles' = mobiles \cup {n} /\ UNCHANGED <<account, owner, day, cache, mishaps>>
        /\ admin' = [o \in Admins |-> IF admin[o].pc = "reading"
                                      THEN [admin[o] EXCEPT !.report.added = @ \cup {n}] ELSE admin[o]]
    BY <1>8 DEF Reports!VerifyOTP, Reports!Added
  <2>3. /\ owner' \in [Passkeys -> Members \cup {None}]
        /\ \A x \in Passkeys \ {n} : owner'[x] # None => owner'[x] = owner[x]
        /\ mobiles' \subseteq mobiles \cup {n} /\ mobiles' \subseteq Numbers /\ {n} \subseteq Passkeys \cup Numbers
    BY <1>1, <2>2
  <2> QED
    BY <2>1, <2>2, <2>3, PasskeyOrNumberKeeps
<1>9. ASSUME NEW n \in Numbers, Reports!DeleteNumber(n) PROVE ReportsInv'
  <2>1. changes' \in 0..MaxChanges
    BY <1>9, ChangeFits DEF Reports!DeleteNumber
  <2> QED
    BY <1>1, <1>9, <2>1, NothingAddedKeeps DEF Reports!DeleteNumber
<1>10. CASE Reports!NextDay
  BY <1>1, <1>10, NothingAddedKeeps DEF Reports!NextDay
<1>11. CASE UNCHANGED reportsVars
  BY <1>1, <1>11, NothingAddedKeeps DEF reportsVars
<1> QED
  BY <1>2, <1>3, <1>4, <1>5, <1>6, <1>7, <1>8, <1>9, <1>10, <1>11 DEF Reports!Next

\* Every report given or kept is sound.
LEMMA ReportsPromise == ReportsInv => Reports!PartsWithinWhole
<1> SUFFICES ASSUME ReportsInv, NEW r \in Reports!AllReports
             PROVE  /\ "ever" \in Reports!Known(r) => r.got["churned"] <= r.got["ever"]
                    /\ "users" \in Reports!Known(r) =>
                          r.got["locked"] <= r.got["users"] + Reports!Cardinality(r.added \cap Members)
                    /\ "mobiles" \in Reports!Known(r) =>
                          r.got["verified"] <= r.got["mobiles"] + Reports!Cardinality(r.added \cap Numbers)
                    /\ "passkeys" \in Reports!Known(r) =>
                          /\ r.got["platform"] + r.got["cross-platform"]
                                <= r.got["passkeys"] + Reports!Cardinality(r.added \cap Passkeys)
                          /\ r.got["backed-up"]
                                <= r.got["passkeys"] + Reports!Cardinality(r.added \cap Passkeys)
                    /\ \A query \in r.failed : ~Reports!FailsAsAWhole(query)
  BY DEF Reports!PartsWithinWhole
<1>1. Sound(r)
  BY DEF Reports!AllReports, ReportsInv
<1> QED
  BY <1>1, SameCount DEF Sound, Honest

-----------------------------------------------------------------------------
(* Lists *)

\* R puts S in order, one element after the other.
InLine(S, R) ==
    /\ \A x \in S : <<x, x>> \notin R
    /\ \A x, y, z \in S : <<x, y>> \in R /\ <<y, z>> \in R => <<x, z>> \in R
    /\ \A x, y \in S : x = y \/ <<x, y>> \in R \/ <<y, x>> \in R

\* What comes before x in S.
Below(S, R, x) == {y \in S : <<y, x>> \in R}

\* A strict total order gives each element of a finite set a place of its own.
LEMMA Ranked ==
    ASSUME NEW S, IsFiniteSet(S), NEW R, InLine(S, R)
    PROVE  /\ \A x \in S : Cardinality(Below(S, R, x)) \in 0..(Cardinality(S) - 1)
           /\ \A x, y \in S : Cardinality(Below(S, R, x)) = Cardinality(Below(S, R, y)) => x = y
           /\ \A i \in 1..Cardinality(S) : \E x \in S : Cardinality(Below(S, R, x)) = i - 1
<1> DEFINE n == Cardinality(S)
           P(x) == Below(S, R, x)
           f == [x \in S |-> Cardinality(P(x))]
<1>0. n \in Nat
  BY FS_CardinalityType
<1>1. ASSUME NEW x \in S PROVE Cardinality(P(x)) \in 0..(n - 1)
  <2>1. P(x) \subseteq S \ {x}
    BY DEF Below, InLine
  <2>2. Cardinality(P(x)) \in Nat /\ Cardinality(P(x)) + 1 <= n
    BY <2>1, CountDrops
  <2> HIDE DEF P, n
  <2> QED
    BY <1>0, <2>2
<1>2. ASSUME NEW x \in S, NEW y \in S, <<x, y>> \in R PROVE Cardinality(P(x)) < Cardinality(P(y))
  <2>1. P(x) \subseteq P(y) \ {x} /\ x \in P(y) /\ P(y) \subseteq S
    BY <1>2 DEF Below, InLine
  <2>2. IsFiniteSet(P(y))
    BY <2>1, CountLess
  <2> HIDE DEF P
  <2>3. Cardinality(P(x)) \in Nat /\ Cardinality(P(y)) \in Nat /\ Cardinality(P(x)) + 1 <= Cardinality(P(y))
    BY <2>1, <2>2, CountDrops
  <2> QED
    BY <2>3
<1>3. ASSUME NEW x \in S, NEW y \in S, Cardinality(P(x)) = Cardinality(P(y)) PROVE x = y
  <2>1. Cardinality(P(x)) \in Int /\ Cardinality(P(y)) \in Int
    BY <1>1
  <2>2. <<x, y>> \in R => Cardinality(P(x)) < Cardinality(P(y))
    BY <1>2
  <2>3. <<y, x>> \in R => Cardinality(P(y)) < Cardinality(P(x))
    BY <1>2
  <2>4. x = y \/ <<x, y>> \in R \/ <<y, x>> \in R
    BY DEF InLine
  <2> HIDE DEF P
  <2> QED
    BY <1>3, <2>1, <2>2, <2>3, <2>4
<1>4. f \in [S -> 0..(n - 1)]
  <2> HIDE DEF P, n
  <2> QED
    BY <1>1
<1>5. f \in Injection(S, 0..(n - 1))
  <2> HIDE DEF P, n
  <2> QED
    BY <1>3, <1>4 DEF Injection, IsInjective
<1>6. IsFiniteSet(0..(n - 1)) /\ Cardinality(0..(n - 1)) = n
  <2> HIDE DEF n
  <2>1. n - 1 \in Int /\ 0 \in Int
    BY <1>0
  <2>2. IsFiniteSet(0..(n - 1)) /\ Cardinality(0..(n - 1)) = IF 0 > n - 1 THEN 0 ELSE (n - 1) - 0 + 1
    BY <2>1, FS_Interval
  <2> QED
    BY <1>0, <2>2
<1>7. f \in Surjection(S, 0..(n - 1))
  BY <1>5, <1>6, FS_Injection
<1>8. ASSUME NEW i \in 1..n PROVE \E x \in S : Cardinality(P(x)) = i - 1
  <2>1. i - 1 \in 0..(n - 1)
    <3> HIDE DEF n
    <3> QED
      BY <1>0
  <2>2. \E x \in S : f[x] = i - 1
    <3> HIDE DEF f, n
    <3> QED
      BY <1>7, <2>1 DEF Surjection
  <2> HIDE DEF P
  <2> QED
    BY <2>2
<1> QED
  BY <1>1, <1>3, <1>8

\* Two different rows of numbers of the same length differ first somewhere.
LEMMA FirstDifference ==
    ASSUME NEW n \in Nat, NEW p \in [1..n -> Nat], NEW s \in [1..n -> Nat], p # s
    PROVE  \E i \in 1..n : p[i] # s[i] /\ \A j \in 1..(i - 1) : p[j] = s[j]
<1> DEFINE T == {i \in 1..n : p[i] # s[i]}
           R == {e \in Nat \X Nat : e[1] < e[2]}
<1>1. T # {} /\ T \subseteq 1..n /\ T \subseteq Nat
  <2>1. (\A i \in 1..n : p[i] = s[i]) => p = s
    OBVIOUS
  <2>2. PICK i \in 1..n : p[i] # s[i]
    BY <2>1
  <2>3. i \in T
    BY <2>2
  <2>4. T \subseteq 1..n
    OBVIOUS
  <2> HIDE DEF T
  <2> QED
    BY <2>3, <2>4
<1>2. IsFiniteSet(T) /\ Cardinality(T) \in Nat /\ Cardinality(T) # 0
  <2>1. IsFiniteSet(1..n)
    BY FS_Interval
  <2> HIDE DEF T
  <2> QED
    BY <1>1, <2>1, CountLess, FS_EmptySet
<1>3. \A x, y \in Nat : <<x, y>> \in R <=> x < y
  OBVIOUS
<1>4. PICK i \in T : Cardinality(Below(T, R, i)) = 0
  <2> HIDE DEF T, R
  <2>1. ASSUME NEW x \in T, NEW y \in T PROVE x = y \/ <<x, y>> \in R \/ <<y, x>> \in R
    <3>1. x \in Nat /\ y \in Nat
      BY <1>1
    <3>2. x = y \/ x < y \/ y < x
      BY <3>1
    <3> QED
      BY <1>3, <3>1, <3>2
  <2>2. InLine(T, R)
    BY <1>1, <1>3, <2>1 DEF InLine
  <2>3. 1 \in 1..Cardinality(T) /\ \A k \in 1..Cardinality(T) : \E x \in T : Cardinality(Below(T, R, x)) = k - 1
    BY <1>2, <2>2, Ranked
  <2>4. PICK x \in T : Cardinality(Below(T, R, x)) = 1 - 1
    BY <2>3
  <2>5. 1 - 1 = 0
    OBVIOUS
  <2> QED
    BY <2>4, <2>5
<1>5. \A j \in T : ~ (j < i)
  <2> HIDE DEF T, R
  <2>1. Below(T, R, i) \subseteq T
    BY DEF Below
  <2>2. IsFiniteSet(Below(T, R, i))
    BY <1>2, <2>1, CountLess
  <2>3. Below(T, R, i) = {}
    BY <1>4, <2>2, FS_EmptySet
  <2> QED
    BY <1>1, <1>3, <2>3 DEF Below
<1>6. i \in 1..n /\ p[i] # s[i]
  OBVIOUS
<1>7. ASSUME NEW j \in 1..(i - 1) PROVE p[j] = s[j]
  <2>1. j \in 1..n /\ j < i
    BY <1>6
  <2> QED
    BY <1>5, <2>1
<1> QED
  BY <1>6, <1>7

\* Paths of one length are put in line by LexLess.
LEMMA LexFacts ==
    ASSUME NEW n \in Nat, NEW p \in [1..n -> Nat], NEW s \in [1..n -> Nat], NEW t \in [1..n -> Nat]
    PROVE  /\ ~Pages!LexLess(p, p)
           /\ Pages!LexLess(p, s) /\ Pages!LexLess(s, t) => Pages!LexLess(p, t)
           /\ p = s \/ Pages!LexLess(p, s) \/ Pages!LexLess(s, p)
<1>1. Len(p) = n /\ Len(s) = n /\ Len(t) = n
  OBVIOUS
<1>2. /\ \A i \in 1..n : p[i] \in Nat /\ s[i] \in Nat /\ t[i] \in Nat
      /\ \A i \in 1..n : \A j \in 1..(i - 1) : j \in 1..n
  OBVIOUS
<1>3. ~Pages!LexLess(p, p)
  BY <1>1, <1>2 DEF Pages!LexLess
<1>4. ASSUME Pages!LexLess(p, s), Pages!LexLess(s, t) PROVE Pages!LexLess(p, t)
  <2>1. PICK i \in 1..n : p[i] < s[i] /\ \A j \in 1..(i - 1) : p[j] = s[j]
    BY <1>1, <1>4 DEF Pages!LexLess
  <2>2. PICK k \in 1..n : s[k] < t[k] /\ \A j \in 1..(k - 1) : s[j] = t[j]
    BY <1>1, <1>4 DEF Pages!LexLess
  <2>3. CASE i < k
    <3>1. i \in 1..(k - 1) /\ \A j \in 1..(i - 1) : j \in 1..(k - 1)
      BY <2>3
    <3>2. p[i] < t[i] /\ \A j \in 1..(i - 1) : p[j] = t[j]
      BY <2>1, <2>2, <3>1
    <3> QED
      BY <1>1, <3>2 DEF Pages!LexLess
  <2>4. CASE k < i
    <3>1. k \in 1..(i - 1) /\ \A j \in 1..(k - 1) : j \in 1..(i - 1)
      BY <2>4
    <3>2. p[k] < t[k] /\ \A j \in 1..(k - 1) : p[j] = t[j]
      BY <2>1, <2>2, <3>1
    <3> QED
      BY <1>1, <3>2 DEF Pages!LexLess
  <2>5. CASE i = k
    <3>1. p[k] \in Nat /\ s[k] \in Nat /\ t[k] \in Nat
      BY <1>2
    <3>2. p[k] < t[k] /\ \A j \in 1..(k - 1) : p[j] = t[j]
      BY <2>1, <2>2, <2>5, <3>1
    <3> QED
      BY <1>1, <3>2 DEF Pages!LexLess
  <2>6. i < k \/ k < i \/ i = k
    OBVIOUS
  <2> QED
    BY <2>3, <2>4, <2>5, <2>6
<1>5. ASSUME p # s PROVE Pages!LexLess(p, s) \/ Pages!LexLess(s, p)
  <2>1. PICK i \in 1..n : p[i] # s[i] /\ \A j \in 1..(i - 1) : p[j] = s[j]
    BY <1>5, FirstDifference
  <2>2. p[i] < s[i] \/ s[i] < p[i]
    BY <1>2, <2>1
  <2> QED
    BY <1>1, <2>1, <2>2 DEF Pages!LexLess
<1> QED
  BY <1>3, <1>4, <1>5

\* The entries found, by their groups and the newest first: each of them once, at the place
\* that those before it leave.
LEMMA SortedIs ==
    ASSUME NEW found, IsFiniteSet(found), found \subseteq Entries, NEW levels \in Seq(STRING),
           \A r \in found : Pages!Path(r, levels) \in [1..Len(levels) -> Nat]
    PROVE  LET s == Pages!Sorted(levels, found)
           IN  /\ s \in [1..Cardinality(found) -> found] /\ Cardinality(found) \in Nat
               /\ \A r \in found : \E i \in 1..Cardinality(found) : s[i] = r
               /\ \A i, j \in 1..Cardinality(found) : s[i] = s[j] => i = j
               /\ \A r \in found : \A i \in 1..Cardinality(found) :
                     Cardinality({y \in found : Pages!Precedes(levels, y, r)}) = i - 1 <=> r = s[i]
<1> DEFINE n == Cardinality(found)
           R == {e \in found \X found : Pages!Precedes(levels, e[1], e[2])}
           s == Pages!Sorted(levels, found)
<1>1. n \in Nat /\ Len(levels) \in Nat /\ \A r \in found : r \in Nat
  BY FS_CardinalityType, PageAssumption
<1>2. \A x, y \in found : <<x, y>> \in R <=> Pages!Precedes(levels, x, y)
  OBVIOUS
<1>3. InLine(found, R)
  <2>1. ASSUME NEW x \in found PROVE <<x, x>> \notin R
    <3>1. ~Pages!LexLess(Pages!Path(x, levels), Pages!Path(x, levels)) /\ ~(x > x)
      BY <1>1, LexFacts
    <3> HIDE DEF R
    <3> QED
      BY <1>2, <3>1 DEF Pages!Precedes
  <2>2. ASSUME NEW x \in found, NEW y \in found, NEW z \in found, <<x, y>> \in R, <<y, z>> \in R
        PROVE  <<x, z>> \in R
    <3>1. PICK p \in [1..Len(levels) -> Nat] : p = Pages!Path(x, levels)
      OBVIOUS
    <3>2. PICK q0 \in [1..Len(levels) -> Nat] : q0 = Pages!Path(y, levels)
      OBVIOUS
    <3>3. PICK t \in [1..Len(levels) -> Nat] : t = Pages!Path(z, levels)
      OBVIOUS
    <3>4. Pages!LexLess(p, q0) /\ Pages!LexLess(q0, t) => Pages!LexLess(p, t)
      BY <1>1, LexFacts
    <3>5. x \in Nat /\ y \in Nat /\ z \in Nat
      BY <1>1
    <3>6. (Pages!LexLess(p, q0) \/ (p = q0 /\ x > y)) /\ (Pages!LexLess(q0, t) \/ (q0 = t /\ y > z))
      <4> HIDE DEF R
      <4> QED
        BY <1>2, <2>2, <3>1, <3>2, <3>3 DEF Pages!Precedes
    <3>7. Pages!LexLess(p, t) \/ (p = t /\ x > z)
      BY <3>4, <3>5, <3>6
    <3> HIDE DEF R
    <3> QED
      BY <1>2, <3>1, <3>3, <3>7 DEF Pages!Precedes
  <2>3. ASSUME NEW x \in found, NEW y \in found PROVE x = y \/ <<x, y>> \in R \/ <<y, x>> \in R
    <3>1. PICK p \in [1..Len(levels) -> Nat] : p = Pages!Path(x, levels)
      OBVIOUS
    <3>2. PICK q0 \in [1..Len(levels) -> Nat] : q0 = Pages!Path(y, levels)
      OBVIOUS
    <3>3. p = q0 \/ Pages!LexLess(p, q0) \/ Pages!LexLess(q0, p)
      BY <1>1, LexFacts
    <3>4. x = y \/ x > y \/ y > x
      BY <1>1
    <3> HIDE DEF R
    <3> QED
      BY <1>2, <3>1, <3>2, <3>3, <3>4 DEF Pages!Precedes
  <2> HIDE DEF R
  <2> QED
    BY <2>1, <2>2, <2>3 DEF InLine
<1>4. \A x \in found : {y \in found : Pages!Precedes(levels, y, x)} = Below(found, R, x)
  <2> HIDE DEF R
  <2> QED
    BY <1>2 DEF Below
<1>5. /\ \A x \in found : Cardinality(Below(found, R, x)) \in 0..(n - 1)
      /\ \A x, y \in found : Cardinality(Below(found, R, x)) = Cardinality(Below(found, R, y)) => x = y
      /\ \A i \in 1..n : \E x \in found : Cardinality(Below(found, R, x)) = i - 1
  <2> HIDE DEF R
  <2> QED
    BY <1>3, Ranked
<1>6. s = [i \in 1..n |->
              CHOOSE x \in found : Pages!Cardinality({y \in found : Pages!Precedes(levels, y, x)}) = i - 1]
  BY SameCount DEF Pages!Sorted, Pages!InOrder
<1>7. ASSUME NEW i \in 1..n PROVE s[i] \in found /\ Cardinality(Below(found, R, s[i])) = i - 1
  <2>1. PICK x \in found : Cardinality(Below(found, R, x)) = i - 1
    BY <1>5
  <2> HIDE DEF R, s, n
  <2>2. Pages!Cardinality({y \in found : Pages!Precedes(levels, y, x)}) = i - 1
    BY <1>4, <2>1, SameCount
  <2>3. /\ s[i] = CHOOSE x0 \in found : Pages!Cardinality({y \in found : Pages!Precedes(levels, y, x0)}) = i - 1
    BY <1>6
  <2>4. s[i] \in found /\ Pages!Cardinality({y \in found : Pages!Precedes(levels, y, s[i])}) = i - 1
    BY <2>2, <2>3, Zenon
  <2> QED
    BY <1>4, <2>4, SameCount
<1>8. s \in [1..n -> found]
  <2> HIDE DEF R, n
  <2>1. DOMAIN s = 1..n /\ s = [i \in DOMAIN s |-> s[i]]
    BY <1>6
  <2> HIDE DEF s
  <2> QED
    BY <1>7, <2>1
<1>9. ASSUME NEW r \in found PROVE \E i \in 1..n : s[i] = r
  <2> DEFINE k == Cardinality(Below(found, R, r)) + 1
  <2>1. Cardinality(Below(found, R, r)) \in 0..(n - 1)
    BY <1>5
  <2> HIDE DEF R, s, n
  <2>2. k \in 1..n /\ k - 1 = Cardinality(Below(found, R, r))
    BY <1>1, <2>1
  <2> HIDE DEF k
  <2>3. s[k] \in found /\ Cardinality(Below(found, R, s[k])) = Cardinality(Below(found, R, r))
    BY <1>7, <2>2
  <2> QED
    BY <1>5, <2>2, <2>3
<1>10. ASSUME NEW i \in 1..n, NEW j \in 1..n, s[i] = s[j] PROVE i = j
  <2>1. i - 1 = j - 1
    <3> HIDE DEF R, s, n
    <3> QED
      BY <1>7, <1>10
  <2> HIDE DEF n
  <2> QED
    BY <2>1
<1>11. ASSUME NEW r \in found, NEW i \in 1..n
       PROVE  Cardinality({y \in found : Pages!Precedes(levels, y, r)}) = i - 1 <=> r = s[i]
  <2> HIDE DEF R, s, n
  <2>1. s[i] \in found /\ Cardinality(Below(found, R, s[i])) = i - 1
    BY <1>7
  <2>2. {y \in found : Pages!Precedes(levels, y, r)} = Below(found, R, r)
    BY <1>4
  <2> QED
    BY <1>5, <2>1, <2>2
<1> HIDE DEF s, n
<1> QED
  BY <1>1, <1>8, <1>9, <1>10, <1>11 DEF s, n

\* A query as it is bound: an export asks for one page of all rows, ungrouped.
PageQuery ==
    {w \in [page : Nat, perPage : Nat, groupBy : Seq(STRING), groupPaging : BOOLEAN,
            expandAll : BOOLEAN, exceptions : SUBSET Seq(GroupValues), export : BOOLEAN] :
        /\ w.page >= 1 /\ w.perPage \in 1..(IF w.export THEN MaxRows + 1 ELSE LargestPage)
        /\ w.export => w.page = 1 /\ w.perPage = MaxRows + 1 /\ w.groupBy = <<>>}

\* The rows of a page are entries that are there, each under its groups.
RowsRead ==
    /\ \E n \in Nat : DOMAIN rows = 1..n
    /\ \A i \in DOMAIN rows :
          /\ rows[i].row \in Pages!Existing
          /\ rows[i] = [kind |-> "row", path |-> Pages!Path(rows[i].row, q.groupBy), row |-> rows[i].row]

\* The list whose headers are counted after its rows were read (GroupedFind).
GroupedNotPaged == Pages!IsGrouped(q) /\ ~Pages!IsGroupPaged(q)

\* What is known of the query, the rows and the answer between two reads.
PagesInv ==
    /\ Pages!TypeOK /\ total \in Nat
    /\ pc # "idle" => q \in PageQuery
    /\ pc \notin {"idle", "end"} => Pages!ToSet(q.groupBy) \subseteq Columns
    /\ pc = "find" => ~Pages!IsGroupPaged(q)
    /\ pc \in {"leaves", "rows"} => Pages!IsGroupPaged(q)
    /\ pc = "counts" => GroupedNotPaged /\ answer.kind = "page" /\ {"kind", "counts"} \subseteq DOMAIN answer
    /\ pc \in {"sent", "end"} /\ q.export => answer.kind # "page"
    /\ pc \in {"counts", "sent"} /\ GroupedNotPaged => RowsRead
    /\ Pages!CountCoversRows

\* Nothing is asked at first.
LEMMA PagesStart == Pages!Init => PagesInv
<1> SUFFICES ASSUME Pages!Init PROVE PagesInv
  OBVIOUS
<1>1. Pages!TypeOK /\ total \in Nat
  BY PageAssumption DEF Pages!Init, Pages!TypeOK
<1> QED
  BY <1>1 DEF Pages!Init, PagesInv, Pages!CountCoversRows

\* The numbers of a query are put within their limits.
LEMMA BoundIs ==
    ASSUME NEW raw \in Queries
    PROVE  Pages!Bound(raw) \in PageQuery
<1> DEFINE Raw == [page : Int, perPage : Int, groupBy : Seq(STRING), groupPaging : BOOLEAN,
                   expandAll : BOOLEAN, exceptions : SUBSET Seq(GroupValues), export : BOOLEAN]
           pg == IF raw.page < 1 THEN 1 ELSE raw.page
           size == IF raw.perPage < 1 THEN DefaultPageSize ELSE Pages!Smaller(raw.perPage, LargestPage)
           w == [raw EXCEPT !.page = pg, !.perPage = size]
<1>1. raw \in Raw
  BY PageAssumption
<1>2. pg \in Nat /\ pg >= 1 /\ size \in 1..LargestPage /\ size \in Nat
  <2>1. raw.page \in Int /\ raw.perPage \in Int
    BY <1>1
  <2>2. LargestPage \in Nat /\ DefaultPageSize \in 1..LargestPage
    BY PageAssumption
  <2> QED
    BY <2>1, <2>2 DEF Pages!Smaller
<1>3. Pages!Normalize(raw) = w
  BY DEF Pages!Normalize
<1> HIDE DEF pg, size
<1>4. w \in Raw /\ w.page = pg /\ w.perPage = size /\ w.export = raw.export
  <2> DEFINE v == [raw EXCEPT !.page = pg]
  <2>1. v \in Raw /\ v.page = pg /\ v.export = raw.export
    BY <1>1, <1>2
  <2>2. w = [v EXCEPT !.perPage = size]
    BY <1>1
  <2> HIDE DEF v, w
  <2> QED
    BY <1>2, <2>1, <2>2
<1> HIDE DEF w
<1>5. CASE raw.export
  <2> DEFINE x == [w EXCEPT !.page = 1, !.perPage = MaxRows + 1, !.groupBy = <<>>, !.groupPaging = FALSE,
                            !.exceptions = {}]
  <2>1. Pages!Bound(raw) = x
    BY <1>3, <1>5 DEF Pages!Bound, Pages!ExportQuery, Pages!ExportLimit
  <2>2. <<>> \in Seq(STRING) /\ {} \in SUBSET Seq(GroupValues) /\ MaxRows + 1 \in Nat /\ MaxRows + 1 \in 1..(MaxRows + 1)
    BY PageAssumption
  <2>3. /\ x \in [page : Nat, perPage : Nat, groupBy : Seq(STRING), groupPaging : BOOLEAN,
                  expandAll : BOOLEAN, exceptions : SUBSET Seq(GroupValues), export : BOOLEAN]
        /\ x.page = 1 /\ x.perPage = MaxRows + 1 /\ x.groupBy = <<>> /\ x.export
    BY <1>4, <1>5, <2>2
  <2> HIDE DEF x
  <2> QED
    BY <2>1, <2>2, <2>3 DEF PageQuery
<1>6. CASE ~raw.export
  <2>1. Pages!Bound(raw) = w
    BY <1>3, <1>6 DEF Pages!Bound
  <2>2. w \in [page : Nat, perPage : Nat, groupBy : Seq(STRING), groupPaging : BOOLEAN,
               expandAll : BOOLEAN, exceptions : SUBSET Seq(GroupValues), export : BOOLEAN]
    BY <1>2, <1>4
  <2> QED
    BY <1>2, <1>4, <1>6, <2>1, <2>2 DEF PageQuery
<1> QED
  BY <1>5, <1>6

\* A query is bound, and refused when its columns are not the endpoint's.
LEMMA AskPageKeeps ==
    ASSUME PagesInv, NEW raw \in Queries, Pages!Ask(raw)
    PROVE  PagesInv' /\ Pages!ExportWhole
<1>1. /\ q' = Pages!Bound(raw) /\ UNCHANGED <<log, total, plan, rows, walked, writes>>
      /\ \/ Pages!ValidLevels(q') /\ pc' = "count" /\ answer' = answer
         \/ pc' = "end" /\ answer' = [kind |-> "refused"]
  BY DEF Pages!Ask
<1>2. q' \in PageQuery
  BY <1>1, BoundIs
<1>3. pc' = "count" => Pages!ToSet(q'.groupBy) \subseteq Columns
  BY <1>1 DEF Pages!ValidLevels
<1>4. Pages!TypeOK'
  BY <1>1, <1>2 DEF PagesInv, Pages!TypeOK, PageQuery
<1>5. Pages!ExportWhole
  BY <1>1 DEF Pages!ExportWhole
<1> QED
  BY <1>1, <1>2, <1>3, <1>4, <1>5 DEF PagesInv, Pages!CountCoversRows

\* The entries are counted.
LEMMA CountPageKeeps ==
    ASSUME PagesInv, Pages!Count
    PROVE  PagesInv' /\ Pages!ExportWhole
<1>1. /\ pc = "count" /\ total' = Pages!Cardinality(Pages!Existing)
      /\ pc' = IF Pages!IsGroupPaged(q) THEN "leaves" ELSE "find"
      /\ UNCHANGED <<log, q, plan, rows, answer, walked, writes>>
  BY DEF Pages!Count
<1>2. total' \in Nat
  <2>1. Pages!Existing \subseteq Entries
    BY DEF Pages!Existing
  <2> QED
    BY <1>1, <2>1, CountLess, PageAssumption, SameCount
<1>3. Pages!TypeOK'
  BY <1>1 DEF PagesInv, Pages!TypeOK
<1>4. Pages!ToSet(q.groupBy)' = Pages!ToSet(q.groupBy) /\ Pages!IsGroupPaged(q)' = Pages!IsGroupPaged(q)
  BY <1>1 DEF Pages!ToSet, Pages!IsGroupPaged, Pages!IsGrouped
<1>5. Pages!ExportWhole
  BY <1>1 DEF Pages!ExportWhole
<1> QED
  BY <1>1, <1>2, <1>3, <1>4, <1>5 DEF PagesInv, Pages!CountCoversRows

\* An entry that is there has a value in each column the query groups by.
LEMMA PathIs ==
    ASSUME PagesInv, pc \notin {"idle", "end"}
    PROVE  /\ q.groupBy \in Seq(STRING) /\ Pages!Existing \subseteq Entries
           /\ IsFiniteSet(Pages!Existing) /\ Cardinality(Pages!Existing) \in Nat
           /\ \A r \in Pages!Existing : Pages!Path(r, q.groupBy) \in [1..Len(q.groupBy) -> Nat]
<1>1. q.groupBy \in Seq(STRING) /\ Pages!ToSet(q.groupBy) \subseteq Columns
  BY DEF PagesInv, PageQuery
<1>2. Pages!Existing \subseteq Entries
  BY DEF Pages!Existing
<1>3. IsFiniteSet(Pages!Existing) /\ Cardinality(Pages!Existing) \in Nat
  BY <1>2, CountLess, PageAssumption
<1>4. ASSUME NEW r \in Pages!Existing PROVE Pages!Path(r, q.groupBy) \in [1..Len(q.groupBy) -> Nat]
  <2>1. log[r] \in [Columns -> Nat]
    <3>1. log[r] \in [Columns -> GroupValues] /\ GroupValues \subseteq Nat
      BY PageAssumption DEF PagesInv, Pages!TypeOK, Pages!Existing
    <3> QED
      BY <3>1
  <2>2. DOMAIN q.groupBy = 1..Len(q.groupBy)
    BY <1>1
  <2>3. \A i \in 1..Len(q.groupBy) : q.groupBy[i] \in Columns
    BY <1>1, <2>2 DEF Pages!ToSet
  <2>4. \A i \in 1..Len(q.groupBy) : log[r][q.groupBy[i]] \in Nat
    BY <2>1, <2>3
  <2> QED
    BY <2>2, <2>4 DEF Pages!Path
<1> QED
  BY <1>1, <1>2, <1>3, <1>4

\* A sequence over a set, and one that is the first n members of another.
RowOf(f, S) == Len(f) \in Nat /\ DOMAIN f = 1..Len(f) /\ \A i \in 1..Len(f) : f[i] \in S
AllOf(f, s, n) == Len(f) = n /\ \A i \in 1..n : f[i] = s[i]

\* A page is a part of the list; and all of it when it is the first and not full.
LEMMA WindowIs ==
    ASSUME NEW S, NEW n \in Nat, NEW s \in [1..n -> S], NEW w \in PageQuery, NEW f, f = Pages!Window(s, w),
           NEW m \in Nat, w.perPage = m
    PROVE  /\ RowOf(f, S)
           /\ w.page = 1 /\ Len(f) < m => AllOf(f, s, n)
<1> DEFINE k == (w.page - 1) * w.perPage
           e == Pages!Smaller(k + w.perPage, n)
<1>1. w.page \in Nat /\ w.page >= 1 /\ w.perPage \in Nat
  BY DEF PageQuery
<1>2. k \in Nat /\ (w.page = 1 => k = 0)
  <2>1. w.page - 1 \in Nat
    BY <1>1
  <2>2. \A x, y \in Nat : x * y \in Nat
    OBVIOUS
  <2> QED
    BY <1>1, <2>1, <2>2
<1>3. s \in Seq(S) /\ Len(s) = n
  OBVIOUS
<1>4. f = SubSeq(s, k + 1, e)
  BY <1>3 DEF Pages!Window, Pages!Skip
<1> HIDE DEF k
<1>5. e \in Nat /\ e <= n /\ (k = 0 /\ e < m => e = n)
  BY <1>1, <1>2 DEF Pages!Smaller
<1> HIDE DEF e
<1>6. f = [i \in 1..(e - k) |-> s[i + k]]
  BY <1>2, <1>3, <1>4, <1>5
<1>7. Len(f) \in Nat /\ DOMAIN f = 1..Len(f) /\ (k = 0 => Len(f) = e) /\ Len(f) <= e /\ (Len(f) = e - k \/ Len(f) = 0)
  BY <1>2, <1>3, <1>4, <1>5
<1>8. \A i \in 1..Len(f) : i + k \in 1..n /\ f[i] = s[i + k]
  BY <1>2, <1>3, <1>4, <1>5, <1>6, <1>7
<1>9. \A i \in 1..Len(f) : f[i] \in S
  BY <1>8
<1>10. ASSUME w.page = 1, Len(f) < m PROVE Len(f) = n /\ \A i \in 1..n : f[i] = s[i]
  <2>1. k = 0 /\ Len(f) = n
    BY <1>2, <1>5, <1>7, <1>10
  <2>2. \A i \in 1..n : i + k = i
    BY <2>1
  <2> QED
    BY <1>8, <2>1, <2>2
<1> QED
  BY <1>7, <1>9, <1>10 DEF AllOf, RowOf

\* The rows of a list are read: for an export all of them, or it is refused.
LEMMA FindKeeps ==
    ASSUME PagesInv, Pages!Find
    PROVE  PagesInv' /\ Pages!ExportWhole
<1> DEFINE s == Pages!Sorted(q.groupBy, Pages!Existing)
           f == Pages!Window(s, q)
           n == Cardinality(Pages!Existing)
<1>1. /\ pc = "find" /\ rows' = Pages!Tagged(f)
      /\ answer' = IF q.export THEN Pages!Respond(f) ELSE Pages!Page(rows', total)
      /\ pc' = IF Pages!IsGrouped(q) THEN "counts" ELSE "sent"
      /\ UNCHANGED <<log, q, total, plan, writes>>
  BY DEF Pages!Find
<1>2. q \in PageQuery /\ ~Pages!IsGroupPaged(q) /\ total \in Nat /\ Pages!ToSet(q.groupBy) \subseteq Columns
  BY <1>1 DEF PagesInv
<1>3. /\ q.groupBy \in Seq(STRING) /\ Pages!Existing \subseteq Entries
      /\ IsFiniteSet(Pages!Existing) /\ n \in Nat
      /\ \A r \in Pages!Existing : Pages!Path(r, q.groupBy) \in [1..Len(q.groupBy) -> Nat]
  BY <1>1, PathIs
<1>4. /\ s \in [1..n -> Pages!Existing]
      /\ \A r \in Pages!Existing : \E i \in 1..n : s[i] = r
  BY <1>3, SortedIs
<1>5. /\ Len(f) \in Nat /\ DOMAIN f = 1..Len(f) /\ \A i \in 1..Len(f) : f[i] \in Pages!Existing
      /\ q.page = 1 /\ Len(f) < q.perPage => Len(f) = n /\ \A i \in 1..n : f[i] = s[i]
  <2>1. PICK S : S = Pages!Existing
    OBVIOUS
  <2>2. n \in Nat /\ s \in [1..n -> S]
    BY <1>3, <1>4, <2>1
  <2>3. f = Pages!Window(s, q)
    OBVIOUS
  <2>4. PICK m \in Nat : q.perPage = m
    BY <1>2 DEF PageQuery
  <2> HIDE DEF s, n, f
  <2>5. RowOf(f, S)
    BY <1>2, <2>2, <2>3, <2>4, WindowIs
  <2>6. ASSUME q.page = 1, Len(f) < m PROVE AllOf(f, s, n)
    BY <1>2, <2>2, <2>3, <2>4, <2>6, WindowIs
  <2> QED
    BY <2>1, <2>4, <2>5, <2>6 DEF AllOf, RowOf
<1> HIDE DEF s, f, n
<1>6. answer'.kind \in {"refused", "sheet", "page"} /\ (q.export => answer'.kind # "page")
      /\ (~q.export => answer'.kind = "page" /\ {"kind", "counts"} \subseteq DOMAIN answer')
  BY <1>1 DEF Pages!Respond, Pages!Page
<1>7. Pages!TypeOK'
  BY <1>1, <1>6 DEF PagesInv, Pages!TypeOK
<1>8. pc' = "counts" => ~q.export
  BY <1>1, <1>2 DEF PageQuery, Pages!IsGrouped
<1>9. RowsRead'
  <2>1. DOMAIN rows' = 1..Len(f)
    BY <1>1, <1>5 DEF Pages!Tagged
  <2>2. ASSUME NEW i \in 1..Len(f)
        PROVE  /\ rows'[i].row \in Pages!Existing
               /\ rows'[i] = [kind |-> "row", path |-> Pages!Path(rows'[i].row, q.groupBy), row |-> rows'[i].row]
    <3>1. rows'[i] = [kind |-> "row", path |-> Pages!Path(f[i], q.groupBy), row |-> f[i]]
      BY <1>1, <1>5 DEF Pages!Tagged
    <3>2. rows'[i].row = f[i]
      BY <3>1
    <3> QED
      BY <1>5, <3>1, <3>2
  <2>3. Pages!Existing' = Pages!Existing /\ \A r \in Pages!Existing : Pages!Path(r, q.groupBy)' = Pages!Path(r, q.groupBy)
    BY <1>1 DEF Pages!Existing, Pages!Path
  <2>4. q' = q
    BY <1>1
  <2>5. \A i \in DOMAIN rows' : rows'[i].row \in Pages!Existing'
                                /\ rows'[i] = [kind |-> "row", path |-> Pages!Path(rows'[i].row, q.groupBy), row |-> rows'[i].row]
    BY <2>1, <2>2, <2>3
  <2>6. \A r : Pages!Path(r, q.groupBy)' = Pages!Path(r, q.groupBy)
    BY <1>1 DEF Pages!Path
  <2> QED
    BY <1>5, <2>1, <2>5, <1>1 DEF RowsRead, Pages!Path
<1>10. Pages!CountCoversRows'
  BY <1>1 DEF Pages!CountCoversRows, Pages!IsGrouped
<1>11. Pages!ExportWhole
  <2>1. SUFFICES ASSUME answer'.kind = "sheet" PROVE Pages!ToSet(answer'.items) = Pages!Existing
    BY DEF Pages!ExportWhole
  <2>2. q.export /\ answer' = Pages!Respond(f)
    BY <1>1, <1>6, <2>1
  <2>3. answer'.items = f /\ ~(Len(f) > MaxRows)
    BY <2>1, <2>2 DEF Pages!Respond
  <2>4. q.page = 1 /\ q.perPage = MaxRows + 1 /\ MaxRows \in Nat
    BY <1>2, <2>2, PageAssumption DEF PageQuery
  <2>5. Len(f) = n /\ \A i \in 1..n : f[i] = s[i]
    BY <1>5, <2>3, <2>4
  <2>6. \A x : x \in Pages!ToSet(f) <=> \E i \in 1..n : f[i] = x
    BY <1>5, <2>5 DEF Pages!ToSet
  <2>7. \A x : x \in Pages!ToSet(f) <=> x \in Pages!Existing
    BY <1>4, <1>5, <2>5, <2>6
  <2> QED
    BY <2>3, <2>7
<1>12. GroupedNotPaged' = GroupedNotPaged /\ (Pages!IsGrouped(q) => GroupedNotPaged)
       /\ Pages!ToSet(q.groupBy)' = Pages!ToSet(q.groupBy)
  BY <1>1, <1>2 DEF GroupedNotPaged, Pages!IsGrouped, Pages!IsGroupPaged, Pages!ToSet
<1> QED
  BY <1>1, <1>2, <1>6, <1>7, <1>8, <1>9, <1>10, <1>11, <1>12 DEF PagesInv

\* Each row has its group counted, with every row of the page in it.
LEMMA CountsCover ==
    ASSUME PagesInv, RowsRead, pc \notin {"idle", "end"}, NEW i \in DOMAIN rows, NEW p \in Pages!GroupsOf(rows[i].path)
    PROVE  Pages!CountOf(p, q.groupBy)
               >= Pages!Cardinality({x \in Pages!ToSet(rows) : p \in Pages!GroupsOf(x.path)})
<1> DEFINE A == {x \in Pages!ToSet(rows) : p \in Pages!GroupsOf(x.path)}
           B == {r \in Pages!Existing : p \in Pages!GroupsOf(Pages!Path(r, q.groupBy))}
           h == [x \in A |-> x.row]
<1>1. ASSUME NEW x \in Pages!ToSet(rows)
      PROVE  /\ x.row \in Pages!Existing
             /\ x = [kind |-> "row", path |-> Pages!Path(x.row, q.groupBy), row |-> x.row]
  BY DEF Pages!ToSet, RowsRead
<1>2. IsFiniteSet(B)
  <2>1. IsFiniteSet(Pages!Existing) /\ B \subseteq Pages!Existing
    BY PathIs
  <2> HIDE DEF B
  <2> QED
    BY <2>1, CountLess
<1>3. ASSUME NEW x \in A PROVE x.row \in B
  <2>1. x \in Pages!ToSet(rows) /\ p \in Pages!GroupsOf(x.path)
    OBVIOUS
  <2>2. x.row \in Pages!Existing /\ x.path = Pages!Path(x.row, q.groupBy)
    BY <1>1, <2>1
  <2> QED
    BY <2>1, <2>2
<1>4. ASSUME NEW x \in A, NEW y \in A, x.row = y.row PROVE x = y
  <2>1. x \in Pages!ToSet(rows) /\ y \in Pages!ToSet(rows)
    OBVIOUS
  <2> HIDE DEF A
  <2>2. /\ x = [kind |-> "row", path |-> Pages!Path(x.row, q.groupBy), row |-> x.row]
        /\ y = [kind |-> "row", path |-> Pages!Path(y.row, q.groupBy), row |-> y.row]
    BY <1>1, <2>1
  <2> QED
    BY <1>4, <2>2, Zenon
<1>5. h \in Injection(A, B)
  <2> HIDE DEF A, B
  <2>1. h \in [A -> B]
    BY <1>3
  <2> QED
    BY <1>4, <2>1 DEF Injection, IsInjective
<1>6. Cardinality(A) <= Cardinality(B)
  <2> HIDE DEF A, B, h
  <2> QED
    BY <1>2, <1>5, FS_Injection
<1>7. Cardinality(A) \in Nat /\ Cardinality(B) \in Nat
  <2> HIDE DEF A, B, h
  <2> QED
    BY <1>2, <1>5, FS_Injection, FS_CardinalityType
<1>8. Pages!CountOf(p, q.groupBy) = Cardinality(B)
  BY SameCount DEF Pages!CountOf
<1>9. Pages!Cardinality(A) = Cardinality(A)
  BY SameCount
<1> HIDE DEF A, B, h
<1>10. Pages!CountOf(p, q.groupBy) >= Pages!Cardinality(A)
  BY <1>6, <1>7, <1>8, <1>9
<1> QED
  BY <1>10 DEF A

\* The groups of the rows are counted.
LEMMA GroupCountsKeeps ==
    ASSUME PagesInv, Pages!GroupCounts
    PROVE  PagesInv' /\ Pages!ExportWhole
<1> DEFINE tops == {x.path[1] : x \in Pages!ToSet(rows)}
           within == {r \in Pages!Existing : Pages!Path(r, q.groupBy)[1] \in tops}
           paths == UNION {Pages!GroupsOf(Pages!Path(r, q.groupBy)) : r \in within}
           counts == {[path |-> p, count |-> Pages!CountOf(p, q.groupBy)] : p \in paths}
<1>1. /\ pc = "counts" /\ answer' = [answer EXCEPT !.counts = counts] /\ pc' = "sent"
      /\ UNCHANGED <<log, q, total, plan, rows, walked, writes>>
  BY DEF Pages!GroupCounts, Pages!Counted
<1>2. /\ GroupedNotPaged /\ answer.kind = "page" /\ {"kind", "counts"} \subseteq DOMAIN answer /\ RowsRead
      /\ q \in PageQuery /\ Pages!ToSet(q.groupBy) \subseteq Columns /\ total \in Nat
  BY <1>1 DEF PagesInv
<1>3. ~q.export
  BY <1>2 DEF GroupedNotPaged, Pages!IsGrouped, PageQuery
<1>4. answer'.kind = "page" /\ answer'.counts = counts
  <2> HIDE DEF counts
  <2> QED
    BY <1>1, <1>2
<1>5. ASSUME NEW i \in DOMAIN rows, NEW p \in Pages!GroupsOf(rows[i].path)
      PROVE  \E c \in counts : c.path = p /\
                 c.count >= Pages!Cardinality({x \in Pages!ToSet(rows) : p \in Pages!GroupsOf(x.path)})
  <2> DEFINE c == [path |-> p, count |-> Pages!CountOf(p, q.groupBy)]
             r == rows[i].row
  <2>1. r \in Pages!Existing /\ rows[i].path = Pages!Path(r, q.groupBy)
    BY <1>2 DEF RowsRead
  <2>2. rows[i].path[1] \in tops
    BY DEF Pages!ToSet
  <2>3. r \in within
    <3> HIDE DEF tops, r
    <3> QED
      BY <2>1, <2>2
  <2>4. p \in paths
    <3> HIDE DEF within, r
    <3> QED
      BY <2>1, <2>3
  <2>5. c \in counts
    <3> HIDE DEF paths
    <3> QED
      BY <2>4
  <2>6. c.path = p /\ c.count = Pages!CountOf(p, q.groupBy)
    OBVIOUS
  <2> HIDE DEF c, counts
  <2> QED
    BY <1>1, <1>2, <2>5, <2>6, CountsCover
<1> HIDE DEF counts
<1>6. Pages!CountCoversRows'
  <2>1. rows' = rows /\ Pages!ToSet(rows)' = Pages!ToSet(rows)
    BY <1>1 DEF Pages!ToSet
  <2> QED
    BY <1>4, <1>5, <2>1 DEF Pages!CountCoversRows, Pages!GroupsOf
<1>7. Pages!TypeOK'
  BY <1>1, <1>4 DEF PagesInv, Pages!TypeOK
<1>8. RowsRead' /\ Pages!ToSet(q.groupBy)' = Pages!ToSet(q.groupBy)
  BY <1>1, <1>2 DEF RowsRead, Pages!Existing, Pages!Path, Pages!ToSet
<1>9. Pages!ExportWhole
  BY <1>4 DEF Pages!ExportWhole
<1> QED
  BY <1>1, <1>2, <1>3, <1>4, <1>6, <1>7, <1>8, <1>9 DEF PagesInv

\* A page of the group-paged list is put together.
LEMMA AnsweredKeeps ==
    ASSUME PagesInv, pc \in {"leaves", "rows"}, NEW items, NEW visible, Pages!Answered(items, visible),
           UNCHANGED <<log, q, total, rows, writes>>
    PROVE  PagesInv' /\ Pages!ExportWhole
<1>1. pc' = "sent" /\ answer'.kind = "page"
  BY DEF Pages!Answered, Pages!Page
<1>2. Pages!IsGroupPaged(q) /\ q \in PageQuery /\ Pages!ToSet(q.groupBy) \subseteq Columns /\ total \in Nat
  BY DEF PagesInv
<1>3. ~q.export
  BY <1>2 DEF Pages!IsGroupPaged, Pages!IsGrouped, PageQuery
<1>4. Pages!TypeOK'
  BY <1>1 DEF PagesInv, Pages!TypeOK
<1>5. /\ Pages!ToSet(q.groupBy)' = Pages!ToSet(q.groupBy) /\ ~GroupedNotPaged' /\ Pages!CountCoversRows'
      /\ q' = q /\ total' = total
  BY <1>2 DEF Pages!ToSet, Pages!IsGroupPaged, Pages!IsGrouped, GroupedNotPaged, Pages!CountCoversRows
<1>6. Pages!ExportWhole
  BY <1>1 DEF Pages!ExportWhole
<1> QED
  BY <1>1, <1>2, <1>3, <1>4, <1>5, <1>6 DEF PagesInv

\* The leaves are read, and the page is planned.
LEMMA ReadLeavesKeeps ==
    ASSUME PagesInv, Pages!ReadLeaves
    PROVE  PagesInv' /\ Pages!ExportWhole
<1>1. /\ pc = "leaves" /\ UNCHANGED <<log, q, total, rows, writes>>
      /\ \/ pc' = "rows" /\ UNCHANGED <<answer, walked>>
         \/ Pages!Answered(plan'.slots, plan'.visible)
  BY DEF Pages!ReadLeaves
<1>2. CASE pc' = "rows" /\ UNCHANGED <<answer, walked>>
  <2>1. Pages!IsGroupPaged(q) /\ q \in PageQuery /\ Pages!ToSet(q.groupBy) \subseteq Columns /\ total \in Nat
    BY <1>1 DEF PagesInv
  <2>2. Pages!TypeOK'
    BY <1>1, <1>2 DEF PagesInv, Pages!TypeOK
  <2>3. /\ Pages!ToSet(q.groupBy)' = Pages!ToSet(q.groupBy) /\ Pages!IsGroupPaged(q)' /\ Pages!CountCoversRows'
        /\ Pages!ExportWhole
    BY <1>1, <1>2, <2>1 DEF Pages!ToSet, Pages!IsGroupPaged, Pages!IsGrouped, Pages!CountCoversRows, Pages!ExportWhole
  <2> QED
    BY <1>1, <1>2, <2>1, <2>2, <2>3 DEF PagesInv
<1>3. CASE Pages!Answered(plan'.slots, plan'.visible)
  BY <1>1, <1>3, AnsweredKeeps
<1> QED
  BY <1>1, <1>2, <1>3

\* The rows of the page are read.
LEMMA ReadRowsKeeps ==
    ASSUME PagesInv, Pages!ReadRows
    PROVE  PagesInv' /\ Pages!ExportWhole
<1>1. PICK items : Pages!Answered(items, plan.visible)
  BY DEF Pages!ReadRows
<1>2. pc = "rows" /\ UNCHANGED <<log, q, total, rows, writes>>
  BY DEF Pages!ReadRows
<1> QED
  BY <1>1, <1>2, AnsweredKeeps

\* The client asks for the next page; of an export there is none.
LEMMA NextPageKeeps ==
    ASSUME PagesInv, Pages!NextPage
    PROVE  PagesInv' /\ Pages!ExportWhole
<1>1. /\ pc = "sent" /\ answer.kind = "page" /\ q' = [q EXCEPT !.page = @ + 1] /\ pc' = "count" /\ answer' = None
      /\ UNCHANGED <<log, total, walked, writes>>
  BY DEF Pages!NextPage
<1>2. q \in PageQuery /\ ~q.export /\ Pages!ToSet(q.groupBy) \subseteq Columns /\ total \in Nat
  BY <1>1 DEF PagesInv
<1>3. q' \in PageQuery /\ q'.groupBy = q.groupBy
  <2> DEFINE k == q.page + 1
             w == [q EXCEPT !.page = k]
  <2>1. k \in Nat /\ k >= 1
    BY <1>2 DEF PageQuery
  <2>2. q' = w
    BY <1>1
  <2> HIDE DEF k
  <2>3. /\ w.page = k /\ w.groupBy = q.groupBy /\ w.perPage = q.perPage /\ w.export = q.export
        /\ w \in [page : Nat, perPage : Nat, groupBy : Seq(STRING), groupPaging : BOOLEAN,
                  expandAll : BOOLEAN, exceptions : SUBSET Seq(GroupValues), export : BOOLEAN]
    BY <1>2, <2>1 DEF PageQuery
  <2> HIDE DEF w
  <2> QED
    BY <1>2, <2>1, <2>2, <2>3 DEF PageQuery
<1>4. Pages!TypeOK'
  BY <1>1, <1>3 DEF PagesInv, Pages!TypeOK, PageQuery
<1>5. Pages!ToSet(q.groupBy)' = Pages!ToSet(q.groupBy) /\ Pages!CountCoversRows' /\ Pages!ExportWhole
  BY <1>1, <1>3 DEF Pages!ToSet, Pages!CountCoversRows, Pages!ExportWhole
<1> QED
  BY <1>1, <1>2, <1>3, <1>4, <1>5 DEF PagesInv

\* The walk ends.
LEMMA FinishPagesKeeps ==
    ASSUME PagesInv, Pages!Finish
    PROVE  PagesInv' /\ Pages!ExportWhole
<1>1. pc = "sent" /\ pc' = "end" /\ UNCHANGED <<log, q, total, plan, rows, answer, walked, writes>>
  BY DEF Pages!Finish
<1> QED
  BY <1>1 DEF PagesInv, Pages!TypeOK, Pages!CountCoversRows, Pages!ExportWhole

\* The counts of a page cover its rows as long as the page is the same.
LEMMA CoverStays ==
    ASSUME Pages!CountCoversRows, UNCHANGED <<q, pc, rows, answer>>
    PROVE  Pages!CountCoversRows'
<1>1. /\ Pages!IsGrouped(q)' = Pages!IsGrouped(q) /\ Pages!IsGroupPaged(q)' = Pages!IsGroupPaged(q)
      /\ Pages!ToSet(rows)' = Pages!ToSet(rows)
      /\ pc' = pc /\ rows' = rows /\ answer' = answer
  BY DEF Pages!IsGroupPaged, Pages!IsGrouped, Pages!ToSet
<1> QED
  BY <1>1 DEF Pages!CountCoversRows

\* An entry is appended; the ones read are still there, under the same groups.
LEMMA RecordKeeps ==
    ASSUME PagesInv, NEW r \in Entries, NEW entry \in [Columns -> GroupValues], Pages!Record(r, entry)
    PROVE  PagesInv' /\ Pages!ExportWhole
<1>1. /\ log[r] = None /\ writes < MaxWrites /\ log' = [log EXCEPT ![r] = entry] /\ writes' = writes + 1
      /\ UNCHANGED <<q, pc, total, plan, rows, answer, walked>>
  BY DEF Pages!Record
<1>2. Pages!TypeOK'
  <2>1. writes' \in 0..MaxWrites
    BY <1>1, PageAssumption DEF PagesInv, Pages!TypeOK
  <2> QED
    BY <1>1, <2>1 DEF PagesInv, Pages!TypeOK
<1>3. \A e \in Pages!Existing : e \in Pages!Existing' /\ log'[e] = log[e]
  BY <1>1 DEF PagesInv, Pages!TypeOK, Pages!Existing
<1>4. ASSUME RowsRead PROVE RowsRead'
  BY <1>1, <1>3, <1>4 DEF RowsRead, Pages!Path
<1>5. /\ Pages!ToSet(q.groupBy)' = Pages!ToSet(q.groupBy) /\ Pages!IsGroupPaged(q)' = Pages!IsGroupPaged(q)
      /\ GroupedNotPaged' = GroupedNotPaged /\ Pages!ExportWhole
  BY <1>1 DEF Pages!ToSet, Pages!IsGroupPaged, Pages!IsGrouped, GroupedNotPaged, Pages!ExportWhole
<1>6. Pages!CountCoversRows'
  BY <1>1, CoverStays DEF PagesInv
<1> QED
  BY <1>1, <1>2, <1>4, <1>5, <1>6 DEF PagesInv

\* No step cuts an export off or leaves a row without its count.
LEMMA PagesKeep == PagesInv /\ [Pages!Next]_pagesVars => PagesInv' /\ Pages!ExportWhole
<1> SUFFICES ASSUME PagesInv, [Pages!Next]_pagesVars PROVE PagesInv' /\ Pages!ExportWhole
  OBVIOUS
<1>1. CASE UNCHANGED pagesVars
  <2>1. UNCHANGED <<log, q, pc, total, plan, rows, answer, walked, writes>>
    BY <1>1 DEF pagesVars
  <2>2. Pages!CountCoversRows'
    BY <2>1, CoverStays DEF PagesInv
  <2>3. RowsRead' = RowsRead /\ GroupedNotPaged' = GroupedNotPaged /\ Pages!IsGroupPaged(q)' = Pages!IsGroupPaged(q)
    BY <2>1 DEF RowsRead, GroupedNotPaged, Pages!IsGroupPaged, Pages!IsGrouped, Pages!Existing, Pages!Path
  <2>4. Pages!TypeOK' /\ Pages!ToSet(q.groupBy)' = Pages!ToSet(q.groupBy) /\ Pages!ExportWhole
    BY <2>1 DEF PagesInv, Pages!TypeOK, Pages!ToSet, Pages!ExportWhole
  <2> QED
    BY <2>1, <2>2, <2>3, <2>4 DEF PagesInv
<1>2. CASE \E raw \in Queries : Pages!Ask(raw)
  BY <1>2, AskPageKeeps
<1>3. CASE \E r \in Entries, entry \in [Columns -> GroupValues] : Pages!Record(r, entry)
  BY <1>3, RecordKeeps
<1>4. CASE Pages!Count \/ Pages!Find \/ Pages!GroupCounts \/ Pages!ReadLeaves \/ Pages!ReadRows
           \/ Pages!NextPage \/ Pages!Finish
  BY <1>4, CountPageKeeps, FindKeeps, GroupCountsKeeps, ReadLeavesKeeps, ReadRowsKeeps, NextPageKeeps, FinishPagesKeeps
<1> QED
  BY <1>1, <1>2, <1>3, <1>4 DEF Pages!Next

-----------------------------------------------------------------------------
(* Walks through a list *)

\* A list that is not paged by groups, walked from its first page while nothing is written.
PlainWalk == ~Pages!IsGroupPaged(q) /\ ~q.export /\ first = 1 /\ writes = 0

\* The entries in their order, and the first n rows of the list.
Line == Pages!Sorted(q.groupBy, Pages!Existing)
LastPlace == Cardinality(Pages!Existing)
RowAt(r) == [kind |-> "row", path |-> Pages!Path(r, q.groupBy), row |-> r]
FirstRows(n) == [i \in 1..n |-> RowAt(Line[i])]

\* The list as the property says it, without pages.
TheList ==
    [i \in 1..Pages!Cardinality(Pages!Shown(q)) |->
        CHOOSE x \in Pages!Shown(q) :
            Pages!Cardinality({y \in Pages!Shown(q) : Pages!Above(y, x)}) = i - 1]

\* How far a walk has come: up to the page that is read, or to its end.
WalkInv ==
    /\ pc = "idle" => walked = <<>>
    /\ pc # "idle" /\ PlainWalk =>
          /\ pc \in {"count", "find"} => Pages!Skip(q) <= LastPlace /\ walked = FirstRows(Pages!Skip(q))
          /\ pc = "find" => total = LastPlace
          /\ pc \in {"counts", "sent"} =>
                /\ {"kind", "hasNext"} \subseteq DOMAIN answer /\ answer.kind = "page"
                /\ answer.hasNext = Pages!HasNext(q, LastPlace)
                /\ walked = FirstRows(Pages!Smaller(q.page * q.perPage, LastPlace))
          /\ pc = "end" /\ answer.kind = "page" => walked = TheList

\* Among rows, what is above is what comes earlier by group and then by age.
LEMMA AboveIs ==
    ASSUME NEW n \in Nat, NEW p \in [1..n -> Nat], NEW s \in [1..n -> Nat], NEW r \in Nat, NEW e \in Nat
    PROVE  Pages!Above([kind |-> "row", path |-> p, row |-> r], [kind |-> "row", path |-> s, row |-> e])
               <=> Pages!LexLess(p, s) \/ (p = s /\ r > e)
<1> DEFINE x == [kind |-> "row", path |-> p, row |-> r]
           y == [kind |-> "row", path |-> s, row |-> e]
<1>1. /\ x.kind = "row" /\ x.path = p /\ x.row = r
      /\ y.kind = "row" /\ y.path = s /\ y.row = e
  OBVIOUS
<1>2. Len(p) = n /\ Len(s) = n /\ Pages!Smaller(Len(p), Len(s)) = n
  BY DEF Pages!Smaller
<1>3. SubSeq(p, 1, n) = p /\ SubSeq(s, 1, n) = s
  <2>1. p \in Seq(Nat) /\ s \in Seq(Nat)
    OBVIOUS
  <2>2. Len(SubSeq(p, 1, n)) = n /\ Len(SubSeq(s, 1, n)) = n
    BY <1>2, <2>1
  <2>3. \A i \in 1..n : SubSeq(p, 1, n)[i] = p[i] /\ SubSeq(s, 1, n)[i] = s[i]
    BY <1>2, <2>1
  <2>4. SubSeq(p, 1, n) \in Seq(Nat) /\ SubSeq(s, 1, n) \in Seq(Nat)
    BY <1>2, <2>1
  <2> QED
    BY <1>2, <2>1, <2>2, <2>3, <2>4
<1>4. (Pages!IsPrefix(p, s) <=> p = s) /\ (Pages!IsPrefix(s, p) <=> p = s)
  BY <1>2, <1>3 DEF Pages!IsPrefix
<1>5. ~Pages!LexLess(p, p)
  BY LexFacts
<1> HIDE DEF x, y
<1>6. Pages!Above(x, y) <=> (p # s /\ Pages!LexLess(p, s)) \/ (p = s /\ r > e)
  BY <1>1, <1>2, <1>3, <1>4 DEF Pages!Above
<1> QED
  BY <1>5, <1>6 DEF x, y

\* The rows of a list that is not paged by groups, in the order of their entries, are the list.
LEMMA ShownIs ==
    ASSUME PagesInv, pc \notin {"idle", "end"}, ~Pages!IsGroupPaged(q)
    PROVE  TheList = FirstRows(LastPlace)
<1> DEFINE E == Pages!Existing
           n == LastPlace
           s == Line
           Tag(r) == [kind |-> "row", path |-> Pages!Path(r, q.groupBy), row |-> r]
           S == {Tag(r) : r \in E}
           m == Len(q.groupBy)
           Older(r) == {y \in E : Pages!Precedes(q.groupBy, y, r)}
           Over(x) == {y \in S : Pages!Above(y, x)}
<1>1. /\ q.groupBy \in Seq(STRING) /\ E \subseteq Entries /\ IsFiniteSet(E) /\ n \in Nat
      /\ \A r \in E : Pages!Path(r, q.groupBy) \in [1..m -> Nat]
  BY PathIs DEF LastPlace
<1>2. /\ s \in [1..n -> E]
      /\ \A r \in E : \A i \in 1..n : Cardinality(Older(r)) = i - 1 <=> r = s[i]
  BY <1>1, SortedIs DEF Line, LastPlace
<1>3. Pages!Shown(q) = S
  BY DEF Pages!Shown
<1>4. \A r \in E : Tag(r).row = r /\ Tag(r).path = Pages!Path(r, q.groupBy)
  OBVIOUS
<1>5. \A r, e \in E : Pages!Above(Tag(r), Tag(e)) <=> Pages!Precedes(q.groupBy, r, e)
  <2> SUFFICES ASSUME NEW r \in E, NEW e \in E
               PROVE  Pages!Above(Tag(r), Tag(e)) <=> Pages!Precedes(q.groupBy, r, e)
    OBVIOUS
  <2>1. PICK p \in [1..m -> Nat] : p = Pages!Path(r, q.groupBy)
    BY <1>1
  <2>2. PICK t \in [1..m -> Nat] : t = Pages!Path(e, q.groupBy)
    BY <1>1
  <2>3. r \in Nat /\ e \in Nat /\ m \in Nat
    BY <1>1, PageAssumption
  <2>4. Pages!Above([kind |-> "row", path |-> p, row |-> r], [kind |-> "row", path |-> t, row |-> e])
            <=> Pages!LexLess(p, t) \/ (p = t /\ r > e)
    BY <2>3, AboveIs
  <2> QED
    BY <2>1, <2>2, <2>4 DEF Pages!Precedes
<1>6. \A X \in SUBSET E : Cardinality({Tag(r) : r \in X}) = Cardinality(X)
  <2> SUFFICES ASSUME NEW X \in SUBSET E PROVE Cardinality({Tag(r) : r \in X}) = Cardinality(X)
    OBVIOUS
  <2> DEFINE f == [r \in X |-> Tag(r)]
             Y == {Tag(r) : r \in X}
  <2>1. f \in Injection(X, Y) /\ f \in Surjection(X, Y)
    <3>1. f \in [X -> Y] /\ \A y \in Y : \E r \in X : f[r] = y
      OBVIOUS
    <3>2. \A r, e \in X : f[r] = f[e] => r = e
      <4>1. \A r, e \in X : Tag(r) = Tag(e) => r = e
        BY <1>4
      <4> QED
        BY <4>1
    <3> HIDE DEF f, Y
    <3>3. f \in Injection(X, Y)
      BY <3>1, <3>2 DEF Injection, IsInjective
    <3>4. f \in Surjection(X, Y)
      BY <3>1 DEF Surjection
    <3> QED
      BY <3>3, <3>4
  <2>2. IsFiniteSet(X)
    BY <1>1, CountLess
  <2> HIDE DEF f, Y
  <2>3. Cardinality(Y) = Cardinality(X)
    BY <2>1, <2>2, FS_Surjection
  <2> QED
    BY <2>3 DEF Y
<1>7. Cardinality(S) = n
  BY <1>6 DEF LastPlace
<1>8. \A r \in E : Cardinality(Over(Tag(r))) = Cardinality(Older(r))
  <2> SUFFICES ASSUME NEW r \in E PROVE Cardinality(Over(Tag(r))) = Cardinality(Older(r))
    OBVIOUS
  <2>1. Over(Tag(r)) = {Tag(y) : y \in Older(r)}
    <3> HIDE DEF Tag
    <3> QED
      BY <1>5
  <2>2. Older(r) \in SUBSET E
    OBVIOUS
  <2> HIDE DEF Tag, Over, Older
  <2> QED
    BY <1>6, <2>1, <2>2
<1>9. TheList = [i \in 1..n |-> CHOOSE x \in S : Pages!Cardinality(Over(x)) = i - 1]
  <2>1. TheList = [i \in 1..Pages!Cardinality(S) |->
                      CHOOSE x \in S : Pages!Cardinality({y \in S : Pages!Above(y, x)}) = i - 1]
    <3> HIDE DEF S
    <3> QED
      BY <1>3 DEF TheList
  <2> HIDE DEF S
  <2> QED
    BY <1>7, <2>1, SameCount
<1>10. ASSUME NEW i \in 1..n PROVE (CHOOSE x \in S : Pages!Cardinality(Over(x)) = i - 1) = Tag(s[i])
  <2>1. s[i] \in E /\ Cardinality(Over(Tag(s[i]))) = i - 1 /\ Tag(s[i]) \in S
    <3>1. s[i] \in E
      BY <1>2
    <3>2. Tag(s[i]) \in S
      BY <3>1
    <3> HIDE DEF Tag, S, Over, Older, s, n
    <3> QED
      BY <1>2, <1>8, <3>1, <3>2
  <2>2. ASSUME NEW x \in S, Pages!Cardinality(Over(x)) = i - 1 PROVE x = Tag(s[i])
    <3>0. Cardinality(Over(x)) = i - 1
      BY <2>2, SameCount
    <3>1. PICK r \in E : x = Tag(r)
      OBVIOUS
    <3> HIDE DEF Tag, S, Over, Older, s, n
    <3>2. r = s[i]
      BY <1>2, <1>8, <3>0, <3>1
    <3> QED
      BY <3>1, <3>2
  <2>3. Pages!Cardinality(Over(Tag(s[i]))) = i - 1
    BY <2>1, SameCount
  <2> HIDE DEF Tag, S, Over, s, n
  <2> QED
    BY <2>1, <2>2, <2>3
<1>11. FirstRows(n) = [i \in 1..n |-> Tag(s[i])]
  BY DEF FirstRows, RowAt
<1> HIDE DEF Tag, S, Over, s, n
<1>12. TheList = [i \in 1..n |-> Tag(s[i])]
  BY <1>9, <1>10
<1> QED
  BY <1>11, <1>12 DEF n

\* A page appended to the pages before it makes the list so far.
LEMMA Joined ==
    ASSUME NEW T, NEW n \in Nat, NEW g \in [1..n -> T], NEW k \in Nat, NEW m \in Nat, k <= m, m <= n
    PROVE  [i \in 1..k |-> g[i]] \o [i \in 1..(m - k) |-> g[i + k]] = [i \in 1..m |-> g[i]]
<1> DEFINE a == [i \in 1..k |-> g[i]]
           b == [i \in 1..(m - k) |-> g[i + k]]
           c == [i \in 1..m |-> g[i]]
<1>1. m - k \in Nat /\ \A i \in 1..(m - k) : i + k \in 1..n
  OBVIOUS
<1>2. a \in Seq(T) /\ b \in Seq(T) /\ c \in Seq(T) /\ Len(a) = k /\ Len(b) = m - k /\ Len(c) = m
  BY <1>1
<1>3. \A i \in 1..m : (a \o b)[i] = c[i]
  <2> SUFFICES ASSUME NEW i \in 1..m PROVE (a \o b)[i] = c[i]
    OBVIOUS
  <2>1. CASE i <= k
    <3>1. (a \o b)[i] = a[i]
      BY <1>2, <2>1
    <3> QED
      BY <2>1, <3>1
  <2>2. CASE i > k
    <3>1. i - k \in 1..(m - k) /\ (i - k) + k = i
      BY <2>2
    <3>2. (a \o b)[i] = b[i - k]
      BY <1>2, <2>2
    <3> QED
      BY <3>1, <3>2
  <2> QED
    BY <2>1, <2>2
<1>4. a \o b = [i \in 1..m |-> (a \o b)[i]]
  <2> DEFINE d == a \o b
  <2>1. d \in Seq(T) /\ Len(d) = m
    BY <1>2
  <2> HIDE DEF d
  <2>2. d = [i \in 1..m |-> d[i]]
    BY <2>1
  <2> QED
    BY <2>2 DEF d
<1>5. c = [i \in 1..m |-> c[i]]
  OBVIOUS
<1> HIDE DEF a, b, c
<1>6. a \o b = c
  BY <1>3, <1>4, <1>5
<1> QED
  BY <1>6 DEF a, b, c

\* Where a page begins and ends.
LEMMA PlacesAre ==
    ASSUME q \in PageQuery
    PROVE  /\ Pages!Skip(q) \in Nat /\ q.perPage \in Nat /\ q.page * q.perPage = Pages!Skip(q) + q.perPage
           /\ q.page = 1 => Pages!Skip(q) = 0
<1>1. q.page \in Nat /\ q.page >= 1 /\ q.perPage \in Nat
  BY DEF PageQuery
<1>2. \A x, y \in Nat : x * y \in Nat /\ (x + 1) * y = x * y + y
  OBVIOUS
<1>3. PICK x \in Nat : q.page = x + 1
  <2>1. q.page - 1 \in Nat /\ q.page = (q.page - 1) + 1
    BY <1>1
  <2> QED
    BY <2>1
<1>4. PICK y \in Nat : q.perPage = y
  BY <1>1
<1>5. (x + 1) - 1 = x
  OBVIOUS
<1>6. Pages!Skip(q) = x * y
  BY <1>3, <1>4, <1>5 DEF Pages!Skip
<1>7. x = 0 => x * y = 0
  OBVIOUS
<1> QED
  BY <1>2, <1>3, <1>4, <1>6, <1>7

\* The line is that of the same entries as long as none is written and the columns are the same.
LEMMA LineStays ==
    ASSUME log' = log, q'.groupBy = q.groupBy
    PROVE  LastPlace' = LastPlace /\ \A n : FirstRows(n)' = FirstRows(n)
<1>1. Line' = Line
  BY DEF Line, Pages!Sorted, Pages!InOrder, Pages!Precedes, Pages!Path, Pages!Existing
<1>2. LastPlace' = LastPlace
  BY DEF LastPlace, Pages!Existing
<1> QED
  BY <1>1, <1>2 DEF FirstRows, RowAt, Pages!Path

\* So is the list as the property says it.
LEMMA ListStays ==
    ASSUME UNCHANGED <<log, q>>
    PROVE  TheList' = TheList /\ PlainWalk' = (~Pages!IsGroupPaged(q) /\ ~q.export /\ first' = 1 /\ writes' = 0)
<1>1. Pages!Shown(q)' = Pages!Shown(q)
  BY DEF Pages!Shown, Pages!Groups, Pages!Leaves, Pages!GroupsOf, Pages!Open, Pages!Header, Pages!CountOf, Pages!Path,
         Pages!Existing, Pages!IsGroupPaged, Pages!IsGrouped
<1>2. TheList' = TheList
  BY <1>1 DEF TheList
<1> QED
  BY <1>2 DEF PlainWalk, Pages!IsGroupPaged, Pages!IsGrouped

\* A walk begins with nothing read.
LEMMA WalkStarts == Pages!Init => WalkInv
  BY DEF Pages!Init, WalkInv

\* The first page begins at the first place.
LEMMA AskWalks ==
    ASSUME PagesInv, PagesInv', WalkInv, NEW raw \in Queries, Pages!Ask(raw)
    PROVE  WalkInv'
<1>1. /\ pc = "idle" /\ first' = q'.page /\ walked' = walked
      /\ \/ pc' = "count"
         \/ pc' = "end" /\ answer' = [kind |-> "refused"]
  BY DEF Pages!Ask
<1>2. walked' = <<>>
  BY <1>1 DEF WalkInv
<1>3. CASE pc' = "end" /\ answer' = [kind |-> "refused"]
  BY <1>3 DEF WalkInv
<1>4. CASE pc' = "count"
  <2>1. SUFFICES ASSUME first' = 1 PROVE Pages!Skip(q)' <= LastPlace' /\ walked' = FirstRows(Pages!Skip(q))'
    BY <1>4 DEF WalkInv, PlainWalk
  <2>2. (q \in PageQuery)'
    BY <1>4 DEF PagesInv
  <2>3. Pages!Skip(q)' = 0
    <3>1. PICK y \in Nat : q'.perPage = y
      BY <2>2 DEF PageQuery
    <3>2. (1 - 1) * y = 0
      OBVIOUS
    <3> QED
      BY <1>1, <2>1, <3>1, <3>2 DEF Pages!Skip
  <2>4. LastPlace' \in Nat
    <3>1. Pages!Existing' \subseteq Entries
      BY DEF Pages!Existing
    <3> QED
      BY <3>1, CountLess, PageAssumption DEF LastPlace
  <2>5. FirstRows(Pages!Skip(q))' = <<>>
    BY <2>3 DEF FirstRows
  <2> QED
    BY <1>2, <2>3, <2>4, <2>5
<1> QED
  BY <1>1, <1>3, <1>4

\* What is counted is the length of the line.
LEMMA CountWalks ==
    ASSUME PagesInv, WalkInv, Pages!Count
    PROVE  WalkInv'
<1>1. /\ pc = "count" /\ total' = Pages!Cardinality(Pages!Existing)
      /\ pc' = IF Pages!IsGroupPaged(q) THEN "leaves" ELSE "find"
      /\ UNCHANGED <<log, q, walked, first, writes>>
  BY DEF Pages!Count
<1>2. total' = LastPlace
  BY <1>1, SameCount DEF LastPlace
<1>3. LastPlace' = LastPlace /\ (\A n : FirstRows(n)' = FirstRows(n)) /\ Pages!Skip(q)' = Pages!Skip(q)
  BY <1>1, LineStays DEF Pages!Skip
<1>4. PlainWalk' => PlainWalk /\ pc' = "find"
  BY <1>1, ListStays DEF PlainWalk
<1>5. FirstRows(Pages!Skip(q))' = FirstRows(Pages!Skip(q))
  BY <1>1, <1>3 DEF FirstRows
<1> QED
  BY <1>1, <1>2, <1>3, <1>4, <1>5 DEF WalkInv

\* A page is read and appended.
LEMMA FindWalks ==
    ASSUME PagesInv, WalkInv, Pages!Find
    PROVE  WalkInv'
<1> DEFINE n == LastPlace
           k == Pages!Skip(q)
           e == Pages!Smaller(q.page * q.perPage, n)
           f == Pages!Window(Line, q)
           g == [i \in 1..n |-> RowAt(Line[i])]
           T == {RowAt(r) : r \in Pages!Existing}
<1>1. /\ pc = "find" /\ rows' = Pages!Tagged(f)
      /\ answer' = IF q.export THEN Pages!Respond(f) ELSE Pages!Page(rows', total)
      /\ walked' = walked \o rows' /\ pc' \in {"counts", "sent"}
      /\ UNCHANGED <<log, q, first, writes>>
  BY DEF Pages!Find, Line
<1>2. SUFFICES ASSUME PlainWalk
      PROVE  /\ {"kind", "hasNext"} \subseteq DOMAIN answer' /\ answer'.kind = "page"
             /\ answer'.hasNext = Pages!HasNext(q, n)
             /\ walked' = FirstRows(e)
  <2>1. PlainWalk' = PlainWalk /\ Pages!HasNext(q, LastPlace)' = Pages!HasNext(q, n)
    BY <1>1, ListStays, LineStays DEF PlainWalk, Pages!HasNext
  <2>2. FirstRows(Pages!Smaller(q.page * q.perPage, LastPlace))' = FirstRows(e)
    BY <1>1, LineStays DEF FirstRows, Pages!Smaller
  <2> HIDE DEF e, n
  <2> QED
    BY <1>1, <2>1, <2>2 DEF WalkInv
<1>3. answer' = Pages!Page(rows', total) /\ total = n
  BY <1>1, <1>2 DEF PlainWalk, WalkInv
<1>4. k <= n /\ walked = FirstRows(k)
  BY <1>1, <1>2 DEF WalkInv
<1>5. q \in PageQuery /\ q.groupBy \in Seq(STRING) /\ Line \in [1..n -> Pages!Existing] /\ n \in Nat
  BY <1>1, PathIs, SortedIs DEF PagesInv, Line, LastPlace
<1>6. k \in Nat /\ q.perPage \in Nat /\ q.page * q.perPage = k + q.perPage
  BY <1>5, PlacesAre
<1> HIDE DEF k
<1>7. e \in Nat /\ k <= e /\ e <= n
  BY <1>4, <1>5, <1>6 DEF Pages!Smaller
<1>8. f = SubSeq(Line, k + 1, e)
  <2>1. Len(Line) = n
    BY <1>5
  <2>2. f = SubSeq(Line, k + 1, Pages!Smaller(k + q.perPage, Len(Line)))
    BY DEF Pages!Window, k
  <2> HIDE DEF n
  <2> QED
    BY <1>6, <2>1, <2>2
<1> HIDE DEF e, n
<1>9. Len(f) = e - k /\ \A i \in 1..(e - k) : f[i] = Line[i + k]
  BY <1>4, <1>5, <1>6, <1>7, <1>8
<1> HIDE DEF f
<1>10. rows' = [i \in 1..(e - k) |-> g[i + k]]
  <2>1. \A i \in 1..(e - k) : i + k \in 1..n
    BY <1>5, <1>6, <1>7
  <2>2. rows' = [i \in 1..(e - k) |-> [kind |-> "row", path |-> Pages!Path(f[i], q.groupBy), row |-> f[i]]]
    BY <1>1, <1>9 DEF Pages!Tagged
  <2>3. \A i \in 1..(e - k) : g[i + k] = [kind |-> "row", path |-> Pages!Path(f[i], q.groupBy), row |-> f[i]]
    BY <1>9, <2>1 DEF RowAt
  <2> HIDE DEF g
  <2> QED
    BY <2>2, <2>3
<1>11. g \in [1..n -> T]
  BY <1>5
<1>12. FirstRows(k) = [i \in 1..k |-> g[i]] /\ FirstRows(e) = [i \in 1..e |-> g[i]]
  <2>1. (\A i \in 1..k : i \in 1..n) /\ (\A i \in 1..e : i \in 1..n)
    BY <1>4, <1>5, <1>6, <1>7
  <2> QED
    BY <2>1 DEF FirstRows
<1> HIDE DEF g, T
<1>13. walked' = FirstRows(e)
  <2>1. [i \in 1..k |-> g[i]] \o [i \in 1..(e - k) |-> g[i + k]] = [i \in 1..e |-> g[i]]
    BY <1>5, <1>6, <1>7, <1>11, Joined
  <2> QED
    BY <1>1, <1>4, <1>10, <1>12, <2>1
<1>14. answer'.kind = "page" /\ {"kind", "hasNext"} \subseteq DOMAIN answer' /\ answer'.hasNext = Pages!HasNext(q, n)
  BY <1>3 DEF Pages!Page
<1> QED
  BY <1>13, <1>14

\* The counts of the groups change neither the rows nor what comes next.
LEMMA GroupCountsWalk ==
    ASSUME PagesInv, WalkInv, Pages!GroupCounts
    PROVE  WalkInv'
<1>1. PICK counts : answer' = [answer EXCEPT !.counts = counts]
  BY DEF Pages!GroupCounts
<1>2. pc = "counts" /\ pc' = "sent" /\ UNCHANGED <<log, q, walked, first, writes>>
  BY DEF Pages!GroupCounts
<1>3. PlainWalk' = PlainWalk /\ Pages!HasNext(q, LastPlace)' = Pages!HasNext(q, LastPlace)
  BY <1>2, ListStays, LineStays DEF PlainWalk, Pages!HasNext
<1>4. FirstRows(Pages!Smaller(q.page * q.perPage, LastPlace))'
        = FirstRows(Pages!Smaller(q.page * q.perPage, LastPlace))
  BY <1>2, LineStays DEF FirstRows, Pages!Smaller
<1>5. {"kind", "hasNext"} \subseteq DOMAIN answer =>
        DOMAIN answer' = DOMAIN answer /\ answer'.kind = answer.kind /\ answer'.hasNext = answer.hasNext
  BY <1>1
<1> QED
  BY <1>2, <1>3, <1>4, <1>5 DEF WalkInv

\* The next page begins where this one ended.
LEMMA NextPageWalks ==
    ASSUME PagesInv, WalkInv, Pages!NextPage
    PROVE  WalkInv'
<1>1. /\ pc = "sent" /\ answer.hasNext /\ q' = [q EXCEPT !.page = @ + 1] /\ pc' = "count"
      /\ UNCHANGED <<log, walked, first, writes>>
  BY DEF Pages!NextPage
<1>2. q \in PageQuery
  BY <1>1 DEF PagesInv
<1>3. q'.page = q.page + 1 /\ q'.perPage = q.perPage /\ q'.groupBy = q.groupBy /\ q'.groupPaging = q.groupPaging
      /\ q'.export = q.export
  BY <1>1, <1>2 DEF PageQuery
<1>4. PlainWalk' = PlainWalk
  BY <1>1, <1>3 DEF PlainWalk, Pages!IsGroupPaged, Pages!IsGrouped
<1>5. LastPlace' = LastPlace /\ \A n : FirstRows(n)' = FirstRows(n)
  BY <1>1, <1>3, LineStays
<1>6. Pages!Skip(q)' = q.page * q.perPage /\ q.page * q.perPage \in Nat
  <2>1. q.page \in Nat /\ (q.page + 1) - 1 = q.page
    BY <1>2 DEF PageQuery
  <2> QED
    BY <1>2, <1>3, <2>1, PlacesAre DEF Pages!Skip
<1>7. ASSUME PlainWalk PROVE q.page * q.perPage < LastPlace /\ walked = FirstRows(q.page * q.perPage)
  BY <1>1, <1>7 DEF WalkInv, Pages!HasNext, Pages!Smaller
<1>8. FirstRows(Pages!Skip(q))' = FirstRows(q.page * q.perPage)
  BY <1>1, <1>3, <1>5, <1>6, LineStays DEF FirstRows
<1>9. LastPlace \in Nat
  BY <1>1, PathIs DEF LastPlace
<1> QED
  BY <1>1, <1>4, <1>5, <1>6, <1>7, <1>8, <1>9 DEF WalkInv

\* The last page ends at the last place.
LEMMA FinishWalks ==
    ASSUME PagesInv, WalkInv, Pages!Finish
    PROVE  WalkInv'
<1>1. /\ pc = "sent" /\ ~(answer.kind = "page" /\ answer.hasNext) /\ pc' = "end"
      /\ UNCHANGED <<log, q, answer, walked, first, writes>>
  BY DEF Pages!Finish
<1>2. PlainWalk' = PlainWalk /\ TheList' = TheList
  BY <1>1, ListStays DEF PlainWalk
<1>3. ASSUME PlainWalk PROVE walked = TheList
  <2>1. /\ ~Pages!HasNext(q, LastPlace)
        /\ walked = FirstRows(Pages!Smaller(q.page * q.perPage, LastPlace))
    BY <1>1, <1>3 DEF WalkInv
  <2>2. q.page * q.perPage \in Nat /\ LastPlace \in Nat
    BY <1>1, PlacesAre, PathIs DEF PagesInv, LastPlace
  <2>3. Pages!Smaller(q.page * q.perPage, LastPlace) = LastPlace
    BY <2>1, <2>2 DEF Pages!HasNext, Pages!Smaller
  <2> QED
    BY <1>1, <1>3, <2>1, <2>3, ShownIs DEF PlainWalk
<1> QED
  BY <1>1, <1>2, <1>3 DEF WalkInv

\* No step leads a walk astray.
LEMMA WalkKeeps == PagesInv /\ PagesInv' /\ WalkInv /\ [Pages!Next]_pagesVars => WalkInv'
<1> SUFFICES ASSUME PagesInv, PagesInv', WalkInv, [Pages!Next]_pagesVars PROVE WalkInv'
  OBVIOUS
<1>1. CASE UNCHANGED pagesVars
  <2>1. UNCHANGED <<log, q, pc, total, answer, walked, first, writes>>
    BY <1>1 DEF pagesVars
  <2>2. /\ PlainWalk' = PlainWalk /\ TheList' = TheList /\ LastPlace' = LastPlace
        /\ Pages!Skip(q)' = Pages!Skip(q) /\ Pages!HasNext(q, LastPlace)' = Pages!HasNext(q, LastPlace)
    BY <2>1, ListStays, LineStays DEF PlainWalk, Pages!Skip, Pages!HasNext
  <2>3. /\ FirstRows(Pages!Skip(q))' = FirstRows(Pages!Skip(q))
        /\ FirstRows(Pages!Smaller(q.page * q.perPage, LastPlace))'
             = FirstRows(Pages!Smaller(q.page * q.perPage, LastPlace))
    BY <2>1, <2>2, LineStays DEF FirstRows, Pages!Smaller
  <2> QED
    BY <2>1, <2>2, <2>3 DEF WalkInv
<1>2. CASE \E r \in Entries, entry \in [Columns -> GroupValues] : Pages!Record(r, entry)
  <2>1. pc' = pc /\ pc # "idle" /\ writes' = writes + 1
    BY <1>2 DEF Pages!Record
  <2>2. writes' # 0
    BY <2>1 DEF PagesInv, Pages!TypeOK
  <2> QED
    BY <2>1, <2>2 DEF WalkInv, PlainWalk
<1>3. CASE Pages!ReadLeaves \/ Pages!ReadRows
  <2>1. pc \in {"leaves", "rows"} /\ pc' # "idle" /\ q' = q
    BY <1>3 DEF Pages!ReadLeaves, Pages!ReadRows, Pages!Answered
  <2>2. Pages!IsGroupPaged(q)'
    BY <2>1 DEF PagesInv, Pages!IsGroupPaged, Pages!IsGrouped
  <2> QED
    BY <2>1, <2>2 DEF WalkInv, PlainWalk
<1>4. CASE \E raw \in Queries : Pages!Ask(raw)
  BY <1>4, AskWalks
<1>5. CASE Pages!Count \/ Pages!Find \/ Pages!GroupCounts \/ Pages!NextPage \/ Pages!Finish
  BY <1>5, CountWalks, FindWalks, GroupCountsWalk, NextPageWalks, FinishWalks
<1> QED
  BY <1>1, <1>2, <1>3, <1>4, <1>5 DEF Pages!Next

\* At its end a walk through a list that is not paged by groups has been the list.
LEMMA WalkPromises ==
    ASSUME PagesInv, WalkInv, ~Pages!IsGroupPaged(q)
    PROVE  Pages!WalkIsTheList
<1> SUFFICES ASSUME pc = "end", answer.kind = "page", writes = 0, first = 1
             PROVE  walked = Pages!InOrder(Pages!Shown(q), Pages!Above)
  BY DEF Pages!WalkIsTheList
<1>1. ~q.export
  BY DEF PagesInv
<1>2. walked = TheList
  BY <1>1 DEF WalkInv, PlainWalk
<1> QED
  BY <1>2 DEF TheList, Pages!InOrder

=============================================================================
