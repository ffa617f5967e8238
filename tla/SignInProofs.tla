---------------------------- MODULE SignInProofs ----------------------------
(***************************************************************************)
(* Theorems of SignIn for every number of people, addresses, accounts and  *)
(* concurrent callbacks, users, phone numbers, codes and requests: first   *)
(* what MobileOTP keeps by itself, then that a GitHub identity keeps its   *)
(* account, then both beside each other.                                   *)
(***************************************************************************)
EXTENDS SignIn, FiniteSetTheorems, TLAPS

-----------------------------------------------------------------------------
(* Phone numbers *)

\* What the locals of a request hold at each of its labels: a guess is compared
\* only with a code that has attempts left.
LocalsInv ==
    \A r \in Reqs :
        /\ req[r].pc # "idle" => req[r].user \in Users /\ req[r].number \in Numbers
        /\ req[r].pc \in {"miss", "consume"} =>
              req[r].read \in MobileOTPData /\ req[r].read.attempts < OtpMaxAttempts

\* The types and the locals.
TInv == TypeOK /\ LocalsInv

-----------------------------------------------------------------------------
(* Type correctness *)

\* The locals of a request that is not running are well typed.
LEMMA IdleType == Idle \in Request
  BY DEF Idle, Request

\* The record a wrong guess writes back is one that was read, one attempt on,
\* and stays within the limit.
LEMMA MissType ==
    ASSUME NEW d \in MobileOTPData, d.attempts < OtpMaxAttempts
    PROVE  CountedMiss(d) \in MobileOTPData /\ CountedMiss(d).code = d.code
  BY MobileAssumption DEF CountedMiss, MobileOTPData

\* A document whose primary mark is set or cleared is one.
LEMMA FlagType ==
    ASSUME NEW d \in UserMobile, NEW b \in BOOLEAN
    PROVE  [d EXCEPT !.isPrimary = b] \in UserMobile
  BY DEF UserMobile

\* Nothing waits or is running, and no number is anybody's primary number: numbers may
\* have been verified before.
AtRest ==
    /\ otp = [n \in Numbers |-> NoOTP]
    /\ mobile \in [Numbers -> UserMobile]
    /\ \A n \in Numbers : ~mobile[n].isPrimary
    /\ req = [r \in Reqs |-> Idle]
    /\ faults = 0
    /\ issued = {}
    /\ tried = [c \in Codes |-> 0]
    /\ accepted = [c \in Codes |-> 0]
    /\ takeovers = [u \in Users |-> 0]

\* Nothing is stored, verified or running at the start.
LEMMA InitAtRest == Init => AtRest
  BY DEF Init, AtRest, NoMobile, UserMobile

\* What is at rest is well typed.
LEMMA InitTInv == AtRest => TInv
<1> SUFFICES ASSUME AtRest PROVE TypeOK /\ LocalsInv
  BY DEF TInv
<1>1. TypeOK
  BY IdleType DEF AtRest, TypeOK
<1>2. LocalsInv
  BY DEF AtRest, LocalsInv, Idle
<1> QED
  BY <1>1, <1>2

\* Where the labels of a request are entered, its locals are set as they say.
LEMMA NextTInv == TInv /\ [Next]_vars => TInv'
<1> DEFINE Good(x) ==
        /\ x \in Request
        /\ x.pc # "idle" => x.user \in Users /\ x.number \in Numbers
        /\ x.pc \in {"miss", "consume"} =>
              x.read \in MobileOTPData /\ x.read.attempts < OtpMaxAttempts
<1> USE MobileAssumption
<1> SUFFICES ASSUME TInv, [Next]_vars PROVE TypeOK' /\ LocalsInv'
  BY DEF TInv
<1>0. TypeOK /\ LocalsInv /\ (\A q \in Reqs : Good(req[q]))
  BY DEF TInv, TypeOK, LocalsInv
<1>1. Good(Idle)
  BY IdleType DEF Idle
<1>2. ASSUME \A q \in Reqs : Good(req'[q]), req' \in [Reqs -> Request]
      PROVE  LocalsInv'
  BY <1>2 DEF LocalsInv
<1>3. ASSUME NEW r \in Reqs, Finish(r)
      PROVE  LocalsInv' /\ req' \in [Reqs -> Request]
  <2>1. \A q \in Reqs : req'[q] = IF q = r THEN Idle ELSE req[q]
    BY <1>0, <1>3 DEF Finish, TypeOK
  <2>2. req' \in [Reqs -> Request]
    BY <1>0, <1>3, IdleType DEF Finish, TypeOK
  <2> HIDE DEF Good
  <2>3. \A q \in Reqs : Good(req'[q])
    BY <1>0, <1>1, <2>1
  <2> QED
    BY <1>2, <2>2, <2>3
<1>4. ASSUME NEW r \in Reqs, NEW label, NEW u, NEW n, NEW d, Start(r, label, u, n, d),
             Good([pc |-> label, user |-> u, number |-> n, read |-> d])
      PROVE  LocalsInv' /\ req' \in [Reqs -> Request]
  <2> DEFINE x == [pc |-> label, user |-> u, number |-> n, read |-> d]
  <2>1. req' = [req EXCEPT ![r] = x] /\ x \in Request
    BY <1>4 DEF Start
  <2> HIDE DEF x
  <2>2. req' \in [Reqs -> Request]
    BY <1>0, <2>1 DEF TypeOK
  <2>3. \A q \in Reqs : req'[q] = IF q = r THEN x ELSE req[q]
    BY <1>0, <2>1 DEF TypeOK
  <2>4. Good(x)
    BY <1>4 DEF x
  <2> HIDE DEF Good
  <2>5. \A q \in Reqs : Good(req'[q])
    BY <1>0, <2>3, <2>4
  <2> QED
    BY <1>2, <2>2, <2>5
<1>5. ASSUME NEW r \in Reqs, NEW u \in Users, NEW n \in Numbers, SendCheck(r, u, n)
      PROVE  TypeOK' /\ LocalsInv'
  <2>1. Good([pc |-> "store", user |-> u, number |-> n, read |-> NoOTP])
    BY DEF Request
  <2>2. LocalsInv' /\ req' \in [Reqs -> Request]
    BY <1>4, <1>5, <2>1 DEF SendCheck
  <2>3. faults' \in Nat /\ UNCHANGED <<otp, mobile, history>>
    BY <1>0, <1>5 DEF SendCheck, Fault, TypeOK
  <2> QED
    BY <1>0, <2>2, <2>3 DEF TypeOK, history
<1>6. ASSUME NEW r \in Reqs, NEW c \in Codes, StoreOTP(r, c)
      PROVE  TypeOK' /\ LocalsInv'
  <2>1. [code |-> c, attempts |-> 0] \in MobileOTPData
    BY DEF MobileOTPData
  <2>2. otp' \in [Numbers -> MobileOTPData \cup {NoOTP}]
    BY <1>0, <1>6, <2>1 DEF StoreOTP, TypeOK
  <2> QED
    BY <1>0, <1>3, <1>6, <2>2 DEF StoreOTP, TypeOK
<1>7. ASSUME NEW r \in Reqs, NEW u \in Users, NEW n \in Numbers, NEW right \in BOOLEAN,
             VerifyRead(r, u, n, right)
      PROVE  TypeOK' /\ LocalsInv'
  <2> DEFINE v == Verdict(otp[n], right)
  <2>1. otp[n] \in MobileOTPData
    BY <1>0, <1>7 DEF VerifyRead, TypeOK
  <2>2. /\ v \in {"discard", "consume", "miss"}
        /\ v \in {"miss", "consume"} => otp[n].attempts < OtpMaxAttempts
    BY <2>1 DEF Verdict, MobileOTPData
  <2>3. Good([pc |-> v, user |-> u, number |-> n, read |-> otp[n]])
    BY <2>1, <2>2 DEF Request
  <2>4. Start(r, v, u, n, otp[n])
    BY <1>7 DEF VerifyRead
  <2>5. LocalsInv' /\ req' \in [Reqs -> Request]
    BY <1>4, <2>3, <2>4
  <2>6. otp[n].code \in Codes
    BY <2>1 DEF MobileOTPData
  <2>7. tried' \in [Codes -> Nat] /\ accepted' \in [Codes -> Nat]
    BY <1>0, <1>7, <2>6 DEF VerifyRead, TypeOK
  <2>8. UNCHANGED <<otp, mobile, faults, issued, takeovers>>
    BY <1>7 DEF VerifyRead
  <2> QED
    BY <1>0, <2>5, <2>7, <2>8 DEF TypeOK
<1>8. ASSUME NEW r \in Reqs, Discard(r) PROVE TypeOK' /\ LocalsInv'
  <2>1. otp' \in [Numbers -> MobileOTPData \cup {NoOTP}] /\ faults' \in Nat
    BY <1>0, <1>8 DEF Discard, DelOTP, Fault, TypeOK
  <2> QED
    BY <1>0, <1>3, <1>8, <2>1 DEF Discard, TypeOK, history
<1>9. ASSUME NEW r \in Reqs, Miss(r) PROVE TypeOK' /\ LocalsInv'
  <2>1. CountedMiss(req[r].read) \in MobileOTPData
    BY <1>0, <1>9, MissType DEF Miss, At
  <2>2. otp' \in [Numbers -> MobileOTPData \cup {NoOTP}] /\ faults' \in Nat
    BY <1>0, <1>9, <2>1 DEF Miss, Fault, TypeOK
  <2> QED
    BY <1>0, <1>3, <1>9, <2>2 DEF Miss, TypeOK, history
<1>10. ASSUME NEW r \in Reqs, Consume(r) PROVE TypeOK' /\ LocalsInv'
  <2>1. otp' \in [Numbers -> MobileOTPData \cup {NoOTP}] /\ faults' \in Nat
    BY <1>0, <1>10 DEF Consume, DelOTP, Fault, TypeOK
  <2>2. Good([req[r] EXCEPT !.pc = "upsert"])
    BY <1>0, <1>10 DEF Consume, At, Request
  <2> DEFINE x == [req[r] EXCEPT !.pc = "upsert"]
  <2>3. req' = [req EXCEPT ![r] = x] /\ Good(x)
    BY <1>0, <1>10, <2>2 DEF Consume
  <2> HIDE DEF x
  <2>4. req' \in [Reqs -> Request]
    BY <1>0, <2>3 DEF TypeOK
  <2>5. \A q \in Reqs : req'[q] = IF q = r THEN x ELSE req[q]
    BY <1>0, <2>3 DEF TypeOK
  <2> HIDE DEF Good
  <2>6. \A q \in Reqs : Good(req'[q])
    BY <1>0, <2>3, <2>5
  <2> QED
    BY <1>0, <1>2, <1>10, <2>1, <2>4, <2>6 DEF Consume, TypeOK, history
<1>11. ASSUME NEW r \in Reqs, Upsert(r) PROVE TypeOK' /\ LocalsInv'
  <2>1. req[r].user \in Users /\ req[r].number \in Numbers
    BY <1>0, <1>11 DEF Upsert, At
  <2>2. takeovers' \in [Users -> Nat]
    BY <1>0, <1>11, <2>1 DEF Upsert, TypeOK
  <2>3. mobile' \in [Numbers -> UserMobile]
    BY <1>0, <1>11, <2>1 DEF Upsert, TypeOK, UserMobile
  <2> QED
    BY <1>0, <1>3, <1>11, <2>2, <2>3 DEF Upsert, TypeOK
<1>12. ASSUME NEW r \in Reqs, NEW u \in Users, NEW n \in Numbers, ClearPrimary(r, u, n)
       PROVE  TypeOK' /\ LocalsInv'
  <2>1. Good([pc |-> "mark", user |-> u, number |-> n, read |-> NoOTP])
    BY DEF Request
  <2>2. LocalsInv' /\ req' \in [Reqs -> Request]
    BY <1>4, <1>12, <2>1 DEF ClearPrimary
  <2>3. mobile' \in [Numbers -> UserMobile]
    BY <1>0, <1>12, FlagType DEF ClearPrimary, Demoted, TypeOK
  <2> QED
    BY <1>0, <1>12, <2>2, <2>3 DEF ClearPrimary, TypeOK, history
<1>13. ASSUME NEW r \in Reqs, MarkPrimary(r) PROVE TypeOK' /\ LocalsInv'
  <2>1. mobile' \in [Numbers -> UserMobile]
    <3>1. req[r].number \in OwnedBy(req[r].user) =>
             /\ [mobile[req[r].number] EXCEPT !.isPrimary = TRUE] \in UserMobile
             /\ mobile' = [mobile EXCEPT ![req[r].number] =
                              [mobile[req[r].number] EXCEPT !.isPrimary = TRUE]]
      BY <1>0, <1>13, FlagType DEF MarkPrimary, OwnedBy, TypeOK
    <3>2. req[r].number \notin OwnedBy(req[r].user) => mobile' = mobile
      BY <1>13 DEF MarkPrimary
    <3> QED
      BY <1>0, <3>1, <3>2 DEF TypeOK
  <2> QED
    BY <1>0, <1>3, <1>13, <2>1 DEF MarkPrimary, TypeOK, history
<1>14. ASSUME NEW r \in Reqs, Abort(r) PROVE TypeOK' /\ LocalsInv'
  BY <1>0, <1>3, <1>14 DEF Abort, Fault, TypeOK, history
<1>15. ASSUME NEW u \in Users, NEW n \in Numbers, Delete(u, n) PROVE TypeOK' /\ LocalsInv'
  <2>1. mobile' \in [Numbers -> UserMobile]
    BY <1>0, <1>15 DEF Delete, TypeOK, NoMobile, UserMobile
  <2> QED
    BY <1>0, <1>15, <2>1 DEF Delete, TypeOK, LocalsInv, history
<1>16. ASSUME NEW n \in Numbers, OTPExpires(n) PROVE TypeOK' /\ LocalsInv'
  BY <1>0, <1>16 DEF OTPExpires, DelOTP, TypeOK, LocalsInv, history
<1>17. CASE UNCHANGED vars
  BY <1>0, <1>17 DEF vars, TypeOK, LocalsInv
<1> QED
  BY <1>5, <1>6, <1>7, <1>8, <1>9, <1>10, <1>11, <1>12, <1>13, <1>14, <1>15, <1>16, <1>17
     DEF Next, SendOTP, VerifyOTP, SetPrimary

\* The model is well typed: in particular no stored code ever counts more wrong
\* guesses than the limit.
THEOREM OTPTypeCorrect == Spec => []TypeOK
<1>1. TInv => TypeOK
  BY DEF TInv
<1> QED
  BY <1>1, InitAtRest, InitTInv, NextTInv, PTL DEF Spec

-----------------------------------------------------------------------------
(* Counting *)

\* A smaller set counts no more.
LEMMA CountLess ==
    ASSUME NEW S, IsFiniteSet(S), NEW T, T \subseteq S
    PROVE  /\ IsFiniteSet(T) /\ Cardinality(T) \in Nat /\ Cardinality(S) \in Nat
           /\ Cardinality(T) <= Cardinality(S)
  BY FS_Subset, FS_CardinalityType

\* One element more counts at most one more.
LEMMA CountGrows ==
    ASSUME NEW S, IsFiniteSet(S), NEW x, NEW T, T \subseteq S \cup {x}
    PROVE  /\ IsFiniteSet(T) /\ Cardinality(T) \in Nat /\ Cardinality(S) \in Nat
           /\ Cardinality(T) <= Cardinality(S) + 1
<1>1. /\ IsFiniteSet(S \cup {x})
      /\ Cardinality(S \cup {x}) \in Nat /\ Cardinality(S) \in Nat
      /\ Cardinality(S \cup {x}) <= Cardinality(S) + 1
  BY FS_AddElement, FS_CardinalityType
<1>2. /\ IsFiniteSet(T) /\ Cardinality(T) \in Nat
      /\ Cardinality(T) <= Cardinality(S \cup {x})
  BY <1>1, CountLess
<1> QED
  BY <1>1, <1>2

\* One element fewer counts at least one less.
LEMMA CountDrops ==
    ASSUME NEW S, IsFiniteSet(S), NEW x \in S, NEW T, T \subseteq S \ {x}
    PROVE  /\ IsFiniteSet(T) /\ Cardinality(T) \in Nat /\ Cardinality(S) \in Nat
           /\ Cardinality(T) + 1 <= Cardinality(S)
<1>1. /\ IsFiniteSet(S \ {x})
      /\ Cardinality(S \ {x}) \in Nat /\ Cardinality(S) \in Nat
      /\ Cardinality(S \ {x}) = Cardinality(S) - 1
  BY FS_RemoveElement, FS_CardinalityType
<1>2. /\ IsFiniteSet(T) /\ Cardinality(T) \in Nat
      /\ Cardinality(T) <= Cardinality(S \ {x})
  BY <1>1, CountLess
<1> QED
  BY <1>1, <1>2

-----------------------------------------------------------------------------
(* Primary numbers *)

\* Requests that have cleared u's primary marks and will set one.
Marking(u) == {r \in Reqs : req[r].pc = "mark" /\ req[r].user = u}

\* A mark that is set is paid for by the request that sets it, in flight since
\* the last clearing, or by a number taken over with its mark.
PrimaryInv ==
    \A u \in Users :
        Cardinality(Primaries(u)) + Cardinality(Marking(u))
            <= Cardinality(Reqs) + takeovers[u]

\* No mark is added, and nobody is about to set one who was not.
Unmarked(u) ==
    /\ Primaries(u)' \subseteq Primaries(u) /\ Marking(u)' \subseteq Marking(u)
    /\ takeovers'[u] = takeovers[u]

\* All marks are cleared.
Cleared(u) == Primaries(u)' = {} /\ takeovers'[u] = takeovers[u]

\* A request sets the mark it came for.
Marked(u) ==
    /\ takeovers'[u] = takeovers[u]
    /\ \E r \in Marking(u), n \in Numbers :
          /\ Primaries(u)' \subseteq Primaries(u) \cup {n}
          /\ Marking(u)' \subseteq Marking(u) \ {r}

\* A number comes over from another user with its mark.
TookOver(u) ==
    /\ takeovers'[u] = takeovers[u] + 1 /\ Marking(u)' \subseteq Marking(u)
    /\ \E n \in Numbers : Primaries(u)' \subseteq Primaries(u) \cup {n}

\* For one user every step is one of these.
LEMMA PrimaryStep ==
    ASSUME TInv, [Next]_vars, NEW u \in Users
    PROVE  Unmarked(u) \/ Cleared(u) \/ Marked(u) \/ TookOver(u)
<1> USE MobileAssumption
<1>0. /\ mobile \in [Numbers -> UserMobile] /\ req \in [Reqs -> Request]
      /\ takeovers \in [Users -> Nat] /\ LocalsInv
      /\ \A n \in Numbers : mobile[n] \in UserMobile
  BY DEF TInv, TypeOK
<1>1. ASSUME takeovers' = takeovers,
             \A n \in Numbers : mobile'[n] = mobile[n] \/ mobile'[n].owner # u
                                  \/ ~mobile'[n].isPrimary,
             \A q \in Reqs : req'[q] = req[q] \/ req'[q].pc # "mark" \/ req'[q].user # u
      PROVE  Unmarked(u)
  BY <1>1 DEF Unmarked, Primaries, OwnedBy, Marking
<1>2. ASSUME NEW r \in Reqs,
             \/ \E v \in Users, n \in Numbers : SendCheck(r, v, n)
             \/ \E c \in Codes : StoreOTP(r, c)
             \/ \E v \in Users, n \in Numbers, right \in BOOLEAN : VerifyRead(r, v, n, right)
             \/ Discard(r) \/ Miss(r) \/ Consume(r) \/ Abort(r)
      PROVE  Unmarked(u)
  <2>1. UNCHANGED <<mobile, takeovers>>
    BY <1>2 DEF SendCheck, StoreOTP, VerifyRead, Discard, Miss, Consume, Abort, history
  <2>2. \A q \in Reqs : q # r => req'[q] = req[q]
    BY <1>0, <1>2 DEF SendCheck, StoreOTP, VerifyRead, Discard, Miss, Consume, Abort,
                      Start, Finish
  <2>3. req'[r].pc # "mark"
    <3>1. ASSUME NEW v, NEW n, SendCheck(r, v, n) PROVE req'[r].pc = "store"
      BY <1>0, <3>1 DEF SendCheck, Start
    <3>2. ASSUME NEW v, NEW n, NEW right, VerifyRead(r, v, n, right)
          PROVE  req'[r].pc \in {"discard", "consume", "miss"}
      BY <1>0, <3>2 DEF VerifyRead, Start, Verdict
    <3>3. CASE Consume(r)
      BY <1>0, <3>3 DEF Consume, Request
    <3>4. CASE \/ \E c \in Codes : StoreOTP(r, c)
               \/ Discard(r) \/ Miss(r) \/ Abort(r)
      <4>1. Finish(r)
        BY <3>4 DEF StoreOTP, Discard, Miss, Abort
      <4> QED
        BY <1>0, <4>1 DEF Finish, Idle
    <3> QED
      BY <1>2, <3>1, <3>2, <3>3, <3>4
  <2> QED
    BY <1>1, <2>1, <2>2, <2>3
<1>3. ASSUME NEW r \in Reqs, NEW v \in Users, NEW n \in Numbers, ClearPrimary(r, v, n)
      PROVE  Unmarked(u) \/ Cleared(u)
  <2>1. takeovers' = takeovers /\ mobile' = Demoted(v)
    BY <1>3 DEF ClearPrimary, history
  <2>2. \A k \in Numbers : /\ mobile[k].owner = v => ~mobile'[k].isPrimary
                           /\ mobile[k].owner # v => mobile'[k] = mobile[k]
                           /\ mobile'[k].owner = mobile[k].owner
    BY <1>0, <2>1 DEF Demoted, OwnedBy, UserMobile
  <2>3. CASE v = u
    BY <2>1, <2>2, <2>3 DEF Cleared, Primaries, OwnedBy
  <2>4. CASE v # u
    <3>1. \A q \in Reqs : req'[q] = req[q] \/ req'[q].user = v
      BY <1>0, <1>3 DEF ClearPrimary, Start
    <3> QED
      BY <1>1, <2>1, <2>2, <2>4, <3>1
  <2> QED
    BY <2>3, <2>4
<1>4. ASSUME NEW r \in Reqs, MarkPrimary(r) PROVE Unmarked(u) \/ Marked(u)
  <2>1. /\ req[r].pc = "mark" /\ req[r].user \in Users /\ req[r].number \in Numbers
        /\ takeovers' = takeovers
    BY <1>0, <1>4 DEF MarkPrimary, At, history, LocalsInv
  <2>2. \A q \in Reqs : IF q = r THEN req'[q].pc = "idle" ELSE req'[q] = req[q]
    BY <1>0, <1>4 DEF MarkPrimary, Finish, Idle
  <2>3. Marking(u)' \subseteq Marking(u) \ {r}
    BY <2>2 DEF Marking
  <2>4. \A k \in Numbers : mobile'[k].owner = mobile[k].owner
                           /\ (k # req[r].number => mobile'[k] = mobile[k])
    BY <1>0, <1>4, <2>1 DEF MarkPrimary, UserMobile
  <2>5. CASE req[r].user = u
    <3>1. r \in Marking(u)
      BY <2>1, <2>5 DEF Marking
    <3>2. Primaries(u)' \subseteq Primaries(u) \cup {req[r].number}
      BY <2>4 DEF Primaries, OwnedBy
    <3> QED
      BY <2>1, <2>3, <3>1, <3>2 DEF Marked
  <2>6. CASE req[r].user # u
    <3>1. \A k \in Numbers : mobile'[k] = mobile[k] \/ mobile'[k].owner # u
      BY <1>0, <1>4, <2>1, <2>4, <2>6 DEF MarkPrimary, OwnedBy
    <3> QED
      BY <1>1, <2>1, <2>2, <3>1
  <2> QED
    BY <2>5, <2>6
<1>5. ASSUME NEW r \in Reqs, Upsert(r) PROVE Unmarked(u) \/ TookOver(u)
  <2>1. req[r].user \in Users /\ req[r].number \in Numbers
    BY <1>0, <1>5 DEF Upsert, At, LocalsInv
  <2>2. \A q \in Reqs : IF q = r THEN req'[q].pc = "idle" ELSE req'[q] = req[q]
    BY <1>0, <1>5 DEF Upsert, Finish, Idle
  <2>3. Marking(u)' \subseteq Marking(u)
    BY <2>2 DEF Marking
  <2>4. \A k \in Numbers :
           IF k = req[r].number
           THEN mobile'[k].owner = req[r].user /\ mobile'[k].isPrimary = mobile[k].isPrimary
           ELSE mobile'[k] = mobile[k]
    BY <1>0, <1>5, <2>1 DEF Upsert, UserMobile
  <2>5. takeovers'[u] = IF req[r].user = u /\ TakesOver(u, req[r].number)
                        THEN takeovers[u] + 1 ELSE takeovers[u]
    BY <1>0, <1>5, <2>1 DEF Upsert
  <2>6. CASE req[r].user = u /\ TakesOver(u, req[r].number)
    <3>1. Primaries(u)' \subseteq Primaries(u) \cup {req[r].number}
      BY <2>4 DEF Primaries, OwnedBy
    <3> QED
      BY <2>1, <2>3, <2>5, <2>6, <3>1 DEF TookOver
  <2>7. CASE ~(req[r].user = u /\ TakesOver(u, req[r].number))
    <3>1. Primaries(u)' \subseteq Primaries(u)
      BY <2>1, <2>4, <2>7 DEF Primaries, OwnedBy, TakesOver
    <3> QED
      BY <2>3, <2>5, <2>7, <3>1 DEF Unmarked
  <2> QED
    BY <2>6, <2>7
<1>6. ASSUME NEW v \in Users, NEW n \in Numbers, Delete(v, n) PROVE Unmarked(u)
  <2>1. UNCHANGED <<req, takeovers>>
    BY <1>6 DEF Delete, history
  <2>2. \A k \in Numbers : mobile'[k] = mobile[k] \/ ~mobile'[k].isPrimary
    BY <1>0, <1>6 DEF Delete, NoMobile
  <2> QED
    BY <1>1, <2>1, <2>2
<1>7. ASSUME NEW n \in Numbers, OTPExpires(n) PROVE Unmarked(u)
  BY <1>1, <1>7 DEF OTPExpires, history
<1>8. CASE UNCHANGED vars
  BY <1>1, <1>8 DEF vars
<1> QED
  BY <1>2, <1>3, <1>4, <1>5, <1>6, <1>7, <1>8 DEF Next, SendOTP, VerifyOTP, SetPrimary

\* The marks stay paid for.
LEMMA NextPrimary == TInv /\ PrimaryInv /\ [Next]_vars => PrimaryInv'
<1> SUFFICES ASSUME TInv, PrimaryInv, [Next]_vars, NEW u \in Users
             PROVE  Cardinality(Primaries(u)') + Cardinality(Marking(u)')
                        <= Cardinality(Reqs) + takeovers'[u]
  BY DEF PrimaryInv
<1> DEFINE P == Cardinality(Primaries(u))   P1 == Cardinality(Primaries(u)')
           M == Cardinality(Marking(u))     M1 == Cardinality(Marking(u)')
           R == Cardinality(Reqs)
<1>1. /\ Primaries(u) \subseteq Numbers /\ Marking(u) \subseteq Reqs
      /\ Primaries(u)' \subseteq Numbers /\ Marking(u)' \subseteq Reqs
  BY DEF Primaries, OwnedBy, Marking
<1>2. IsFiniteSet(Numbers) /\ IsFiniteSet(Reqs)
  BY MobileAssumption
<1>3. IsFiniteSet(Primaries(u)) /\ IsFiniteSet(Marking(u))
  BY <1>1, <1>2, CountLess
<1>4. P \in Nat /\ P1 \in Nat /\ M \in Nat /\ M1 \in Nat /\ R \in Nat /\ M1 <= R
  BY <1>1, <1>2, CountLess
<1>5. takeovers[u] \in Nat /\ takeovers'[u] \in Nat
  BY NextTInv DEF TInv, TypeOK
<1>6. P + M <= R + takeovers[u]
  BY DEF PrimaryInv
<1>7. CASE Unmarked(u)
  <2>1. P1 <= P /\ M1 <= M /\ takeovers'[u] = takeovers[u]
    BY <1>3, <1>7, CountLess DEF Unmarked
  <2> HIDE DEF P, P1, M, M1, R
  <2>2. P1 + M1 <= R + takeovers'[u]
    BY <1>4, <1>5, <1>6, <2>1
  <2> QED
    BY <2>2 DEF P1, M1, R
<1>8. CASE Cleared(u)
  <2>1. P1 = 0
    BY <1>8, FS_EmptySet DEF Cleared
  <2> HIDE DEF P, P1, M, M1, R
  <2>2. P1 + M1 <= R + takeovers'[u]
    BY <1>4, <1>5, <2>1
  <2> QED
    BY <2>2 DEF P1, M1, R
<1>9. CASE Marked(u)
  <2>1. PICK r \in Marking(u), n \in Numbers :
           /\ Primaries(u)' \subseteq Primaries(u) \cup {n}
           /\ Marking(u)' \subseteq Marking(u) \ {r}
    BY <1>9 DEF Marked
  <2>2. P1 <= P + 1
    BY <1>3, <2>1, CountGrows
  <2>3. M1 + 1 <= M
    BY <1>3, <2>1, CountDrops
  <2>4. takeovers'[u] = takeovers[u]
    BY <1>9 DEF Marked
  <2> HIDE DEF P, P1, M, M1, R
  <2>5. P1 + M1 <= R + takeovers'[u]
    BY <1>4, <1>5, <1>6, <2>2, <2>3, <2>4
  <2> QED
    BY <2>5 DEF P1, M1, R
<1>10. CASE TookOver(u)
  <2>1. PICK n \in Numbers : Primaries(u)' \subseteq Primaries(u) \cup {n}
    BY <1>10 DEF TookOver
  <2>2. P1 <= P + 1
    BY <1>3, <2>1, CountGrows
  <2>3. M1 <= M
    BY <1>3, <1>10, CountLess DEF TookOver
  <2>4. takeovers'[u] = takeovers[u] + 1
    BY <1>10 DEF TookOver
  <2> HIDE DEF P, P1, M, M1, R
  <2>5. P1 + M1 <= R + takeovers'[u]
    BY <1>4, <1>5, <1>6, <2>2, <2>3, <2>4
  <2> QED
    BY <2>5 DEF P1, M1, R
<1> QED
  BY <1>7, <1>8, <1>9, <1>10, PrimaryStep

\* Nobody has a number at the start.
LEMMA InitPrimary == AtRest => PrimaryInv
<1> SUFFICES ASSUME AtRest, NEW u \in Users
             PROVE  Cardinality(Primaries(u)) + Cardinality(Marking(u))
                        <= Cardinality(Reqs) + takeovers[u]
  BY DEF PrimaryInv
<1>1. Primaries(u) = {} /\ Marking(u) = {} /\ takeovers[u] = 0
  BY MobileAssumption DEF AtRest, Primaries, OwnedBy, Marking, Idle
<1>2. Cardinality({}) = 0 /\ Cardinality(Reqs) \in Nat
  BY FS_EmptySet, FS_CardinalityType, MobileAssumption
<1> QED
  BY <1>1, <1>2

\* The requests that are about to set a mark leave the bound on those that are set.
LEMMA PrimaryBound == TInv /\ PrimaryInv => PrimaryBudget
<1> SUFFICES ASSUME TInv, PrimaryInv, NEW u \in Users
             PROVE  Cardinality(Primaries(u)) <= Cardinality(Reqs) + takeovers[u]
  BY DEF PrimaryBudget
<1>1. Primaries(u) \subseteq Numbers /\ Marking(u) \subseteq Reqs
  BY DEF Primaries, OwnedBy, Marking
<1>2. /\ Cardinality(Primaries(u)) \in Nat /\ Cardinality(Marking(u)) \in Nat
      /\ Cardinality(Reqs) \in Nat
  BY <1>1, CountLess, MobileAssumption
<1>3. takeovers[u] \in Nat
  BY DEF TInv, TypeOK
<1>4. Cardinality(Primaries(u)) + Cardinality(Marking(u))
          <= Cardinality(Reqs) + takeovers[u]
  BY DEF PrimaryInv
<1> QED
  BY <1>2, <1>3, <1>4

\* A user has no more primary numbers than requests of hers that overlapped,
\* and numbers she took over from another user while they were primary.
THEOREM PrimaryIsBounded == Spec => []PrimaryBudget
  BY PrimaryBound, InitAtRest, InitTInv, NextTInv, InitPrimary, NextPrimary, PTL DEF Spec

-----------------------------------------------------------------------------
(* How often a code is accepted *)

\* Requests that accepted c and have not deleted it yet.
Eating(c) == {r \in Reqs : req[r].pc = "consume" /\ req[r].read.code = c}

\* Requests that found a wrong guess at c and will write c back.
Missing(c) == {r \in Reqs : req[r].pc = "miss" /\ req[r].read.code = c}

\* The code can be read and guessed.
Stored(c) == \E n \in Numbers : otp[n].code = c

\* The numbers a code is stored for, or would be deleted from or restored to.
Homes(c) == {n \in Numbers : otp[n].code = c}
                \cup {req[r].number : r \in Eating(c) \cup Missing(c)}

\* A code belongs to one number, and to none before it is drawn.
HomesInv ==
    \A c \in Codes :
        /\ c \notin issued => Homes(c) = {} /\ accepted[c] = 0
        /\ \A n, k \in Homes(c) : n = k

\* The requests beside one.
Others == Cardinality(Reqs) - 1

\* Each time a code has been deleted, those who accepted it before are paid
\* for: one of them and the Others for each wrong guess that could have brought
\* it back.  A wrong guess not yet written back has not brought anything back.
AcceptInv ==
    \A c \in Codes :
        /\ Stored(c) =>
              accepted[c] + Others * Cardinality(Missing(c))
                  <= Others * tried[c] + Cardinality(Eating(c)) + faults
        /\ ~Stored(c) =>
              accepted[c] + Others * Cardinality(Missing(c))
                  <= Others * tried[c] + Others
                         + (IF Missing(c) = {} THEN 1 ELSE 0) + faults

\* The code is neither accepted nor missed.
SameScore(c) == accepted'[c] = accepted[c] /\ tried'[c] = tried[c]

\* Nobody has used the code.
Unused(c) == accepted'[c] = 0 /\ Missing(c)' = {}

\* Nothing happens to the code but, with a fault, the end of a request.
Kept(c) ==
    /\ SameScore(c) /\ (Stored(c)' <=> Stored(c))
    /\ Missing(c)' \subseteq Missing(c)
    /\ \/ faults' >= faults /\ Eating(c) \subseteq Eating(c)'
       \/ /\ faults' = faults + 1
          /\ \E r \in Reqs : Eating(c) \subseteq Eating(c)' \cup {r}

\* The code is deleted, replaced or expires.
Lost(c) ==
    /\ SameScore(c) /\ ~Stored(c)' /\ Missing(c)' \subseteq Missing(c)
    /\ faults' >= faults

\* A wrong guess at the stored code.
GuessedWrong(c) ==
    /\ Stored(c) /\ Stored(c)' /\ faults' = faults
    /\ accepted'[c] = accepted[c] /\ tried'[c] = tried[c] + 1
    /\ Eating(c) \subseteq Eating(c)'
    /\ \E r \in Reqs : Missing(c)' \subseteq Missing(c) \cup {r}

\* The stored code is accepted.
GuessedRight(c) ==
    /\ Stored(c) /\ Stored(c)' /\ faults' = faults
    /\ accepted'[c] = accepted[c] + 1 /\ tried'[c] = tried[c]
    /\ Missing(c)' \subseteq Missing(c)
    /\ \E r \in Eating(c)' : Eating(c) \subseteq Eating(c)' \ {r}

\* A wrong guess is written back, and with it the code.
WrittenBack(c) ==
    /\ SameScore(c) /\ Stored(c)' /\ faults' = faults
    /\ Eating(c) \subseteq Eating(c)'
    /\ \E r \in Missing(c) : Missing(c)' \subseteq Missing(c) \ {r}

\* For one code every step is one of these, and only its first message gives it
\* a number.
LEMMA CodeStep ==
    ASSUME TInv, HomesInv, [Next]_vars, NEW c \in Codes
    PROVE  /\ \/ Unused(c) \/ Kept(c) \/ Lost(c)
              \/ GuessedWrong(c) \/ GuessedRight(c) \/ WrittenBack(c)
           /\ \/ Homes(c)' \subseteq Homes(c)
              \/ /\ Homes(c) = {} /\ c \in issued'
                 /\ \E n \in Numbers : Homes(c)' \subseteq {n}
           /\ c \notin issued' =>
                 c \notin issued /\ (Homes(c) = {} => accepted'[c] = accepted[c])
<1> DEFINE Step == Unused(c) \/ Kept(c) \/ Lost(c)
                      \/ GuessedWrong(c) \/ GuessedRight(c) \/ WrittenBack(c)
           Home == \/ Homes(c)' \subseteq Homes(c)
                   \/ /\ Homes(c) = {} /\ c \in issued'
                      /\ \E n \in Numbers : Homes(c)' \subseteq {n}
           Issue == c \notin issued' =>
                       c \notin issued /\ (Homes(c) = {} => accepted'[c] = accepted[c])
<1> USE MobileAssumption
<1>0. /\ otp \in [Numbers -> MobileOTPData \cup {NoOTP}] /\ req \in [Reqs -> Request]
      /\ faults \in Nat /\ tried \in [Codes -> Nat] /\ accepted \in [Codes -> Nat]
      /\ issued \subseteq Codes
      /\ \A r \in Reqs : /\ req[r].pc # "idle" => req[r].number \in Numbers
                         /\ req[r].pc \in {"miss", "consume"} => req[r].read \in MobileOTPData
      /\ \A r \in Reqs : req[r].pc = "miss" => req[r].read.attempts < OtpMaxAttempts
  BY DEF TInv, TypeOK, LocalsInv
<1>a. NoOTP.code # c
  BY DEF NoOTP
<1>b. ASSUME UNCHANGED <<tried, accepted>>, issued \subseteq issued', faults' >= faults,
             \A n \in Numbers : otp'[n] = otp[n] \/ otp'[n].code # c,
             \A q \in Reqs : \/ req'[q] = req[q]
                             \/ /\ req'[q].pc \notin {"miss", "consume"}
                                /\ req[q].pc # "consume" \/ req[q].read.code # c
      PROVE  Step /\ Home /\ Issue
  <2>1. Missing(c)' \subseteq Missing(c) /\ Eating(c)' = Eating(c)
    BY <1>b DEF Missing, Eating
  <2>2. Stored(c)' => Stored(c)
    BY <1>b DEF Stored
  <2>3. Homes(c)' \subseteq Homes(c)
    <3>1. \A q \in Eating(c)' \cup Missing(c)' :
             q \in Eating(c) \cup Missing(c) /\ req'[q].number = req[q].number
      BY <1>b DEF Eating, Missing
    <3> QED
      BY <1>b, <3>1 DEF Homes
  <2>4. Kept(c) \/ Lost(c)
    BY <1>b, <2>1, <2>2 DEF Kept, Lost, SameScore
  <2> QED
    BY <1>b, <2>3, <2>4
<1>c. ASSUME UNCHANGED <<tried, accepted, issued, otp>>, faults' = faults + 1,
             NEW r \in Reqs, req'[r].pc \notin {"miss", "consume"},
             \A q \in Reqs : q # r => req'[q] = req[q]
      PROVE  Step /\ Home /\ Issue
  <2>1. Missing(c)' \subseteq Missing(c) /\ Eating(c)' \subseteq Eating(c)
        /\ Eating(c) \subseteq Eating(c)' \cup {r}
    BY <1>c DEF Missing, Eating
  <2>2. \A q \in Eating(c)' \cup Missing(c)' : req'[q].number = req[q].number
    BY <1>c DEF Missing, Eating
  <2>3. Homes(c)' \subseteq Homes(c)
    BY <1>c, <2>1, <2>2 DEF Homes
  <2>4. Kept(c)
    BY <1>c, <2>1 DEF Kept, SameScore, Stored
  <2> QED
    BY <1>c, <2>3, <2>4
<1>d. ASSUME NEW r \in Reqs, Finish(r)
      PROVE  \A q \in Reqs : IF q = r THEN req'[q].pc = "idle" ELSE req'[q] = req[q]
  BY <1>0, <1>d DEF Finish, Idle
<1>e. ASSUME NEW n \in Numbers, DelOTP(n)
      PROVE  \A k \in Numbers : IF k = n THEN otp'[k] = NoOTP ELSE otp'[k] = otp[k]
  BY <1>0, <1>e DEF DelOTP
<1>1. ASSUME NEW r \in Reqs, NEW u \in Users, NEW n \in Numbers, SendCheck(r, u, n)
      PROVE  Step /\ Home /\ Issue
  <2>1. UNCHANGED <<tried, accepted, issued, otp>> /\ faults' >= faults
    BY <1>0, <1>1 DEF SendCheck, Fault, history
  <2>2. \A q \in Reqs : req'[q] = req[q] \/ (req'[q].pc = "store" /\ req[q].pc = "idle")
    BY <1>0, <1>1 DEF SendCheck, Start, At
  <2> QED
    BY <1>b, <2>1, <2>2
<1>2. ASSUME NEW r \in Reqs, NEW d \in Codes, StoreOTP(r, d)
      PROVE  Step /\ Home /\ Issue
  <2>1. req[r].number \in Numbers /\ req[r].pc = "store"
    BY <1>0, <1>2 DEF StoreOTP, At
  <2>2. \A n \in Numbers : IF n = req[r].number THEN otp'[n].code = d ELSE otp'[n] = otp[n]
    BY <1>0, <1>2 DEF StoreOTP
  <2>3. \A q \in Reqs : IF q = r THEN req'[q].pc = "idle" ELSE req'[q] = req[q]
    BY <1>2, <1>d DEF StoreOTP
  <2>4. /\ UNCHANGED <<tried, accepted, faults>> /\ issued' = issued \cup {d}
        /\ d \notin issued
    BY <1>2 DEF StoreOTP
  <2>5. CASE d # c
    BY <1>0, <1>b, <2>1, <2>2, <2>3, <2>4, <2>5
  <2>6. CASE d = c
    <3>1. Homes(c) = {} /\ accepted[c] = 0
      BY <2>4, <2>6 DEF HomesInv
    <3>2. Eating(c) = {} /\ Missing(c) = {} /\ \A n \in Numbers : otp[n].code # c
      BY <3>1 DEF Homes
    <3>3. Eating(c)' = {} /\ Missing(c)' = {}
      BY <2>3, <3>2 DEF Eating, Missing
    <3>4. Homes(c)' \subseteq {req[r].number}
      BY <2>2, <3>2, <3>3 DEF Homes
    <3>5. Unused(c)
      BY <2>4, <3>1, <3>3 DEF Unused
    <3> QED
      BY <2>1, <2>4, <2>6, <3>1, <3>4, <3>5
  <2> QED
    BY <2>5, <2>6
<1>3. ASSUME NEW r \in Reqs, NEW u \in Users, NEW n \in Numbers, NEW right \in BOOLEAN,
             VerifyRead(r, u, n, right)
      PROVE  Step /\ Home /\ Issue
  <2> DEFINE v == Verdict(otp[n], right)
             d == otp[n].code
  <2>1. /\ otp[n] \in MobileOTPData /\ d \in Codes /\ req[r].pc = "idle"
        /\ UNCHANGED <<otp, faults, issued>>
    BY <1>0, <1>3 DEF VerifyRead, MobileOTPData, At
  <2>2. v \in {"discard", "consume", "miss"}
    BY DEF Verdict
  <2>3. /\ \A q \in Reqs : q # r => req'[q] = req[q]
        /\ req'[r].pc = v /\ req'[r].number = n /\ req'[r].read = otp[n]
    BY <1>0, <1>3 DEF VerifyRead, Start
  <2>4. /\ tried' = IF v = "miss" THEN [tried EXCEPT ![d] = @ + 1] ELSE tried
        /\ accepted' = IF v = "consume" THEN [accepted EXCEPT ![d] = @ + 1] ELSE accepted
    BY <1>3 DEF VerifyRead
  <2> HIDE DEF v
  <2>5. CASE d # c
    <3>1. accepted'[c] = accepted[c] /\ tried'[c] = tried[c]
      BY <1>0, <2>1, <2>4, <2>5
    <3>2. Missing(c)' = Missing(c) /\ Eating(c)' = Eating(c)
      BY <2>1, <2>3, <2>5 DEF Missing, Eating
    <3>3. \A q \in Eating(c) \cup Missing(c) : req'[q] = req[q]
      BY <2>1, <2>3 DEF Missing, Eating
    <3>4. Homes(c)' = Homes(c)
      BY <2>1, <3>2, <3>3 DEF Homes
    <3>5. Kept(c)
      BY <1>0, <2>1, <3>1, <3>2 DEF Kept, SameScore, Stored
    <3> QED
      BY <2>1, <3>1, <3>4, <3>5
  <2>6. CASE d = c
    <3>1. Stored(c) /\ Stored(c)' /\ n \in Homes(c)
      BY <2>1, <2>6 DEF Stored, Homes
    <3>2. \A q \in Eating(c)' \cup Missing(c)' :
             \/ q \in Eating(c) \cup Missing(c) /\ req'[q].number = req[q].number
             \/ req'[q].number = n
      BY <2>3 DEF Eating, Missing
    <3>3. Homes(c)' \subseteq Homes(c)
      BY <2>1, <3>1, <3>2 DEF Homes
    <3>4. c \in issued
      BY <3>1 DEF HomesInv
    <3>5. r \notin Eating(c) /\ r \notin Missing(c)
      BY <2>1 DEF Eating, Missing
    <3>6. CASE v = "consume"
      <4>1. accepted'[c] = accepted[c] + 1 /\ tried'[c] = tried[c]
        BY <1>0, <2>4, <2>6, <3>6
      <4>2. Missing(c)' \subseteq Missing(c) /\ r \in Eating(c)'
            /\ Eating(c) \subseteq Eating(c)' \ {r}
        BY <2>1, <2>3, <2>6, <3>5, <3>6 DEF Eating, Missing
      <4>3. GuessedRight(c)
        BY <2>1, <3>1, <4>1, <4>2 DEF GuessedRight
      <4> QED
        BY <2>1, <3>3, <3>4, <4>3
    <3>7. CASE v = "miss"
      <4>1. accepted'[c] = accepted[c] /\ tried'[c] = tried[c] + 1
        BY <1>0, <2>4, <2>6, <3>7
      <4>2. Missing(c)' \subseteq Missing(c) \cup {r} /\ Eating(c) \subseteq Eating(c)'
        BY <2>1, <2>3, <3>5 DEF Eating, Missing
      <4>3. GuessedWrong(c)
        BY <2>1, <3>1, <4>1, <4>2 DEF GuessedWrong
      <4> QED
        BY <2>1, <3>3, <3>4, <4>3
    <3>8. CASE v = "discard"
      <4>1. Missing(c)' \subseteq Missing(c) /\ Eating(c) \subseteq Eating(c)'
        BY <2>1, <2>3, <3>5, <3>8 DEF Eating, Missing
      <4>2. Kept(c)
        BY <1>0, <2>1, <2>4, <3>1, <3>8, <4>1 DEF Kept, SameScore
      <4> QED
        BY <2>1, <3>3, <3>4, <4>2
    <3> QED
      BY <2>2, <3>6, <3>7, <3>8
  <2> QED
    BY <2>5, <2>6
<1>4. ASSUME NEW r \in Reqs, Discard(r) PROVE Step /\ Home /\ Issue
  <2>1. /\ req[r].pc = "discard" /\ req[r].number \in Numbers
        /\ UNCHANGED <<tried, accepted, issued>>
    BY <1>0, <1>4 DEF Discard, At, history
  <2>2. \A q \in Reqs : IF q = r THEN req'[q].pc = "idle" ELSE req'[q] = req[q]
    BY <1>4, <1>d DEF Discard
  <2>3. CASE DelOTP(req[r].number) /\ UNCHANGED faults
    BY <1>0, <1>a, <1>b, <1>e, <2>1, <2>2, <2>3
  <2>4. CASE UNCHANGED otp /\ Fault
    BY <1>c, <2>1, <2>2, <2>4 DEF Fault
  <2> QED
    BY <1>4, <2>3, <2>4 DEF Discard
<1>5. ASSUME NEW r \in Reqs, Miss(r) PROVE Step /\ Home /\ Issue
  <2> DEFINE n == req[r].number
  <2>1. /\ req[r].pc = "miss" /\ n \in Numbers /\ req[r].read \in MobileOTPData
        /\ UNCHANGED <<tried, accepted, issued>>
    BY <1>0, <1>5 DEF Miss, At, history
  <2>2. \A q \in Reqs : IF q = r THEN req'[q].pc = "idle" ELSE req'[q] = req[q]
    BY <1>5, <1>d DEF Miss
  <2>3. CASE UNCHANGED otp /\ Fault
    BY <1>c, <2>1, <2>2, <2>3 DEF Fault
  <2>4. CASE /\ otp' = [otp EXCEPT ![n] = CountedMiss(req[r].read)]
             /\ UNCHANGED faults
    <3>1. CountedMiss(req[r].read).code = req[r].read.code
      BY <1>0, <2>1, MissType
    <3>2. \A k \in Numbers : IF k = n THEN otp'[k].code = req[r].read.code
                                      ELSE otp'[k] = otp[k]
      BY <1>0, <2>4, <3>1
    <3>3. CASE req[r].read.code # c
      BY <1>0, <1>b, <2>1, <2>2, <2>4, <3>2, <3>3
    <3>4. CASE req[r].read.code = c
      <4>1. r \in Missing(c) /\ n \in Homes(c)
        BY <2>1, <3>4 DEF Missing, Homes
      <4>2. Missing(c)' \subseteq Missing(c) \ {r} /\ Eating(c)' = Eating(c)
        BY <2>1, <2>2 DEF Missing, Eating
      <4>3. Stored(c)'
        BY <2>1, <3>2, <3>4 DEF Stored
      <4>4. \A q \in Eating(c)' \cup Missing(c)' :
               q \in Eating(c) \cup Missing(c) /\ req'[q].number = req[q].number
        BY <2>2 DEF Eating, Missing
      <4>5. Homes(c)' \subseteq Homes(c)
        BY <3>2, <4>1, <4>4 DEF Homes
      <4>6. WrittenBack(c)
        BY <2>1, <2>4, <4>1, <4>2, <4>3 DEF WrittenBack, SameScore
      <4> QED
        BY <2>1, <4>5, <4>6
    <3> QED
      BY <3>3, <3>4
  <2> QED
    BY <1>5, <2>3, <2>4 DEF Miss
<1>6. ASSUME NEW r \in Reqs, Consume(r) PROVE Step /\ Home /\ Issue
  <2> DEFINE n == req[r].number
  <2>1. /\ req[r].pc = "consume" /\ n \in Numbers /\ req[r].read \in MobileOTPData
        /\ UNCHANGED <<tried, accepted, issued>>
    BY <1>0, <1>6 DEF Consume, At, history
  <2>2. \A q \in Reqs : IF q = r THEN req'[q].pc = "upsert" ELSE req'[q] = req[q]
    BY <1>0, <1>6 DEF Consume, Request
  <2>3. CASE UNCHANGED otp /\ Fault
    BY <1>c, <2>1, <2>2, <2>3 DEF Fault
  <2>4. CASE DelOTP(n) /\ UNCHANGED faults
    <3>1. \A k \in Numbers : IF k = n THEN otp'[k] = NoOTP ELSE otp'[k] = otp[k]
      BY <1>e, <2>1, <2>4
    <3>2. CASE req[r].read.code # c
      BY <1>0, <1>a, <1>b, <2>1, <2>2, <2>4, <3>1, <3>2
    <3>3. CASE req[r].read.code = c
      <4>1. n \in Homes(c)
        BY <2>1, <3>3 DEF Eating, Homes
      <4>2. \A k \in Numbers : otp[k].code = c => k = n
        BY <4>1 DEF Homes, HomesInv
      <4>3. ~Stored(c)'
        BY <1>a, <3>1, <4>2 DEF Stored
      <4>4. Missing(c)' \subseteq Missing(c)
        BY <2>2 DEF Missing
      <4>5. \A q \in Eating(c)' \cup Missing(c)' :
               q \in Eating(c) \cup Missing(c) /\ req'[q].number = req[q].number
        BY <2>2 DEF Eating, Missing
      <4>6. Homes(c)' \subseteq Homes(c)
        BY <1>a, <3>1, <4>5 DEF Homes
      <4>7. Lost(c)
        BY <1>0, <2>1, <2>4, <4>3, <4>4 DEF Lost, SameScore
      <4> QED
        BY <2>1, <4>6, <4>7
    <3> QED
      BY <3>2, <3>3
  <2> QED
    BY <1>6, <2>3, <2>4 DEF Consume
<1>7. ASSUME NEW r \in Reqs, Upsert(r) \/ MarkPrimary(r) PROVE Step /\ Home /\ Issue
  <2>1. /\ req[r].pc \in {"upsert", "mark"}
        /\ UNCHANGED <<tried, accepted, issued, otp, faults>>
    BY <1>7 DEF Upsert, MarkPrimary, At, history
  <2>2. \A q \in Reqs : IF q = r THEN req'[q].pc = "idle" ELSE req'[q] = req[q]
    BY <1>7, <1>d DEF Upsert, MarkPrimary
  <2> QED
    BY <1>0, <1>b, <2>1, <2>2
<1>8. ASSUME NEW r \in Reqs, NEW u \in Users, NEW n \in Numbers, ClearPrimary(r, u, n)
      PROVE  Step /\ Home /\ Issue
  <2>1. UNCHANGED <<tried, accepted, issued, otp, faults>>
    BY <1>8 DEF ClearPrimary, history
  <2>2. \A q \in Reqs : req'[q] = req[q] \/ (req'[q].pc = "mark" /\ req[q].pc = "idle")
    BY <1>0, <1>8 DEF ClearPrimary, Start, At
  <2> QED
    BY <1>0, <1>b, <2>1, <2>2
<1>9. ASSUME NEW r \in Reqs, Abort(r) PROVE Step /\ Home /\ Issue
  <2>1. UNCHANGED <<tried, accepted, issued, otp>> /\ faults' = faults + 1
    BY <1>9 DEF Abort, Fault, history
  <2>2. \A q \in Reqs : IF q = r THEN req'[q].pc = "idle" ELSE req'[q] = req[q]
    BY <1>9, <1>d DEF Abort
  <2> QED
    BY <1>c, <2>1, <2>2
<1>10. ASSUME NEW n \in Numbers, OTPExpires(n) PROVE Step /\ Home /\ Issue
  <2>1. UNCHANGED <<tried, accepted, issued, req, faults>> /\ DelOTP(n)
    BY <1>10 DEF OTPExpires, history
  <2> QED
    BY <1>0, <1>a, <1>b, <1>e, <2>1
<1>11. ASSUME \/ \E u \in Users, n \in Numbers : Delete(u, n)
              \/ UNCHANGED vars
       PROVE  Step /\ Home /\ Issue
  <2>1. UNCHANGED <<tried, accepted, issued, otp, req, faults>>
    BY <1>11 DEF Delete, vars, history
  <2> QED
    BY <1>0, <1>b, <2>1
<1>12. Step /\ Home /\ Issue
  <2> HIDE DEF Step, Home, Issue
  <2> QED
    BY <1>1, <1>2, <1>3, <1>4, <1>5, <1>6, <1>7, <1>8, <1>9, <1>10, <1>11
       DEF Next, SendOTP, VerifyOTP, SetPrimary
<1> QED
  BY <1>12

\* Multiplication over the counts.
LEMMA Products ==
    ASSUME NEW k \in Nat, NEW x \in Nat, NEW y \in Nat
    PROVE  /\ k * x \in Nat /\ k * (x + 1) = k * x + k
           /\ x <= y => k * x <= k * y
           /\ x + 1 <= y => k * x + k <= k * y
<1>1. ASSUME NEW a \in Nat, NEW b \in Nat PROVE k * (a + b) = k * a + k * b
  OBVIOUS
<1>2. ASSUME NEW a \in Nat PROVE k * a \in Nat
  OBVIOUS
<1>3. k * (x + 1) = k * x + k
  OBVIOUS
<1>4. ASSUME x <= y PROVE k * x <= k * y
  <2>1. y - x \in Nat /\ y = x + (y - x)
    BY <1>4
  <2>2. k * y = k * x + k * (y - x)
    BY <1>1, <2>1
  <2>3. k * (y - x) \in Nat /\ k * x \in Nat
    BY <1>2, <2>1
  <2> QED
    BY <2>2, <2>3
<1>5. ASSUME x + 1 <= y PROVE k * x + k <= k * y
  <2>1. y - (x + 1) \in Nat /\ y = (x + 1) + (y - (x + 1)) /\ x + 1 \in Nat
    BY <1>5
  <2>2. k * y = k * (x + 1) + k * (y - (x + 1))
    BY <1>1, <2>1
  <2>3. k * (y - (x + 1)) \in Nat /\ k * x \in Nat
    BY <1>2, <2>1
  <2> QED
    BY <1>3, <2>2, <2>3
<1> QED
  BY <1>2, <1>3, <1>4, <1>5

\* The accounts of a code through each kind of step: acceptances and held
\* guesses (a + p) against wrong guesses, accepting requests and faults.
LEMMA UnusedSums ==
    ASSUME NEW a \in Nat, NEW p \in Nat, a = 0, p = 0,
           NEW t \in Nat, NEW e \in Nat, NEW k \in Nat, NEW z \in Nat, NEW f \in Nat
    PROVE  a + p <= t + e + f /\ a + p <= t + k + z + f
  OBVIOUS

\* A stored code that nothing happens to.
LEMMA KeptStored ==
    ASSUME NEW a \in Nat, NEW p \in Nat, NEW t \in Nat, NEW e \in Nat, NEW f \in Nat,
           NEW p1 \in Nat, NEW e1 \in Nat, NEW f1 \in Nat,
           a + p <= t + e + f, p1 <= p, e + f <= e1 + f1
    PROVE  a + p1 <= t + e1 + f1
  OBVIOUS

\* A code that is not stored, or no longer.
LEMMA KeptAbsent ==
    ASSUME NEW a \in Nat, NEW p \in Nat, NEW t \in Nat, NEW k \in Nat, NEW z \in Nat,
           NEW f \in Nat, NEW p1 \in Nat, NEW z1 \in Nat, NEW f1 \in Nat,
           a + p <= t + k + z + f, p1 <= p, z <= z1, f <= f1
    PROVE  a + p1 <= t + k + z1 + f1
  OBVIOUS

\* A stored code that goes.
LEMMA LostStored ==
    ASSUME NEW a \in Nat, NEW p \in Nat, NEW t \in Nat, NEW k \in Nat, NEW z \in Nat,
           NEW f \in Nat, NEW e \in Nat,
           a + p <= t + e + f, e <= k + z
    PROVE  a + p <= t + k + z + f
  OBVIOUS

\* A wrong guess at a stored code.
LEMMA WrongStored ==
    ASSUME NEW a \in Nat, NEW p \in Nat, NEW t \in Nat, NEW e \in Nat, NEW f \in Nat,
           NEW p1 \in Nat, NEW e1 \in Nat, NEW t1 \in Nat, NEW k \in Nat,
           a + p <= t + e + f, p1 <= p + k, e <= e1, t1 = t + k
    PROVE  a + p1 <= t1 + e1 + f
  OBVIOUS

\* A stored code that is accepted.
LEMMA RightStored ==
    ASSUME NEW a \in Nat, NEW p \in Nat, NEW t \in Nat, NEW e \in Nat, NEW f \in Nat,
           NEW p1 \in Nat, NEW e1 \in Nat, NEW a1 \in Nat,
           a + p <= t + e + f, p1 <= p, e + 1 <= e1, a1 = a + 1
    PROVE  a1 + p1 <= t + e1 + f
  OBVIOUS

\* A code that was not stored is written back.
LEMMA BackAbsent ==
    ASSUME NEW a \in Nat, NEW p \in Nat, NEW t \in Nat, NEW k \in Nat, NEW f \in Nat,
           NEW p1 \in Nat, NEW e1 \in Nat,
           a + p <= t + k + 0 + f, p1 + k <= p
    PROVE  a + p1 <= t + e1 + f
  OBVIOUS

\* The requests counted here are requests in flight, each counted once.
LEMMA CodeFinite ==
    ASSUME NEW c \in Codes
    PROVE  /\ IsFiniteSet(Missing(c)) /\ IsFiniteSet(Eating(c))
           /\ Cardinality(Missing(c)) \in Nat /\ Cardinality(Eating(c)) \in Nat
           /\ Others \in Nat
           /\ Cardinality(Eating(c)) <= Others + (IF Missing(c) = {} THEN 1 ELSE 0)
           /\ Missing(c) = {} => Cardinality(Missing(c)) = 0
<1>1. IsFiniteSet(Reqs) /\ Cardinality(Reqs) \in Nat /\ Cardinality(Reqs) >= 1
  BY MobileAssumption, FS_CardinalityType, FS_EmptySet
<1>2. Missing(c) \subseteq Reqs /\ Eating(c) \subseteq Reqs
  BY DEF Missing, Eating
<1>3. /\ IsFiniteSet(Missing(c)) /\ IsFiniteSet(Eating(c))
      /\ Cardinality(Missing(c)) \in Nat /\ Cardinality(Eating(c)) \in Nat
      /\ Cardinality(Eating(c)) <= Cardinality(Reqs)
  BY <1>1, <1>2, CountLess
<1>4. ASSUME NEW r \in Missing(c) PROVE Cardinality(Eating(c)) + 1 <= Cardinality(Reqs)
  <2>1. r \in Reqs /\ Eating(c) \subseteq Reqs \ {r}
    BY DEF Missing, Eating
  <2> QED
    BY <1>1, <2>1, CountDrops
<1>5. Missing(c) = {} => Cardinality(Missing(c)) = 0
  BY FS_EmptySet
<1>6. Others \in Nat /\ Cardinality(Reqs) = Others + 1
  BY <1>1 DEF Others
<1> QED
  BY <1>3, <1>4, <1>5, <1>6

\* The home of a code never changes.
LEMMA NextHomes == TInv /\ HomesInv /\ [Next]_vars => HomesInv'
<1> SUFFICES ASSUME TInv, HomesInv, [Next]_vars, NEW c \in Codes
             PROVE  /\ c \notin issued' => Homes(c)' = {} /\ accepted'[c] = 0
                    /\ \A n, k \in Homes(c)' : n = k
  BY DEF HomesInv
<1>1. /\ c \notin issued => Homes(c) = {} /\ accepted[c] = 0
      /\ \A n, k \in Homes(c) : n = k
  BY DEF HomesInv
<1>2. /\ \/ Homes(c)' \subseteq Homes(c)
         \/ /\ Homes(c) = {} /\ c \in issued'
            /\ \E n \in Numbers : Homes(c)' \subseteq {n}
      /\ c \notin issued' =>
            c \notin issued /\ (Homes(c) = {} => accepted'[c] = accepted[c])
  BY CodeStep
<1> QED
  BY <1>1, <1>2

\* The accounts of a code stay balanced.
LEMMA NextAccept == TInv /\ HomesInv /\ AcceptInv /\ [Next]_vars => AcceptInv'
<1> SUFFICES ASSUME TInv, HomesInv, AcceptInv, [Next]_vars, NEW c \in Codes
             PROVE  /\ Stored(c)' =>
                          accepted'[c] + Others * Cardinality(Missing(c)')
                              <= Others * tried'[c] + Cardinality(Eating(c)') + faults'
                    /\ ~Stored(c)' =>
                          accepted'[c] + Others * Cardinality(Missing(c)')
                              <= Others * tried'[c] + Others
                                   + (IF Missing(c)' = {} THEN 1 ELSE 0) + faults'
  BY DEF AcceptInv, Others
<1> DEFINE A == accepted[c]                A1 == accepted'[c]
           T == tried[c]                   T1 == tried'[c]
           M == Cardinality(Missing(c))    M1 == Cardinality(Missing(c)')
           E == Cardinality(Eating(c))     E1 == Cardinality(Eating(c)')
           Z == IF Missing(c) = {} THEN 1 ELSE 0
           Z1 == IF Missing(c)' = {} THEN 1 ELSE 0
           K == Others
           S == Stored(c)                  S1 == Stored(c)'
           KM == K * M   KM1 == K * M1   KT == K * T   KT1 == K * T1
<1>1. /\ S => A + KM <= KT + E + faults
      /\ ~S => A + KM <= KT + K + Z + faults
  BY DEF AcceptInv
<1>2. M \in Nat /\ E \in Nat /\ K \in Nat /\ E <= K + Z /\ (Z = 1 => M = 0)
  BY CodeFinite
<1>3. IsFiniteSet(Missing(c)) /\ IsFiniteSet(Eating(c))
  BY CodeFinite
<1>4. M1 \in Nat /\ E1 \in Nat /\ IsFiniteSet(Eating(c)') /\ (Z1 = 1 => M1 = 0)
  <2>1. Missing(c)' \subseteq Reqs /\ Eating(c)' \subseteq Reqs
    BY DEF Missing, Eating
  <2>2. Missing(c)' = {} => Cardinality(Missing(c)') = 0
    BY FS_EmptySet
  <2> QED
    BY <2>1, <2>2, CountLess, MobileAssumption
<1>5. /\ A \in Nat /\ A1 \in Nat /\ T \in Nat /\ T1 \in Nat
      /\ faults \in Nat /\ faults' \in Nat
  BY NextTInv DEF TInv, TypeOK
<1>6. Z \in Nat /\ Z1 \in Nat
  OBVIOUS
<1>7. KM \in Nat /\ KM1 \in Nat /\ KT \in Nat /\ KT1 \in Nat
  BY <1>2, <1>4, <1>5, Products
<1> DEFINE Goal == /\ S1 => A1 + KM1 <= KT1 + E1 + faults'
                   /\ ~S1 => A1 + KM1 <= KT1 + K + Z1 + faults'
<1>8. ASSUME Unused(c) PROVE Goal
  <2>1. A1 = 0 /\ Z1 = 1 /\ M1 = 0
    BY <1>8, <1>4 DEF Unused
  <2>2. KM1 = 0
    BY <1>2, <2>1
  <2> HIDE DEF A, A1, T, T1, M, M1, E, E1, Z, Z1, K, KM, KM1, KT, KT1
  <2>3. A1 + KM1 <= KT1 + E1 + faults'
    BY <1>4, <1>5, <1>7, <2>1, <2>2, UnusedSums
  <2>4. A1 + KM1 <= KT1 + K + Z1 + faults'
    BY <1>2, <1>5, <1>6, <1>7, <2>1, <2>2, UnusedSums
  <2> QED
    BY <2>3, <2>4
<1>9. ASSUME Missing(c)' \subseteq Missing(c)
      PROVE  M1 <= M /\ KM1 <= KM /\ Z <= Z1
  <2>1. M1 <= M
    BY <1>3, <1>9, CountLess
  <2>2. Z <= Z1
    BY <1>9
  <2> QED
    BY <1>2, <1>4, <2>1, <2>2, Products
<1>10. ASSUME Kept(c) PROVE Goal
  <2>1. A1 = A /\ T1 = T /\ (S1 <=> S) /\ KM1 <= KM /\ Z <= Z1
    <3>1. SameScore(c) /\ (Stored(c)' <=> Stored(c)) /\ Missing(c)' \subseteq Missing(c)
      BY <1>10 DEF Kept
    <3> QED
      BY <1>9, <3>1 DEF SameScore
  <2>2. E + faults <= E1 + faults' /\ faults <= faults'
    <3>1. CASE faults' >= faults /\ Eating(c) \subseteq Eating(c)'
      <4>1. E <= E1
        BY <1>4, <3>1, CountLess
      <4> QED
        BY <1>2, <1>4, <1>5, <3>1, <4>1
    <3>2. CASE /\ faults' = faults + 1
               /\ \E r \in Reqs : Eating(c) \subseteq Eating(c)' \cup {r}
      <4>1. E <= E1 + 1
        BY <1>4, <3>2, CountGrows
      <4> QED
        BY <1>2, <1>4, <1>5, <3>2, <4>1
    <3> QED
      BY <1>10, <3>1, <3>2 DEF Kept
  <2> HIDE DEF A, A1, T, T1, M, M1, E, E1, Z, Z1, K, KM, KM1, KT, KT1
  <2>3. ASSUME S PROVE A1 + KM1 <= KT1 + E1 + faults'
    <3>1. A + KM <= KT + E + faults /\ KT1 = KT
      BY <1>1, <2>1, <2>3 DEF KT, KT1
    <3> QED
      BY <1>2, <1>4, <1>5, <1>7, <2>1, <2>2, <3>1, KeptStored
  <2>4. ASSUME ~S PROVE A1 + KM1 <= KT1 + K + Z1 + faults'
    <3>1. A + KM <= KT + K + Z + faults /\ KT1 = KT
      BY <1>1, <2>1, <2>4 DEF KT, KT1
    <3> QED
      BY <1>2, <1>6, <1>5, <1>7, <2>1, <2>2, <3>1, KeptAbsent
  <2> QED
    BY <2>1, <2>3, <2>4
<1>11. ASSUME Lost(c) PROVE Goal
  <2>1. A1 = A /\ T1 = T /\ ~S1 /\ KM1 <= KM /\ Z <= Z1 /\ faults <= faults'
    BY <1>9, <1>11, <1>5 DEF Lost, SameScore
  <2> HIDE DEF A, A1, T, T1, M, M1, E, E1, Z, Z1, K, KM, KM1, KT, KT1
  <2>2. A + KM <= KT + K + Z + faults
    BY <1>1, <1>2, <1>5, <1>6, <1>7, LostStored
  <2>3. A1 + KM1 <= KT1 + K + Z1 + faults'
    <3>1. KT1 = KT
      BY <2>1 DEF KT, KT1
    <3> QED
      BY <1>2, <1>5, <1>6, <1>7, <2>1, <2>2, <3>1, KeptAbsent
  <2> QED
    BY <2>1, <2>3
<1>12. ASSUME GuessedWrong(c) PROVE Goal
  <2>1. A1 = A /\ T1 = T + 1 /\ S /\ S1 /\ faults' = faults
    BY <1>12 DEF GuessedWrong
  <2>2. E <= E1
    BY <1>4, <1>12, CountLess DEF GuessedWrong
  <2>3. M1 <= M + 1
    BY <1>3, <1>12, CountGrows DEF GuessedWrong
  <2>4. KT1 = KT + K
    BY <1>2, <1>5, <2>1, Products
  <2>5. KM1 <= KM + K
    <3>1. K * (M + 1) = KM + K /\ M + 1 \in Nat
      BY <1>2, Products
    <3>2. KM1 <= K * (M + 1)
      BY <1>2, <1>4, <2>3, <3>1, Products
    <3> QED
      BY <3>1, <3>2
  <2> HIDE DEF A, A1, T, T1, M, M1, E, E1, Z, Z1, K, KM, KM1, KT, KT1
  <2>6. A1 + KM1 <= KT1 + E1 + faults'
    <3>1. A + KM <= KT + E + faults
      BY <1>1, <2>1
    <3> QED
      BY <1>2, <1>4, <1>5, <1>7, <2>1, <2>2, <2>4, <2>5, <3>1, WrongStored
  <2> QED
    BY <2>1, <2>6
<1>13. ASSUME GuessedRight(c) PROVE Goal
  <2>1. A1 = A + 1 /\ T1 = T /\ S /\ S1 /\ faults' = faults /\ KM1 <= KM
    BY <1>9, <1>13 DEF GuessedRight
  <2>2. E + 1 <= E1
    BY <1>4, <1>13, CountDrops DEF GuessedRight
  <2> HIDE DEF A, A1, T, T1, M, M1, E, E1, Z, Z1, K, KM, KM1, KT, KT1
  <2>3. A1 + KM1 <= KT1 + E1 + faults'
    <3>1. A + KM <= KT + E + faults /\ KT1 = KT
      BY <1>1, <2>1 DEF KT, KT1
    <3> QED
      BY <1>2, <1>4, <1>5, <1>7, <2>1, <2>2, <3>1, RightStored
  <2> QED
    BY <2>1, <2>3
<1>14. ASSUME WrittenBack(c) PROVE Goal
  <2>1. A1 = A /\ T1 = T /\ S1 /\ faults' = faults
    BY <1>14 DEF WrittenBack, SameScore
  <2>2. E <= E1
    BY <1>4, <1>14, CountLess DEF WrittenBack
  <2>3. PICK r \in Missing(c) : Missing(c)' \subseteq Missing(c) \ {r}
    BY <1>14 DEF WrittenBack
  <2>4. M1 + 1 <= M
    BY <1>3, <2>3, CountDrops
  <2>5. KM1 + K <= KM
    BY <1>2, <1>4, <2>4, Products
  <2>6. Z = 0
    BY <2>3
  <2> HIDE DEF A, A1, T, T1, M, M1, E, E1, Z, Z1, K, KM, KM1, KT, KT1
  <2>7. A1 + KM1 <= KT1 + E1 + faults'
    <3>1. KT1 = KT
      BY <2>1 DEF KT, KT1
    <3>2. CASE S
      <4>1. A + KM <= KT + E + faults /\ KM1 <= KM /\ E + faults <= E1 + faults'
        BY <1>1, <1>2, <1>4, <1>5, <1>7, <2>1, <2>2, <2>5, <3>2
      <4> QED
        BY <1>2, <1>4, <1>5, <1>7, <2>1, <3>1, <4>1, KeptStored
    <3>3. CASE ~S
      <4>1. A + KM <= KT + K + 0 + faults
        BY <1>1, <2>6, <3>3
      <4> QED
        BY <1>2, <1>4, <1>5, <1>7, <2>1, <2>5, <3>1, <4>1, BackAbsent
    <3> QED
      BY <3>2, <3>3
  <2> QED
    BY <2>1, <2>7
<1>15. Goal
  <2> HIDE DEF Goal
  <2> QED
    BY <1>8, <1>10, <1>11, <1>12, <1>13, <1>14, CodeStep
<1> QED
  BY <1>15

\* No code has been drawn at the start.
LEMMA InitAccept == AtRest => HomesInv /\ AcceptInv
<1> SUFFICES ASSUME AtRest, NEW c \in Codes
             PROVE  /\ Homes(c) = {} /\ accepted[c] = 0 /\ ~Stored(c)
                    /\ accepted[c] + Others * Cardinality(Missing(c))
                           <= Others * tried[c] + Others
                                + (IF Missing(c) = {} THEN 1 ELSE 0) + faults
  BY DEF HomesInv, AcceptInv
<1>1. Eating(c) = {} /\ Missing(c) = {} /\ ~Stored(c)
  BY MobileAssumption DEF AtRest, Eating, Missing, Stored, Idle, NoOTP
<1>2. Homes(c) = {}
  BY <1>1 DEF Homes, Stored
<1>3. accepted[c] = 0 /\ tried[c] = 0 /\ faults = 0 /\ Others \in Nat
      /\ Cardinality(Missing(c)) = 0
  BY <1>1, CodeFinite DEF AtRest
<1>4. Others * 0 = 0
  BY <1>3
<1> QED
  BY <1>1, <1>2, <1>3, <1>4

\* The requests that will write a code back, or delete it, leave the bound on how often it
\* was accepted.
LEMMA AcceptBound == TInv /\ AcceptInv => AcceptBudget
<1> SUFFICES ASSUME TInv, AcceptInv, NEW c \in Codes
             PROVE  accepted[c] <= 1 + (Cardinality(Reqs) - 1) * (tried[c] + 1) + faults
  BY DEF AcceptBudget
<1> DEFINE A == accepted[c]   T == tried[c]   K == Others
           M == Cardinality(Missing(c))   E == Cardinality(Eating(c))
           Z == IF Missing(c) = {} THEN 1 ELSE 0
<1>1. A \in Nat /\ T \in Nat /\ faults \in Nat
  BY DEF TInv, TypeOK
<1>2. M \in Nat /\ E \in Nat /\ K \in Nat /\ E <= K + Z /\ Z \in {0, 1}
  BY CodeFinite
<1>3. K * M \in Nat /\ K * T \in Nat /\ K * (T + 1) = K * T + K
  BY <1>1, <1>2, Products
<1>4. A + K * M <= K * T + E + faults \/ A + K * M <= K * T + K + Z + faults
  BY DEF AcceptInv
<1> HIDE DEF A, T, K, M, E, Z
<1>5. A <= 1 + K * (T + 1) + faults
  BY <1>1, <1>2, <1>3, <1>4
<1> QED
  BY <1>5 DEF A, K, T, Others

\* A code is accepted once, and again only by requests that overlapped with the
\* first or with a wrong guess, or after a fault.
THEOREM AcceptIsBounded == Spec => []AcceptBudget
  BY AcceptBound, InitAtRest, InitTInv, NextTInv, InitAccept, NextHomes, NextAccept, PTL DEF Spec
-----------------------------------------------------------------------------
(* How many wrong guesses a code stands: the ways counts and requests line up *)

\* The counts at which a guess is still compared.
Counts == 0..(OtpMaxAttempts - 1)

\* Rows of numbers of requests, one for each count, that never fall.
Histories ==
    {f \in [Counts -> 0..Cardinality(Reqs)] : \A y, z \in Counts : y <= z => f[y] <= f[z]}

\* Where a row stands when the counts and the requests are lined up.
Marks(f) == {f[y] + y + 1 : y \in Counts}

\* Every set of numbers that is not empty has a least one.
LEMMA LeastNumber ==
    ASSUME NEW T \in SUBSET Nat, NEW x \in T
    PROVE  \E m \in T : \A k \in T : m <= k
<1> DEFINE F == {0..k : k \in T}
           R == StrictSubsetOrdering(Nat)
<1>1. F \subseteq FiniteSubsetsOf(Nat) /\ F # {}
  <2>1. ASSUME NEW k \in T PROVE 0..k \subseteq Nat /\ IsFiniteSet(0..k)
    BY FS_Interval
  <2> QED
    BY <2>1 DEF FiniteSubsetsOf
<1>2. PICK s \in F : \A t \in F : ~(<<t, s>> \in R)
  <2>1. IsWellFoundedOn(R, FiniteSubsetsOf(Nat))
    BY FS_StrictSubsetOrderingWellFounded
  <2> HIDE DEF F, R
  <2> QED
    BY <1>1, <2>1, WFMin
<1>3. PICK m \in T : s = 0..m
  BY <1>2
<1>4. ASSUME NEW k \in T, k < m PROVE FALSE
  <2>0. k \in Nat /\ m \in Nat /\ 0..k \in F
    OBVIOUS
  <2> HIDE DEF F
  <2>1. 0..k \subseteq 0..m /\ m \in 0..m /\ m \notin 0..k
    BY <1>4, <2>0
  <2>2. <<0..k, s>> \in R
    <3>1. 0..k \in SUBSET Nat /\ 0..m \in SUBSET Nat /\ 0..k # 0..m
      BY <2>0, <2>1
    <3> QED
      BY <1>3, <2>1, <3>1 DEF StrictSubsetOrdering
  <2> QED
    BY <1>2, <2>0, <2>2
<1> QED
  BY <1>4

\* The counts are as many as the limit.
LEMMA CountsSize ==
    /\ OtpMaxAttempts - 1 \in Counts /\ Counts \subseteq Nat
    /\ IsFiniteSet(Counts) /\ Cardinality(Counts) = OtpMaxAttempts
<1>1. OtpMaxAttempts \in Nat /\ OtpMaxAttempts >= 1
  BY MobileAssumption
<1>2. OtpMaxAttempts - 1 \in Int /\ ~(0 > OtpMaxAttempts - 1)
  BY <1>1
<1>3. IsFiniteSet(Counts) /\ Cardinality(Counts) = OtpMaxAttempts - 1 - 0 + 1
  BY <1>2, FS_Interval DEF Counts
<1> QED
  BY <1>1, <1>3 DEF Counts

\* A row marks M places out of M + R.
LEMMA MarksAreChoices ==
    ASSUME NEW f \in Histories
    PROVE  Marks(f) \in kSubset(OtpMaxAttempts, 1..(OtpMaxAttempts + Cardinality(Reqs)))
<1> DEFINE R == Cardinality(Reqs)
           M == OtpMaxAttempts
           g == [y \in Counts |-> f[y] + y + 1]
<1>1. R \in Nat /\ M \in Nat /\ M >= 1
  BY MobileAssumption, FS_CardinalityType
<1>2. /\ f \in [Counts -> 0..R]
      /\ \A y, z \in Counts : y <= z => f[y] <= f[z]
  BY DEF Histories
<1> HIDE DEF R
<1>3. Marks(f) \subseteq 1..(M + R)
  BY <1>1, <1>2 DEF Marks, Counts
<1>4. g \in Bijection(Counts, Marks(f))
  <2>1. g \in [Counts -> Marks(f)] /\ \A s \in Marks(f) : \E y \in Counts : g[y] = s
    BY DEF Marks
  <2>2. \A y, z \in Counts : g[y] = g[z] => y = z
    <3> SUFFICES ASSUME NEW y \in Counts, NEW z \in Counts, g[y] = g[z], y < z PROVE FALSE
      BY CountsSize DEF Counts
    <3>1. f[y] <= f[z] /\ f[y] \in Nat /\ f[z] \in Nat /\ y \in Nat /\ z \in Nat
      BY <1>1, <1>2 DEF Counts
    <3> QED
      BY <3>1
  <2> HIDE DEF g
  <2> QED
    BY <2>1, <2>2 DEF Bijection, Injection, Surjection, IsInjective
<1>5. Cardinality(Marks(f)) = M
  BY <1>4, CountsSize, FS_Bijection DEF ExistsBijection
<1> QED
  BY <1>3, <1>5 DEF kSubset, R

\* Different rows mark different places: at the first count where they differ, the
\* lower of the two marks is no mark of the other row.
LEMMA MarksTellApart ==
    ASSUME NEW f \in Histories, NEW h \in Histories, Marks(f) = Marks(h)
    PROVE  f = h
<1> DEFINE D == {y \in Counts : f[y] # h[y]}
<1>1. ASSUME NEW a \in Histories, NEW b \in Histories, Marks(a) \subseteq Marks(b),
             NEW m \in Counts, \A y \in Counts : y < m => a[y] = b[y], a[m] < b[m]
      PROVE  FALSE
  <2>0. ASSUME NEW y \in Counts
        PROVE  y \in Nat /\ a[y] \in Nat /\ b[y] \in Nat
    <3>1. Cardinality(Reqs) \in Nat
      BY MobileAssumption, FS_CardinalityType
    <3> QED
      BY <3>1, CountsSize DEF Histories
  <2>1. PICK z \in Counts : a[m] + m + 1 = b[z] + z + 1
    BY <1>1 DEF Marks
  <2>2. a[z] <= a[m] \/ b[m] <= b[z]
    BY <2>0 DEF Histories
  <2>3. CASE z < m
    <3>1. b[z] = a[z] /\ a[z] <= a[m]
      BY <1>1, <2>0, <2>3 DEF Histories
    <3> QED
      BY <2>0, <2>1, <2>3, <3>1
  <2>4. CASE m <= z
    <3>1. b[m] <= b[z]
      BY <2>4 DEF Histories
    <3> QED
      BY <1>1, <2>0, <2>1, <2>4, <3>1
  <2> QED
    BY <2>0, <2>3, <2>4
<1>2. CASE D = {}
  BY <1>2 DEF Histories
<1>3. CASE D # {}
  <2>1. PICK m \in D : \A k \in D : m <= k
    BY <1>3, CountsSize, LeastNumber
  <2>2. \A y \in Counts : y < m => f[y] = h[y]
    BY <2>1, CountsSize
  <2>3. f[m] \in Nat /\ h[m] \in Nat
    BY FS_CardinalityType, MobileAssumption DEF Histories
  <2>4. f[m] < h[m] \/ h[m] < f[m]
    BY <2>3
  <2>5. m \in Counts /\ \A y \in Counts : y < m => h[y] = f[y]
    BY <2>2
  <2> HIDE DEF D
  <2> QED
    BY <1>1, <2>2, <2>4, <2>5
<1> QED
  BY <1>2, <1>3

\* There are as many rows, at most, as ways to choose the places: C(M + R, M).
LEMMA HistoriesCounted ==
    /\ IsFiniteSet(Histories) /\ Cardinality(Histories) \in Nat /\ Lineups \in Nat
    /\ Cardinality(Histories) <= Lineups
<1> DEFINE P == 1..(OtpMaxAttempts + Cardinality(Reqs))
           K == kSubset(OtpMaxAttempts, P)
           g == [f \in Histories |-> Marks(f)]
<1>1. IsFiniteSet(K)
  <2>1. OtpMaxAttempts + Cardinality(Reqs) \in Int
    BY MobileAssumption, FS_CardinalityType
  <2>2. IsFiniteSet(P)
    BY <2>1, FS_Interval
  <2> HIDE DEF P
  <2>3. IsFiniteSet(SUBSET P) /\ K \subseteq SUBSET P
    BY <2>2, FS_SUBSET DEF kSubset
  <2> QED
    BY <2>3, FS_Subset
<1>2. g \in Injection(Histories, K)
  <2>1. g \in [Histories -> K]
    BY MarksAreChoices
  <2>2. \A f, h \in Histories : g[f] = g[h] => f = h
    BY MarksTellApart
  <2> HIDE DEF g, K
  <2> QED
    BY <2>1, <2>2 DEF Injection, IsInjective
<1> HIDE DEF g
<1>3. IsFiniteSet(Histories) /\ Cardinality(Histories) <= Cardinality(K)
  BY <1>1, <1>2, FS_Injection
<1> QED
  BY <1>1, <1>3, FS_CardinalityType DEF Lineups

-----------------------------------------------------------------------------
(* Rows in their order *)

\* One row comes before another: lower at some count, and no higher at those below.
Before(f, g) ==
    \E y \in Counts : f[y] < g[y] /\ \A z \in Counts : z < y => f[z] <= g[z]

\* The rows below one.
Below(g) == {f \in Histories : Before(f, g)}

\* The values of a row are numbers.
LEMMA RowValues ==
    ASSUME NEW f \in Histories, NEW y \in Counts
    PROVE  f[y] \in Nat /\ y \in Nat
  BY MobileAssumption, FS_CardinalityType, CountsSize DEF Histories

\* There are finitely many rows below one.
LEMMA BelowFinite ==
    ASSUME NEW g
    PROVE  IsFiniteSet(Below(g)) /\ Cardinality(Below(g)) \in Nat
<1>1. Below(g) \subseteq Histories
  BY DEF Below
<1> QED
  BY <1>1, HistoriesCounted, CountLess

\* A row that falls everywhere has no more rows below it.
LEMMA BelowShrinks ==
    ASSUME NEW f \in Histories, NEW g \in Histories, \A y \in Counts : f[y] <= g[y]
    PROVE  Cardinality(Below(f)) <= Cardinality(Below(g))
<1>1. ASSUME NEW h \in Histories, Before(h, f) PROVE Before(h, g)
  <2>1. PICK y \in Counts : h[y] < f[y] /\ \A z \in Counts : z < y => h[z] <= f[z]
    BY <1>1 DEF Before
  <2>2. h[y] < g[y] /\ \A z \in Counts : z < y => h[z] <= g[z]
    BY <2>1, RowValues
  <2> QED
    BY <2>2 DEF Before
<1>2. Below(f) \subseteq Below(g)
  BY <1>1 DEF Below
<1> QED
  BY <1>2, BelowFinite, CountLess

\* A row that comes before another has fewer rows below it.
LEMMA BelowDrops ==
    ASSUME NEW f \in Histories, NEW g \in Histories, Before(f, g)
    PROVE  Cardinality(Below(f)) + 1 <= Cardinality(Below(g))
<1>1. PICK y \in Counts : f[y] < g[y] /\ \A z \in Counts : z < y => f[z] <= g[z]
  BY DEF Before
<1>2. ASSUME NEW h \in Histories, Before(h, f) PROVE Before(h, g)
  <2>1. PICK x \in Counts : h[x] < f[x] /\ \A z \in Counts : z < x => h[z] <= f[z]
    BY <1>2 DEF Before
  <2> DEFINE w == IF x < y THEN x ELSE y
  <2>2. w \in Counts /\ h[w] < g[w]
    BY <1>1, <2>1, RowValues
  <2>3. ASSUME NEW z \in Counts, z < w PROVE h[z] <= g[z]
    <3>1. z < x /\ z < y
      BY <2>3, RowValues
    <3> QED
      BY <1>1, <2>1, <3>1, RowValues
  <2> QED
    BY <2>2, <2>3 DEF Before
<1>3. ~Before(f, f)
  BY RowValues DEF Before
<1>4. Below(f) \subseteq Below(g) \ {f} /\ f \in Below(g)
  BY <1>2, <1>3 DEF Below
<1> QED
  BY <1>4, BelowFinite, CountDrops

\* A row is not below itself.
LEMMA BelowOthers ==
    ASSUME NEW f \in Histories
    PROVE  Cardinality(Below(f)) + 1 <= Cardinality(Histories)
<1>1. ~Before(f, f)
  BY RowValues DEF Before
<1>2. Below(f) \subseteq Histories \ {f}
  BY <1>1 DEF Below
<1> QED
  BY <1>2, HistoriesCounted, CountDrops

\* A row has as many rows below it as its highest value: the rows it becomes when it
\* is cut off at a lower one.
LEMMA BelowAtLeast ==
    ASSUME NEW f \in Histories, NEW k \in Nat, k <= f[OtpMaxAttempts - 1]
    PROVE  k <= Cardinality(Below(f))
<1> DEFINE cut(i) == [y \in Counts |-> IF f[y] < i THEN f[y] ELSE i]
           g == [i \in 0..(k - 1) |-> cut(i)]
           top == OtpMaxAttempts - 1
<1>1. top \in Counts /\ f[top] \in Nat
  BY CountsSize, RowValues
<1>2. ASSUME NEW i \in 0..(k - 1)
      PROVE  cut(i) \in Below(f) /\ cut(i)[top] = i
  <2>1. i \in Nat /\ i < f[top]
    BY <1>1
  <2>2. Cardinality(Reqs) \in Nat
    BY MobileAssumption, FS_CardinalityType
  <2>3. ASSUME NEW y \in Counts
        PROVE  cut(i)[y] \in 0..Cardinality(Reqs) /\ cut(i)[y] <= f[y] /\ cut(i)[y] <= i
    <3>1. f[y] \in 0..Cardinality(Reqs) /\ f[y] \in Nat
      BY RowValues DEF Histories
    <3> QED
      BY <2>1, <2>2, <3>1
  <2>4. ASSUME NEW y \in Counts, NEW z \in Counts, y <= z PROVE cut(i)[y] <= cut(i)[z]
    <3>1. f[y] <= f[z] /\ f[y] \in Nat /\ f[z] \in Nat
      BY <2>4, RowValues DEF Histories
    <3> QED
      BY <2>1, <3>1
  <2>5. cut(i)[top] = i
    BY <1>1, <2>1
  <2>6. cut(i) = [y \in Counts |-> cut(i)[y]]
    OBVIOUS
  <2> HIDE DEF cut, top
  <2>7. cut(i) \in Histories
    BY <2>3, <2>4, <2>6 DEF Histories
  <2>8. Before(cut(i), f)
    BY <1>1, <2>1, <2>3, <2>5 DEF Before
  <2> QED
    BY <2>5, <2>7, <2>8 DEF Below
<1>3. g \in Injection(0..(k - 1), Below(f))
  <2> HIDE DEF cut
  <2>1. g \in [0..(k - 1) -> Below(f)]
    BY <1>2
  <2>2. \A i, j \in 0..(k - 1) : g[i] = g[j] => i = j
    BY <1>2
  <2> HIDE DEF g
  <2> QED
    BY <2>1, <2>2 DEF Injection, IsInjective
<1>4. Cardinality(0..(k - 1)) = k
  <2>1. k - 1 \in Int
    OBVIOUS
  <2> QED
    BY <2>1, FS_Interval
<1> HIDE DEF g
<1> QED
  BY <1>3, <1>4, BelowFinite, FS_Injection

\* A row of sets that never shrink has a row of sizes.
LEMMA SizesAreRows ==
    ASSUME NEW low \in [Counts -> SUBSET Reqs],
           \A y, z \in Counts : y <= z => low[y] \subseteq low[z]
    PROVE  [y \in Counts |-> Cardinality(low[y])] \in Histories
<1>1. ASSUME NEW y \in Counts
      PROVE  IsFiniteSet(low[y]) /\ Cardinality(low[y]) \in 0..Cardinality(Reqs)
  BY CountLess, MobileAssumption
<1>2. ASSUME NEW y \in Counts, NEW z \in Counts, y <= z
      PROVE  Cardinality(low[y]) <= Cardinality(low[z])
  BY <1>1, <1>2, CountLess
<1> QED
  BY <1>1, <1>2 DEF Histories

-----------------------------------------------------------------------------
(* How many wrong guesses a code stands: the guesses still to come *)

\* For each count, the requests that would find the code at or below it, or
\* write it back from there: all of them when the stored code is.
Low(c) ==
    [y \in Counts |->
        {r \in Reqs : \/ \E n \in Numbers : otp[n].code = c /\ otp[n].attempts <= y
                      \/ r \in Missing(c) /\ req[r].read.attempts <= y}]

\* The row of a code.
Row(c) == [y \in Counts |-> Cardinality(Low(c)[y])]

\* Every wrong guess that has been written back took the row of its code below
\* what it was, and each request that holds one will.
GuessInv ==
    \A c \in Codes :
        /\ c \notin issued => tried[c] = 0
        /\ tried[c] + Cardinality(Below(Row(c)))
               < Lineups + faults + Cardinality(Missing(c))

\* Nobody comes to hold a lower count.
LowFalls(c) == \A y \in Counts : Low(c)'[y] \subseteq Low(c)[y]

\* The code is sent for the first time.
Drawn(c) == c \notin issued /\ tried'[c] = tried[c] /\ Missing(c)' = {} /\ faults' = faults

\* No request that holds a wrong guess goes but with a fault; the stored code stays or goes.
Faded(c) ==
    /\ tried'[c] = tried[c] /\ LowFalls(c)
    /\ \/ faults' >= faults /\ Missing(c) \subseteq Missing(c)'
       \/ /\ faults' = faults + 1
          /\ \E r \in Reqs : Missing(c) \subseteq Missing(c)' \cup {r}

\* A wrong guess at the stored code: the request that holds it reads what all would read.
Wronged(c) ==
    /\ tried'[c] = tried[c] + 1 /\ LowFalls(c) /\ faults' = faults
    /\ \E r \in Missing(c)' : Missing(c) \subseteq Missing(c)' \ {r}

\* A wrong guess is written back: at the count it held, or at the stored one
\* when that was lower, the row loses the request.
Restored(c) ==
    /\ tried'[c] = tried[c] /\ faults' = faults
    /\ \E r \in Reqs : Missing(c) \subseteq Missing(c)' \cup {r}
    /\ \E y \in Counts :
          /\ \E r \in Low(c)[y] : Low(c)'[y] \subseteq Low(c)[y] \ {r}
          /\ \A z \in Counts : z < y => Low(c)'[z] \subseteq Low(c)[z]

\* For one code every step is one of these, and no code is tried before it is sent.
LEMMA GuessStep ==
    ASSUME TInv, HomesInv, [Next]_vars, NEW c \in Codes
    PROVE  /\ Drawn(c) \/ Faded(c) \/ Wronged(c) \/ Restored(c)
           /\ c \notin issued' => c \notin issued /\ tried'[c] = tried[c]
<1> DEFINE Step == Drawn(c) \/ Faded(c) \/ Wronged(c) \/ Restored(c)
           Issue == c \notin issued' => c \notin issued /\ tried'[c] = tried[c]
           Holds(x) == x.pc = "miss" /\ x.read.code = c
<1> USE MobileAssumption
<1>0. /\ otp \in [Numbers -> MobileOTPData \cup {NoOTP}] /\ req \in [Reqs -> Request]
      /\ faults \in Nat /\ tried \in [Codes -> Nat] /\ issued \subseteq Codes
      /\ \A r \in Reqs : /\ req[r].pc # "idle" => req[r].number \in Numbers
                         /\ req[r].pc = "miss" => /\ req[r].read \in MobileOTPData
                                                  /\ req[r].read.attempts < OtpMaxAttempts
  BY DEF TInv, TypeOK, LocalsInv
<1>a. NoOTP.code # c
  BY DEF NoOTP
<1>b. ASSUME UNCHANGED tried, issued \subseteq issued', faults' >= faults,
             \A n \in Numbers : otp'[n] = otp[n] \/ otp'[n].code # c,
             \A q \in Reqs : req'[q] = req[q] \/ (~Holds(req'[q]) /\ ~Holds(req[q]))
      PROVE  Step /\ Issue
  <2>1. Missing(c)' = Missing(c) /\ \A q \in Missing(c) : req'[q] = req[q]
    BY <1>b DEF Missing
  <2>2. LowFalls(c)
    BY <1>b, <2>1 DEF LowFalls, Low
  <2>3. Faded(c)
    BY <1>b, <2>1, <2>2 DEF Faded
  <2> QED
    BY <1>b, <2>3
<1>c. ASSUME UNCHANGED <<tried, issued, otp>>, faults' = faults + 1,
             NEW r \in Reqs, req'[r].pc # "miss",
             \A q \in Reqs : q # r => req'[q] = req[q]
      PROVE  Step /\ Issue
  <2>1. /\ Missing(c)' \subseteq Missing(c) /\ Missing(c) \subseteq Missing(c)' \cup {r}
        /\ \A q \in Missing(c)' : req'[q] = req[q]
    BY <1>c DEF Missing
  <2>2. LowFalls(c)
    BY <1>c, <2>1 DEF LowFalls, Low
  <2>3. Faded(c)
    BY <1>c, <2>1, <2>2 DEF Faded
  <2> QED
    BY <1>c, <2>3
<1>d. ASSUME NEW r \in Reqs, Finish(r)
      PROVE  \A q \in Reqs : IF q = r THEN req'[q].pc = "idle" ELSE req'[q] = req[q]
  BY <1>0, <1>d DEF Finish, Idle
<1>e. ASSUME NEW n \in Numbers, DelOTP(n)
      PROVE  \A k \in Numbers : otp'[k] = otp[k] \/ otp'[k].code # c
  BY <1>0, <1>a, <1>e DEF DelOTP
<1>1. ASSUME NEW r \in Reqs, NEW u \in Users, NEW n \in Numbers,
             SendCheck(r, u, n) \/ ClearPrimary(r, u, n)
      PROVE  Step /\ Issue
  <2>1. UNCHANGED <<tried, issued, otp>> /\ faults' >= faults
    BY <1>0, <1>1 DEF SendCheck, ClearPrimary, Fault, history
  <2>2. \A q \in Reqs : \/ req'[q] = req[q]
                        \/ req'[q].pc \in {"store", "mark"} /\ req[q].pc = "idle"
    BY <1>0, <1>1 DEF SendCheck, ClearPrimary, Start, At
  <2> QED
    BY <1>b, <2>1, <2>2
<1>2. ASSUME NEW r \in Reqs, NEW d \in Codes, StoreOTP(r, d)
      PROVE  Step /\ Issue
  <2>1. req[r].pc = "store" /\ req[r].number \in Numbers
    BY <1>0, <1>2 DEF StoreOTP, At
  <2>2. \A n \in Numbers : otp'[n] = otp[n] \/ otp'[n].code = d
    BY <1>0, <1>2 DEF StoreOTP
  <2>3. \A q \in Reqs : IF q = r THEN req'[q].pc = "idle" ELSE req'[q] = req[q]
    BY <1>2, <1>d DEF StoreOTP
  <2>4. /\ UNCHANGED <<tried, faults>> /\ issued' = issued \cup {d}
        /\ d \notin issued
    BY <1>2 DEF StoreOTP
  <2>5. CASE d # c
    BY <1>0, <1>b, <2>1, <2>2, <2>3, <2>4, <2>5
  <2>6. CASE d = c
    <3>1. Missing(c) = {}
      BY <2>4, <2>6 DEF HomesInv, Homes
    <3>2. Missing(c)' = {}
      BY <2>3, <3>1 DEF Missing
    <3> QED
      BY <2>4, <2>6, <3>2 DEF Drawn
  <2> QED
    BY <2>5, <2>6
<1>3. ASSUME NEW r \in Reqs, NEW u \in Users, NEW n \in Numbers, NEW right \in BOOLEAN,
             VerifyRead(r, u, n, right)
      PROVE  Step /\ Issue
  <2> DEFINE v == Verdict(otp[n], right)
             d == otp[n].code
  <2>1. /\ otp[n] \in MobileOTPData /\ d \in Codes /\ req[r].pc = "idle"
        /\ UNCHANGED <<otp, faults, issued>>
    BY <1>0, <1>3 DEF VerifyRead, MobileOTPData, At
  <2>2. v \in {"discard", "consume", "miss"}
    BY DEF Verdict
  <2>3. /\ \A q \in Reqs : q # r => req'[q] = req[q]
        /\ req'[r].pc = v /\ req'[r].read = otp[n]
    BY <1>0, <1>3 DEF VerifyRead, Start
  <2>4. tried' = IF v = "miss" THEN [tried EXCEPT ![d] = @ + 1] ELSE tried
    BY <1>3 DEF VerifyRead
  <2> HIDE DEF v
  <2>5. CASE v = "miss" /\ d = c
    <3>1. tried'[c] = tried[c] + 1
      BY <1>0, <2>4, <2>5
    <3>2. /\ Missing(c)' = Missing(c) \cup {r} /\ r \notin Missing(c)
          /\ \A q \in Missing(c) : req'[q] = req[q]
      BY <2>1, <2>3, <2>5 DEF Missing
    <3>3. ASSUME NEW y \in Counts, NEW q \in Low(c)'[y] PROVE q \in Low(c)[y]
      <4>1. CASE \E k \in Numbers : otp[k].code = c /\ otp[k].attempts <= y
        BY <2>1, <4>1 DEF Low
      <4>2. CASE /\ ~(\E k \in Numbers : otp[k].code = c /\ otp[k].attempts <= y)
                 /\ q \in Missing(c)' /\ req'[q].read.attempts <= y
        <5>1. q # r
          BY <2>3, <2>5, <4>2
        <5> QED
          BY <3>2, <4>2, <5>1 DEF Low, Missing
      <4> QED
        BY <2>1, <4>1, <4>2 DEF Low
    <3>4. LowFalls(c)
      BY <3>3 DEF LowFalls
    <3>5. Wronged(c)
      BY <2>1, <3>1, <3>2, <3>4 DEF Wronged
    <3>6. c \in issued
      <4>1. n \in Homes(c)
        BY <2>5 DEF Homes
      <4> QED
        BY <4>1 DEF HomesInv
    <3> QED
      BY <2>1, <3>5, <3>6
  <2>6. CASE ~(v = "miss" /\ d = c)
    <3>1. tried'[c] = tried[c]
      BY <1>0, <2>1, <2>4, <2>6
    <3>2. Missing(c)' = Missing(c) /\ \A q \in Missing(c) : req'[q] = req[q]
      BY <2>1, <2>3, <2>6 DEF Missing
    <3>3. LowFalls(c)
      BY <2>1, <3>2 DEF LowFalls, Low
    <3> QED
      BY <1>0, <2>1, <3>1, <3>2, <3>3 DEF Faded
  <2> QED
    BY <2>5, <2>6
<1>4. ASSUME NEW r \in Reqs, Discard(r) \/ Consume(r) PROVE Step /\ Issue
  <2>1. /\ req[r].pc \in {"discard", "consume"} /\ req[r].number \in Numbers
        /\ UNCHANGED <<tried, issued>>
    BY <1>0, <1>4 DEF Discard, Consume, At, history
  <2>2. \A q \in Reqs : IF q = r THEN req'[q].pc \in {"idle", "upsert"}
                        ELSE req'[q] = req[q]
    BY <1>0, <1>4, <1>d DEF Discard, Consume, Request
  <2>3. CASE DelOTP(req[r].number) /\ UNCHANGED faults
    BY <1>0, <1>b, <1>e, <2>1, <2>2, <2>3
  <2>4. CASE UNCHANGED otp /\ Fault
    BY <1>c, <2>1, <2>2, <2>4 DEF Fault
  <2> QED
    BY <1>4, <2>3, <2>4 DEF Discard, Consume
<1>5. ASSUME NEW r \in Reqs, Miss(r) PROVE Step /\ Issue
  <2> DEFINE n == req[r].number
             d == req[r].read
  <2>1. /\ req[r].pc = "miss" /\ n \in Numbers /\ d \in MobileOTPData
        /\ d.attempts < OtpMaxAttempts /\ UNCHANGED <<tried, issued>>
    BY <1>0, <1>5 DEF Miss, At, history
  <2>2. \A q \in Reqs : IF q = r THEN req'[q].pc = "idle" ELSE req'[q] = req[q]
    BY <1>5, <1>d DEF Miss
  <2>3. CASE UNCHANGED otp /\ Fault
    BY <1>c, <2>1, <2>2, <2>3 DEF Fault
  <2>4. CASE otp' = [otp EXCEPT ![n] = CountedMiss(d)] /\ UNCHANGED faults
    <3>1. CountedMiss(d).code = d.code /\ CountedMiss(d).attempts = d.attempts + 1
      BY <1>0, <2>1 DEF CountedMiss, MobileOTPData
    <3>2. \A k \in Numbers : IF k = n THEN /\ otp'[k].code = d.code
                                           /\ otp'[k].attempts = d.attempts + 1
                                      ELSE otp'[k] = otp[k]
      BY <1>0, <2>4, <3>1
    <3>3. CASE d.code # c
      BY <1>0, <1>b, <2>1, <2>2, <2>4, <3>2, <3>3
    <3>4. CASE d.code = c
      <4>1. r \in Missing(c) /\ n \in Homes(c)
        BY <2>1, <3>4 DEF Missing, Homes
      <4>2. \A k \in Numbers : otp[k].code = c => k = n
        BY <4>1 DEF Homes, HomesInv
      <4>3. \A k \in Numbers : otp'[k].code = c => k = n
        BY <3>2, <4>2
      <4>4. /\ Missing(c)' = Missing(c) \ {r}
            /\ \A q \in Missing(c)' : req'[q] = req[q]
        BY <2>1, <2>2 DEF Missing
      <4>5. d.attempts \in Nat /\ d.attempts \in Counts
        BY <2>1 DEF MobileOTPData, Counts
      <4>6. otp[n].attempts \in Nat /\ (otp[n].attempts < d.attempts => otp[n].attempts \in Counts)
        BY <1>0, <2>1, <4>5 DEF MobileOTPData, NoOTP, Counts
      <4>7. \A k \in Numbers : otp'[k].code = c => otp'[k].attempts = d.attempts + 1
        BY <3>2, <4>3
      <4>8. ASSUME NEW y \in Counts, y <= d.attempts, NEW q \in Low(c)'[y]
            PROVE  q \in Missing(c)' /\ req'[q].read.attempts <= y /\ q # r
        <5>1. y \in Nat /\ ~(d.attempts + 1 <= y)
          BY <4>5, <4>8, CountsSize
        <5>2. ~(\E k \in Numbers : otp'[k].code = c /\ otp'[k].attempts <= y)
          BY <4>7, <5>1
        <5> QED
          BY <4>4, <4>8, <5>2 DEF Low
      <4>9. ASSUME NEW y \in Counts, y <= d.attempts
            PROVE  Low(c)'[y] \subseteq Low(c)[y]
        BY <4>4, <4>8, <4>9 DEF Low, Missing
      <4>10. CASE otp[n].code = c /\ otp[n].attempts < d.attempts
        <5> DEFINE s == otp[n].attempts
        <5>1. s \in Counts /\ s <= d.attempts
          BY <4>5, <4>6, <4>10
        <5>2. Low(c)[s] = Reqs
          BY <2>1, <4>6, <4>10, <5>1 DEF Low
        <5>3. Low(c)'[s] \subseteq Low(c)[s] \ {r}
          BY <4>8, <4>9, <5>1
        <5>4. ASSUME NEW z \in Counts, z < s PROVE Low(c)'[z] \subseteq Low(c)[z]
          <6>1. z <= d.attempts
            BY <4>5, <4>6, <5>1, <5>4, CountsSize
          <6> QED
            BY <4>9, <6>1
        <5> QED
          BY <2>1, <2>4, <4>4, <5>1, <5>2, <5>3, <5>4 DEF Restored
      <4>11. CASE ~(otp[n].code = c /\ otp[n].attempts < d.attempts)
        <5>1. r \in Low(c)[d.attempts]
          BY <4>1, <4>5 DEF Low
        <5>2. Low(c)'[d.attempts] \subseteq Low(c)[d.attempts] \ {r}
          BY <4>5, <4>8, <4>9
        <5>3. ASSUME NEW z \in Counts, z < d.attempts
              PROVE  Low(c)'[z] \subseteq Low(c)[z]
          <6>1. z <= d.attempts
            BY <4>5, <5>3, CountsSize
          <6> QED
            BY <4>9, <6>1
        <5> QED
          BY <2>1, <2>4, <4>4, <4>5, <5>1, <5>2, <5>3 DEF Restored
      <4> QED
        BY <4>10, <4>11
    <3> QED
      BY <3>3, <3>4
  <2> QED
    BY <1>5, <2>3, <2>4 DEF Miss
<1>7. ASSUME NEW r \in Reqs, Upsert(r) \/ MarkPrimary(r) PROVE Step /\ Issue
  <2>1. /\ req[r].pc \in {"upsert", "mark"}
        /\ UNCHANGED <<tried, issued, otp, faults>>
    BY <1>7 DEF Upsert, MarkPrimary, At, history
  <2>2. \A q \in Reqs : IF q = r THEN req'[q].pc = "idle" ELSE req'[q] = req[q]
    BY <1>7, <1>d DEF Upsert, MarkPrimary
  <2> QED
    BY <1>0, <1>b, <2>1, <2>2
<1>9. ASSUME NEW r \in Reqs, Abort(r) PROVE Step /\ Issue
  <2>1. UNCHANGED <<tried, issued, otp>> /\ faults' = faults + 1
    BY <1>9 DEF Abort, Fault, history
  <2>2. \A q \in Reqs : IF q = r THEN req'[q].pc = "idle" ELSE req'[q] = req[q]
    BY <1>9, <1>d DEF Abort
  <2> QED
    BY <1>c, <2>1, <2>2
<1>10. ASSUME NEW n \in Numbers, OTPExpires(n) PROVE Step /\ Issue
  <2>1. UNCHANGED <<tried, issued, req, faults>> /\ DelOTP(n)
    BY <1>10 DEF OTPExpires, history
  <2> QED
    BY <1>0, <1>b, <1>e, <2>1
<1>11. ASSUME \/ \E u \in Users, n \in Numbers : Delete(u, n)
              \/ UNCHANGED vars
       PROVE  Step /\ Issue
  <2>1. UNCHANGED <<tried, issued, otp, req, faults>>
    BY <1>11 DEF Delete, vars, history
  <2> QED
    BY <1>0, <1>b, <2>1
<1>12. Step /\ Issue
  <2> HIDE DEF Step, Issue
  <2> QED
    BY <1>1, <1>2, <1>3, <1>4, <1>5, <1>7, <1>9, <1>10, <1>11
       DEF Next, SendOTP, VerifyOTP, SetPrimary
<1> QED
  BY <1>12

\* The row of a code is one of the rows that never fall.
LEMMA RowType ==
    ASSUME NEW c \in Codes, TypeOK
    PROVE  Low(c) \in [Counts -> SUBSET Reqs] /\ Row(c) \in Histories
<1>1. Low(c) \in [Counts -> SUBSET Reqs]
  BY DEF Low
<1>2. ASSUME NEW y \in Counts, NEW z \in Counts, y <= z
      PROVE  Low(c)[y] \subseteq Low(c)[z]
  <2>1. \A n \in Numbers : otp[n].attempts \in Nat
    BY MobileAssumption DEF TypeOK, MobileOTPData, NoOTP
  <2>2. \A r \in Reqs : req[r].read.attempts \in Nat
    BY MobileAssumption DEF TypeOK, Request, MobileOTPData, NoOTP
  <2>3. y \in Nat /\ z \in Nat
    BY CountsSize
  <2> QED
    BY <1>2, <2>1, <2>2, <2>3 DEF Low, Missing
<1> QED
  BY <1>1, <1>2, SizesAreRows DEF Row

\* The sums of a code through each kind of step: wrong guesses, rows below its
\* own, faults and held guesses.
LEMMA GuessSums ==
    ASSUME NEW t \in Nat, NEW b \in Nat, NEW h \in Nat, NEW f \in Nat, NEW m \in Nat,
           NEW t1 \in Nat, NEW b1 \in Nat, NEW f1 \in Nat, NEW m1 \in Nat,
           t + b < h + f + m,
           \/ t1 = t /\ b1 <= b /\ f + m <= f1 + m1
           \/ t1 = t + 1 /\ b1 <= b /\ f1 = f /\ m + 1 <= m1
           \/ t1 = t /\ b1 + 1 <= b /\ f1 = f /\ m <= m1 + 1
    PROVE  t1 + b1 < h + f1 + m1
  OBVIOUS

\* What is left of a code covers its wrong guesses through every step.
LEMMA NextGuess == TInv /\ HomesInv /\ GuessInv /\ [Next]_vars => GuessInv'
<1> SUFFICES ASSUME TInv, HomesInv, GuessInv, [Next]_vars, NEW c \in Codes
             PROVE  /\ c \notin issued' => tried'[c] = 0
                    /\ tried'[c] + Cardinality(Below(Row(c)'))
                           < Lineups + faults' + Cardinality(Missing(c)')
  BY DEF GuessInv
<1> DEFINE T == tried[c]                        T1 == tried'[c]
           B == Cardinality(Below(Row(c)))      B1 == Cardinality(Below(Row(c)'))
           M == Cardinality(Missing(c))         M1 == Cardinality(Missing(c)')
           F == faults                          F1 == faults'
<1>0. TypeOK /\ TypeOK'
  BY NextTInv DEF TInv
<1>1. T \in Nat /\ T1 \in Nat /\ F \in Nat /\ F1 \in Nat
  BY <1>0 DEF TypeOK
<1>2. /\ IsFiniteSet(Missing(c)) /\ IsFiniteSet(Missing(c)')
      /\ M \in Nat /\ M1 \in Nat
  <2>1. Missing(c) \subseteq Reqs /\ Missing(c)' \subseteq Reqs
    BY DEF Missing
  <2> QED
    BY <2>1, CountLess, MobileAssumption
<1>3. B \in Nat /\ B1 \in Nat /\ Lineups \in Nat /\ Cardinality(Histories) \in Nat
      /\ Cardinality(Histories) <= Lineups
  BY BelowFinite, HistoriesCounted
<1>4. Low(c) \in [Counts -> SUBSET Reqs] /\ Row(c) \in Histories
  BY <1>0, RowType
<1>5. Low(c)' \in [Counts -> SUBSET Reqs] /\ Row(c)' \in Histories
  <2>1. Low(c)' \in [Counts -> SUBSET Reqs]
    BY DEF Low
  <2>2. ASSUME NEW y \in Counts, NEW z \in Counts, y <= z
        PROVE  Low(c)'[y] \subseteq Low(c)'[z]
    <3>1. \A n \in Numbers : otp'[n].attempts \in Nat
      BY <1>0, MobileAssumption DEF TypeOK, MobileOTPData, NoOTP
    <3>2. \A r \in Reqs : req'[r].read.attempts \in Nat
      BY <1>0, MobileAssumption DEF TypeOK, Request, MobileOTPData, NoOTP
    <3>3. y \in Nat /\ z \in Nat
      BY CountsSize
    <3> QED
      BY <2>2, <3>1, <3>2, <3>3 DEF Low, Missing
  <2>3. Row(c)' = [y \in Counts |-> Cardinality(Low(c)'[y])]
    BY DEF Row
  <2> QED
    BY <2>1, <2>2, <2>3, SizesAreRows
<1>6. ASSUME NEW y \in Counts
      PROVE  /\ IsFiniteSet(Low(c)[y]) /\ IsFiniteSet(Low(c)'[y])
             /\ Row(c)[y] = Cardinality(Low(c)[y]) /\ Row(c)'[y] = Cardinality(Low(c)'[y])
  <2>1. Low(c)[y] \subseteq Reqs /\ Low(c)'[y] \subseteq Reqs
    BY <1>4, <1>5
  <2> QED
    BY <2>1, CountLess, MobileAssumption DEF Row
<1>7. ASSUME NEW y \in Counts, Low(c)'[y] \subseteq Low(c)[y]
      PROVE  Row(c)'[y] <= Row(c)[y]
  BY <1>6, <1>7, CountLess
<1>8. LowFalls(c) => B1 <= B
  BY <1>4, <1>5, <1>7, BelowShrinks DEF LowFalls
<1>9. (c \notin issued => T = 0) /\ T + B < Lineups + F + M
  BY DEF GuessInv
<1>10. c \notin issued' => T1 = 0
  BY <1>9, GuessStep
<1>11. CASE Drawn(c)
  <2>1. T1 = 0
    BY <1>9, <1>11 DEF Drawn
  <2>2. B1 + 1 <= Cardinality(Histories)
    BY <1>5, BelowOthers
  <2> HIDE DEF T, T1, B, B1, M, M1, F, F1
  <2>3. T1 + B1 < Lineups + F1 + M1
    BY <1>1, <1>2, <1>3, <2>1, <2>2
  <2> QED
    BY <1>10, <2>3 DEF T1, B1, M1, F1
<1>12. CASE Faded(c)
  <2>1. T1 = T /\ B1 <= B
    BY <1>8, <1>12 DEF Faded
  <2>2. F + M <= F1 + M1
    <3>1. CASE faults' >= faults /\ Missing(c) \subseteq Missing(c)'
      <4>1. M <= M1
        BY <1>2, <3>1, CountLess
      <4> QED
        BY <1>1, <1>2, <3>1, <4>1
    <3>2. CASE /\ faults' = faults + 1
               /\ \E r \in Reqs : Missing(c) \subseteq Missing(c)' \cup {r}
      <4>1. M <= M1 + 1
        BY <1>2, <3>2, CountGrows
      <4> QED
        BY <1>1, <1>2, <3>2, <4>1
    <3> QED
      BY <1>12, <3>1, <3>2 DEF Faded
  <2> HIDE DEF T, T1, B, B1, M, M1, F, F1
  <2>3. T1 + B1 < Lineups + F1 + M1
    BY <1>1, <1>2, <1>3, <1>9, <2>1, <2>2, GuessSums
  <2> QED
    BY <1>10, <2>3 DEF T1, B1, M1, F1
<1>13. CASE Wronged(c)
  <2>1. T1 = T + 1 /\ B1 <= B /\ F1 = F
    BY <1>8, <1>13 DEF Wronged
  <2>2. M + 1 <= M1
    BY <1>2, <1>13, CountDrops DEF Wronged
  <2> HIDE DEF T, T1, B, B1, M, M1, F, F1
  <2>3. T1 + B1 < Lineups + F1 + M1
    BY <1>1, <1>2, <1>3, <1>9, <2>1, <2>2, GuessSums
  <2> QED
    BY <1>10, <2>3 DEF T1, B1, M1, F1
<1>14. CASE Restored(c)
  <2>1. T1 = T /\ F1 = F
    BY <1>14 DEF Restored
  <2>2. M <= M1 + 1
    BY <1>2, <1>14, CountGrows DEF Restored
  <2>3. PICK y \in Counts :
           /\ \E r \in Low(c)[y] : Low(c)'[y] \subseteq Low(c)[y] \ {r}
           /\ \A z \in Counts : z < y => Low(c)'[z] \subseteq Low(c)[z]
    BY <1>14 DEF Restored
  <2>4. Row(c)'[y] < Row(c)[y]
    <3>1. /\ Cardinality(Low(c)'[y]) + 1 <= Cardinality(Low(c)[y])
          /\ Cardinality(Low(c)'[y]) \in Nat /\ Cardinality(Low(c)[y]) \in Nat
      BY <1>6, <2>3, CountDrops
    <3> QED
      BY <1>6, <3>1
  <2>5. Before(Row(c)', Row(c))
    BY <1>7, <2>3, <2>4 DEF Before
  <2>6. B1 + 1 <= B
    BY <1>4, <1>5, <2>5, BelowDrops
  <2> HIDE DEF T, T1, B, B1, M, M1, F, F1
  <2>7. T1 + B1 < Lineups + F1 + M1
    BY <1>1, <1>2, <1>3, <1>9, <2>1, <2>2, <2>6, GuessSums
  <2> QED
    BY <1>10, <2>7 DEF T1, B1, M1, F1
<1> QED
  BY <1>11, <1>12, <1>13, <1>14, GuessStep

\* Nothing is stored or held at the start.
LEMMA InitGuess == AtRest => GuessInv
<1> SUFFICES ASSUME AtRest, NEW c \in Codes
             PROVE  tried[c] = 0 /\ Cardinality(Below(Row(c))) < Lineups + faults + Cardinality(Missing(c))
  BY HistoriesCounted, BelowFinite DEF GuessInv, AtRest
<1>1. Missing(c) = {} /\ tried[c] = 0 /\ faults = 0
  BY DEF AtRest, Missing, Idle
<1>2. Cardinality(Missing(c)) = 0
  BY <1>1, FS_EmptySet
<1>3. Row(c) \in Histories
  BY InitTInv, RowType DEF TInv
<1>4. Cardinality(Below(Row(c))) + 1 <= Cardinality(Histories)
  BY <1>3, BelowOthers
<1> QED
  BY <1>1, <1>2, <1>4, BelowFinite, HistoriesCounted

\* A request that holds a wrong guess can still be written back, so what is left is never
\* less than what is held.
LEMMA GuessBound == TInv /\ GuessInv => GuessBudget
<1> SUFFICES ASSUME TInv, GuessInv, NEW c \in Codes
             PROVE  tried[c] < Lineups + faults
  BY DEF GuessBudget
<1> DEFINE T == tried[c]   B == Cardinality(Below(Row(c)))   M == Cardinality(Missing(c))
           top == OtpMaxAttempts - 1
<1>1. T \in Nat /\ faults \in Nat /\ TypeOK
  BY DEF TInv, TypeOK
<1>2. Row(c) \in Histories /\ Low(c) \in [Counts -> SUBSET Reqs] /\ top \in Counts
  BY <1>1, RowType, CountsSize
<1>3. Missing(c) \subseteq Low(c)[top]
  <2>1. ASSUME NEW r \in Missing(c) PROVE r \in Reqs /\ req[r].read.attempts <= top
    BY MobileAssumption DEF TInv, LocalsInv, Missing, MobileOTPData
  <2> QED
    BY <1>2, <2>1 DEF Low
<1>4. M <= Row(c)[top] /\ M \in Nat
  <2>1. IsFiniteSet(Low(c)[top])
    BY <1>2, CountLess, MobileAssumption
  <2> QED
    BY <1>2, <1>3, <2>1, CountLess DEF Row
<1>5. M <= B /\ B \in Nat /\ Lineups \in Nat
  BY <1>2, <1>4, BelowAtLeast, BelowFinite, HistoriesCounted
<1>6. T + B < Lineups + faults + M
  BY DEF GuessInv
<1> HIDE DEF T, B, M
<1>7. T < Lineups + faults
  BY <1>1, <1>4, <1>5, <1>6
<1> QED
  BY <1>7 DEF T

\* What a code is worth: it stands less than C(M + R, M) wrong guesses of M attempts and R
\* overlapping requests, and is accepted once but for overlaps, beside what faults give away.
THEOREM CodeIsBounded == Spec => []CodeBudget
<1>1. TInv /\ AcceptInv /\ GuessInv => CodeBudget
  BY AcceptBound, GuessBound DEF CodeBudget
<1> QED
  BY <1>1, InitAtRest, InitTInv, NextTInv, InitAccept, NextHomes, NextAccept,
     InitGuess, NextGuess, PTL DEF Spec

-----------------------------------------------------------------------------
(* The invariant of the callbacks *)

\* A callback between its first lookup and its end.
WorkingSteps == {"byEmail", "link", "create", "issue"}

\* The locals of a callback.
CallLocals ==
    {c \in [pc : {"idle", "byId"} \cup WorkingSteps, person : People \cup {None},
            email : Emails \cup {None}, user : Docs \cup {None}] :
        /\ c.pc # "idle" => c.person \in People /\ c.email \in Emails
        /\ c.user # None => c.pc \in {"link", "issue"}}

\* A document that is there stays, so that what a callback has found, and where an
\* identity is at home, is there.
SocialTyped ==
    /\ Social!TypeOK
    /\ call \in [Callbacks -> CallLocals]
    /\ ghosts \in Nat /\ blind \in Nat
    /\ \A c \in Callbacks : call[c].user # None => account[call[c].user] # None
    /\ \A g \in People : home[g] # None => account[home[g]] # None

\* Callbacks that are under way together are in the books, whichever came first.
CrossedInv ==
    \A b, c \in Callbacks : b # c /\ call[b].pc \in WorkingSteps /\ call[c].pc \in WorkingSteps
        => <<call[b].person, call[c].person>> \in crossed

\* The callbacks that will be given a session for nobody.
Ghostly == {c \in Callbacks : call[c].pc \in {"link", "issue"} /\ call[c].user = None}

\* Each session for nobody, given or about to be, has its dropped error.
GhostInv == ghosts + Cardinality(Ghostly) <= blind

\* A callback that found no account under the identity still would not, unless another
\* callback of the identity was under way.
SearchInv ==
    \A c \in Callbacks, d \in Docs :
        /\ call[c].pc \in {"byEmail", "create"} \/ (call[c].pc = "link" /\ call[c].user # None)
        /\ Social!Live(d) /\ account[d].googleId = call[c].person
        => <<call[c].person, call[c].person>> \in crossed

\* An account that was found without an identity has none yet, or one that a callback
\* under way at the same time gave it.
LinkInv ==
    \A c \in Callbacks :
        LET d == call[c].user
            g == account[d].googleId
        IN  call[c].pc = "link" /\ d # None /\ Social!Live(d) /\ g # None
                => <<g, call[c].person>> \in crossed

\* What HomeIsKept says of an identity and the account it signs in to.
AtHome(g, d) ==
    \/ account[d].googleId = g
    \/ g \in apart
    \/ \E h \in People : <<g, h>> \in crossed

\* The account a session is about to be issued for is that of the identity.
IssueInv ==
    \A c \in Callbacks :
        call[c].pc = "issue" /\ call[c].user # None /\ Social!Live(call[c].user)
            => AtHome(call[c].person, call[c].user)

\* All that is known of identities, accounts and callbacks.
SocialInv ==
    /\ SocialTyped /\ CrossedInv /\ GhostInv /\ SearchInv /\ LinkInv /\ IssueInv
    /\ Social!HomeIsKept /\ Social!LinkedOnce

\* The locals of a callback.
LEMMA CallbackFields ==
    ASSUME SocialTyped, NEW c \in Callbacks
    PROVE  /\ call[c] \in CallLocals /\ call[c].pc \in {"idle", "byId"} \cup WorkingSteps
           /\ call[c].pc # "idle" => call[c].person \in People /\ call[c].email \in Emails
           /\ call[c].user \in Docs \cup {None}
           /\ call[c].user # None => call[c].pc \in {"link", "issue"}
           /\ None \notin Docs /\ None \notin People
  BY SocialAssumption DEF SocialTyped, CallLocals

\* A callback that is not under way.
LEMMA IdleCallback ==
    /\ Social!Idle \in CallLocals /\ Social!Idle.pc = "idle" /\ Social!Idle.user = None
  BY DEF Social!Idle, CallLocals, WorkingSteps

\* Nobody has signed in yet.
LEMMA SocialStarts == Social!Init => SocialInv
<1> SUFFICES ASSUME Social!Init PROVE SocialInv
  OBVIOUS
<1>1. \A c \in Callbacks : call[c] = Social!Idle
  BY DEF Social!Init
<1>2. SocialTyped
  BY <1>1, IdleCallback, SocialAssumption DEF Social!Init, SocialTyped, Social!TypeOK
<1>3. CrossedInv /\ SearchInv /\ LinkInv /\ IssueInv
  BY <1>1, IdleCallback DEF CrossedInv, SearchInv, LinkInv, IssueInv, WorkingSteps
<1>4. GhostInv
  <2>1. Ghostly = {}
    BY <1>1, IdleCallback DEF Ghostly
  <2> QED
    BY <2>1, FS_EmptySet DEF GhostInv, Social!Init
<1>5. Social!HomeIsKept /\ Social!LinkedOnce
  BY DEF Social!Init, Social!HomeIsKept, Social!LinkedOnce, Social!Live
<1> QED
  BY <1>2, <1>3, <1>4, <1>5 DEF SocialInv

-----------------------------------------------------------------------------
(* What a callback does to the rest *)

\* A callback that has looked for its identity in vain, and for its address by now.
Searching(x) ==
    x.pc \in {"byEmail", "create"} \/ (x.pc = "link" /\ x.user # None)

\* The account d is there, and not deleted, after the step.
StillLive(d) == account'[d] # None /\ ~account'[d].deleted

\* The account d is as it was.
Untouched(d) == Social!Live(d) /\ account'[d].googleId = account[d].googleId

\* The callback makes the account d, or gives the one it found its identity.
Given(c, d) ==
    /\ Searching(call[c]) /\ account'[d].googleId = call[c].person
    /\ account[d] = None \/ (call[c].pc = "link" /\ d = call[c].user /\ Social!Live(d))

\* A callback that will be given a session for nobody.
GhostlyCall(x) == x.pc \in {"link", "issue"} /\ x.user = None

\* Such a callback is in the books when the lookup fails, and counted when it ends.
GhostGoesOn(c) ==
    \/ /\ GhostlyCall(call'[c]) => GhostlyCall(call[c])
       /\ ghosts' = ghosts /\ blind' = blind
    \/ ghosts' = ghosts /\ blind' = blind + 1
    \/ /\ GhostlyCall(call[c]) /\ ~GhostlyCall(call'[c])
       /\ ghosts' = ghosts + 1 /\ blind' = blind

\* A step of a callback: it enters the books with its first lookup, and goes on as what it
\* found allows.
CallbackGoesOn(c) ==
    LET x == call[c]
        y == call'[c]
    IN  /\ \A b \in Callbacks : b # c => call'[b] = call[b]
        /\ y.pc \in WorkingSteps => x.pc \in WorkingSteps \cup {"byId"} /\ y.person = x.person
        /\ crossed \subseteq crossed' /\ apart \subseteq apart'
        /\ y.pc \in WorkingSteps /\ x.pc \notin WorkingSteps =>
              \A b \in Callbacks : b # c /\ call[b].pc \in WorkingSteps =>
                  <<x.person, call[b].person>> \in crossed'
                      /\ <<call[b].person, x.person>> \in crossed'
        /\ \A d \in Docs : StillLive(d) => Untouched(d) \/ Given(c, d)
        /\ \A d, e \in Docs : d # e /\ StillLive(d) /\ StillLive(e)
              => Untouched(d) \/ Untouched(e)
        /\ \A g \in People : \/ home'[g] = home[g]
                             \/ /\ x.pc = "issue" /\ g = x.person /\ home'[g] = x.user
                                /\ x.user # None /\ account' = account
        /\ Searching(y) =>
              /\ account' = account
              /\ \/ Searching(x)
                 \/ \A d \in Docs : Social!Live(d) => account[d].googleId # x.person
        /\ y.pc = "link" /\ y.user # None => account'[y.user].googleId = None
        /\ y.pc = "issue" /\ y.user # None /\ StillLive(y.user) =>
              account'[y.user].googleId = x.person \/ x.person \in apart'
        /\ GhostGoesOn(c)

\* The callbacks that end with a session for nobody are few enough.
LEMMA GhostsKeep ==
    ASSUME GhostInv, ghosts \in Nat, blind \in Nat, NEW c \in Callbacks,
           \A b \in Callbacks : b # c => call'[b] = call[b], GhostGoesOn(c)
    PROVE  GhostInv'
<1>1. Ghostly = {b \in Callbacks : GhostlyCall(call[b])}
  BY DEF Ghostly, GhostlyCall
<1>2. Ghostly' = {b \in Callbacks : GhostlyCall(call'[b])}
  BY DEF Ghostly, GhostlyCall
<1>3. IsFiniteSet(Ghostly)
  BY <1>1, SocialAssumption, FS_Subset
<1>4. CASE /\ GhostlyCall(call'[c]) => GhostlyCall(call[c])
           /\ ghosts' = ghosts /\ blind' = blind
  <2>1. Ghostly' \subseteq Ghostly
    BY <1>1, <1>2, <1>4
  <2>2. /\ Cardinality(Ghostly') <= Cardinality(Ghostly)
        /\ Cardinality(Ghostly') \in Nat /\ Cardinality(Ghostly) \in Nat
    BY <1>3, <2>1, CountLess
  <2> QED
    BY <1>4, <2>2 DEF GhostInv
<1>5. CASE ghosts' = ghosts /\ blind' = blind + 1
  <2>1. Ghostly' \subseteq Ghostly \cup {c}
    BY <1>1, <1>2
  <2>2. /\ Cardinality(Ghostly') <= Cardinality(Ghostly) + 1
        /\ Cardinality(Ghostly') \in Nat /\ Cardinality(Ghostly) \in Nat
    BY <1>3, <2>1, CountGrows
  <2> QED
    BY <1>5, <2>2 DEF GhostInv
<1>6. CASE /\ GhostlyCall(call[c]) /\ ~GhostlyCall(call'[c])
           /\ ghosts' = ghosts + 1 /\ blind' = blind
  <2>1. c \in Ghostly /\ Ghostly' \subseteq Ghostly \ {c}
    BY <1>1, <1>2, <1>6
  <2>2. /\ Cardinality(Ghostly') + 1 <= Cardinality(Ghostly)
        /\ Cardinality(Ghostly') \in Nat /\ Cardinality(Ghostly) \in Nat
    BY <1>3, <2>1, CountDrops
  <2> QED
    BY <1>6, <2>2 DEF GhostInv
<1> QED
  BY <1>4, <1>5, <1>6 DEF GhostGoesOn

\* However a callback goes on so, the invariant is kept.
LEMMA CallbackKeeps ==
    ASSUME SocialInv, SocialTyped', NEW c \in Callbacks, CallbackGoesOn(c)
    PROVE  SocialInv'
<1> DEFINE x == call[c]
           y == call'[c]
<1>1. /\ SocialTyped /\ CrossedInv /\ GhostInv /\ SearchInv /\ LinkInv /\ IssueInv
      /\ Social!HomeIsKept /\ Social!LinkedOnce
  BY DEF SocialInv
<1>2. /\ \A b \in Callbacks : b # c => call'[b] = call[b]
      /\ y.pc \in WorkingSteps => x.pc \in WorkingSteps \cup {"byId"} /\ y.person = x.person
      /\ crossed \subseteq crossed' /\ apart \subseteq apart'
  BY DEF CallbackGoesOn
<1>3. \A b \in Callbacks : b # c /\ call[b].pc \in WorkingSteps /\ x.pc \in WorkingSteps =>
            <<x.person, call[b].person>> \in crossed /\ <<call[b].person, x.person>> \in crossed
  BY <1>1 DEF CrossedInv
<1>4. /\ \A d \in Docs : StillLive(d) => Untouched(d) \/ Given(c, d)
      /\ \A d, e \in Docs : d # e /\ StillLive(d) /\ StillLive(e)
            => Untouched(d) \/ Untouched(e)
  BY DEF CallbackGoesOn
<1>5. Searching(x) => x.pc \in WorkingSteps /\ x.person \in People /\ x.person # None
  BY <1>1, CallbackFields DEF Searching, WorkingSteps
<1>6. CrossedInv'
  <2>1. y.pc \in WorkingSteps =>
           \A b \in Callbacks : b # c /\ call[b].pc \in WorkingSteps =>
              <<y.person, call[b].person>> \in crossed'
                  /\ <<call[b].person, y.person>> \in crossed'
    BY <1>2, <1>3 DEF CallbackGoesOn
  <2> QED
    BY <1>1, <1>2, <2>1 DEF CrossedInv
<1>7. SearchInv'
  <2> SUFFICES ASSUME NEW b \in Callbacks, NEW d \in Docs, Searching(call'[b]),
                      StillLive(d), account'[d].googleId = call'[b].person
               PROVE  <<call'[b].person, call'[b].person>> \in crossed'
    BY DEF SearchInv, Searching, Social!Live, StillLive
  <2>1. Untouched(d) \/ Given(c, d)
    BY <1>4
  <2>2. CASE b # c
    <3>1. call'[b] = call[b] /\ call[b].pc \in WorkingSteps
      BY <1>2, <2>2 DEF Searching, WorkingSteps
    <3>2. CASE Untouched(d)
      BY <1>1, <1>2, <3>1, <3>2 DEF SearchInv, Searching, Untouched
    <3>3. CASE Given(c, d)
      BY <1>2, <1>3, <1>5, <2>2, <3>1, <3>3 DEF Given
    <3> QED
      BY <2>1, <3>2, <3>3
  <2>3. CASE b = c
    <3>1. y.pc \in WorkingSteps /\ y.person = x.person
      BY <1>2, <2>3 DEF Searching, WorkingSteps
    <3>2. /\ account' = account
          /\ \/ Searching(x)
             \/ \A e \in Docs : Social!Live(e) => account[e].googleId # x.person
      BY <2>3 DEF CallbackGoesOn
    <3>3. Social!Live(d)
      BY <3>2 DEF Social!Live, StillLive
    <3> QED
      BY <1>1, <1>2, <2>3, <3>1, <3>2, <3>3 DEF SearchInv, Searching
  <2> QED
    BY <2>2, <2>3
<1>8. LinkInv'
  <2> SUFFICES ASSUME NEW b \in Callbacks, call'[b].pc = "link", call'[b].user # None,
                      StillLive(call'[b].user), account'[call'[b].user].googleId # None
               PROVE  <<account'[call'[b].user].googleId, call'[b].person>> \in crossed'
    BY DEF LinkInv, Social!Live, StillLive
  <2>1. b # c
    BY DEF CallbackGoesOn
  <2>2. /\ call'[b] = call[b] /\ call[b].pc \in WorkingSteps
        /\ call[b].user \in Docs
    BY <1>1, <1>2, <2>1, CallbackFields DEF WorkingSteps
  <2>3. CASE Untouched(call[b].user)
    BY <1>1, <1>2, <2>2, <2>3 DEF LinkInv, Untouched
  <2>4. CASE Given(c, call[b].user)
    BY <1>2, <1>3, <1>5, <2>1, <2>2, <2>4 DEF Given
  <2> QED
    BY <1>4, <2>2, <2>3, <2>4
<1>9. ASSUME NEW g \in People, NEW d \in Docs, AtHome(g, d), account'[d].googleId = account[d].googleId
      PROVE  /\ account'[d].googleId = g \/ g \in apart' \/ \E h \in People : <<g, h>> \in crossed'
  BY <1>2, <1>9 DEF AtHome
<1>10. IssueInv'
  <2> SUFFICES ASSUME NEW b \in Callbacks, call'[b].pc = "issue", call'[b].user # None,
                      StillLive(call'[b].user)
               PROVE  \/ account'[call'[b].user].googleId = call'[b].person
                      \/ call'[b].person \in apart'
                      \/ \E h \in People : <<call'[b].person, h>> \in crossed'
    BY DEF IssueInv, AtHome, Social!Live, StillLive
  <2>1. CASE b = c
    <3>1. y.person = x.person
      BY <1>2, <2>1 DEF WorkingSteps
    <3> QED
      BY <2>1, <3>1 DEF CallbackGoesOn
  <2>2. CASE b # c
    <3>1. /\ call'[b] = call[b] /\ call[b].pc \in WorkingSteps
          /\ call[b].user \in Docs /\ call[b].person \in People
      BY <1>1, <1>2, <2>2, CallbackFields DEF WorkingSteps
    <3>2. CASE Untouched(call[b].user)
      BY <1>1, <1>9, <3>1, <3>2 DEF IssueInv, Untouched
    <3>3. CASE Given(c, call[b].user)
      BY <1>2, <1>3, <1>5, <2>2, <3>1, <3>3 DEF Given
    <3> QED
      BY <1>4, <3>1, <3>2, <3>3
  <2> QED
    BY <2>1, <2>2
<1>11. Social!HomeIsKept'
  <2> SUFFICES ASSUME NEW g \in People, home'[g] # None, StillLive(home'[g])
               PROVE  \/ account'[home'[g]].googleId = g
                      \/ g \in apart'
                      \/ \E h \in People : <<g, h>> \in crossed'
    BY DEF Social!HomeIsKept, Social!Live, StillLive
  <2>1. CASE /\ x.pc = "issue" /\ g = x.person /\ home'[g] = x.user
             /\ x.user # None /\ account' = account
    <3>1. x.user \in Docs /\ Social!Live(x.user)
      BY <1>1, <2>1, CallbackFields DEF Social!Live, StillLive
    <3> QED
      BY <1>1, <1>9, <2>1, <3>1 DEF IssueInv
  <2>2. CASE home'[g] = home[g]
    <3>1. home[g] \in Docs /\ account[home[g]] # None
      BY <1>1, <2>2 DEF SocialTyped, Social!TypeOK
    <3>2. Social!Live(home[g]) => AtHome(g, home[g])
      BY <1>1, <2>2 DEF Social!HomeIsKept, AtHome
    <3>3. CASE Untouched(home[g])
      BY <1>9, <2>2, <3>1, <3>2, <3>3 DEF Untouched
    <3>4. CASE Given(c, home[g])
      <4>1. x.pc = "link" /\ home[g] = x.user /\ x.user # None
        BY <2>2, <3>1, <3>4 DEF Given
      <4>2. Social!Live(home[g]) /\ account'[home[g]].googleId = x.person
        BY <2>2, <3>1, <3>4 DEF Given
      <4>3. x.person \in People
        BY <1>5, <3>4 DEF Given
      <4>4. CASE account[home[g]].googleId = g
        <5>1. <<g, x.person>> \in crossed
          BY <1>1, <4>1, <4>2, <4>4, SocialAssumption DEF LinkInv
        <5> QED
          BY <1>2, <4>3, <5>1
      <4>5. CASE account[home[g]].googleId # g
        BY <1>2, <3>2, <4>2, <4>5 DEF AtHome
      <4> QED
        BY <4>4, <4>5
    <3> QED
      BY <1>4, <2>2, <3>1, <3>3, <3>4
  <2> QED
    BY <2>1, <2>2 DEF CallbackGoesOn
<1>12. Social!LinkedOnce'
  <2> SUFFICES ASSUME NEW d \in Docs, NEW e \in Docs, d # e, StillLive(d), StillLive(e),
                      account'[d].googleId = account'[e].googleId, account'[d].googleId # None,
                      Untouched(e)
               PROVE  <<account'[d].googleId, account'[d].googleId>> \in crossed'
    BY <1>4 DEF Social!LinkedOnce, Social!Live, StillLive
  <2>1. CASE Untouched(d)
    BY <1>1, <1>2, <2>1 DEF Untouched, Social!LinkedOnce
  <2>2. CASE Given(c, d)
    <3>1. /\ account[e].googleId = x.person /\ Social!Live(e)
          /\ Searching(x) /\ account'[d].googleId = x.person
      BY <2>2 DEF Given, Untouched
    <3>2. <<x.person, x.person>> \in crossed
      BY <1>1, <3>1 DEF SearchInv, Searching
    <3> QED
      BY <1>2, <3>1, <3>2
  <2> QED
    BY <1>4, <2>1, <2>2
<1>13. GhostInv'
  BY <1>1, <1>2, GhostsKeep DEF CallbackGoesOn, SocialTyped
<1> QED
  BY <1>6, <1>7, <1>8, <1>10, <1>11, <1>12, <1>13 DEF SocialInv

\* So it is by what others do: an account is made without an identity, or deleted.
LEMMA OthersKeep ==
    ASSUME SocialInv, SocialTyped',
           call' = call, crossed' = crossed, apart' = apart, home' = home,
           ghosts' = ghosts, blind' = blind,
           \A d \in Docs : StillLive(d) =>
              Untouched(d) \/ (account[d] = None /\ account'[d].googleId = None)
    PROVE  SocialInv'
<1>1. /\ SocialTyped /\ CrossedInv /\ GhostInv /\ SearchInv /\ LinkInv /\ IssueInv
      /\ Social!HomeIsKept /\ Social!LinkedOnce
  BY DEF SocialInv
<1>2. CrossedInv' /\ GhostInv'
  BY <1>1 DEF CrossedInv, GhostInv, Ghostly
<1>3. ASSUME NEW c \in Callbacks, call[c].user # None
      PROVE  call[c].user \in Docs /\ account[call[c].user] # None
  BY <1>1, <1>3, CallbackFields DEF SocialTyped
<1>4. SearchInv'
  <2> SUFFICES ASSUME NEW c \in Callbacks, NEW d \in Docs, Searching(call[c]),
                      StillLive(d), account'[d].googleId = call[c].person
               PROVE  <<call[c].person, call[c].person>> \in crossed
    BY DEF SearchInv, Searching, Social!Live, StillLive
  <2>1. call[c].person # None
    BY <1>1, CallbackFields DEF Searching
  <2> QED
    BY <1>1, <2>1 DEF SearchInv, Searching, Untouched
<1>5. LinkInv'
  BY <1>1, <1>3 DEF LinkInv, Untouched, Social!Live, StillLive
<1>6. IssueInv'
  BY <1>1, <1>3 DEF IssueInv, AtHome, Untouched, Social!Live, StillLive
<1>7. Social!HomeIsKept'
  <2> SUFFICES ASSUME NEW g \in People, home[g] # None, StillLive(home[g])
               PROVE  \/ account'[home[g]].googleId = g
                      \/ g \in apart
                      \/ \E h \in People : <<g, h>> \in crossed
    BY DEF Social!HomeIsKept, Social!Live, StillLive
  <2>1. home[g] \in Docs /\ account[home[g]] # None
    BY <1>1 DEF SocialTyped, Social!TypeOK
  <2> QED
    BY <1>1, <2>1 DEF Social!HomeIsKept, Untouched
<1>8. Social!LinkedOnce'
  <2> SUFFICES ASSUME NEW d \in Docs, NEW e \in Docs, d # e, StillLive(d), StillLive(e),
                      account'[d].googleId = account'[e].googleId, account'[d].googleId # None
               PROVE  <<account'[d].googleId, account'[d].googleId>> \in crossed
    BY DEF Social!LinkedOnce, Social!Live, StillLive
  <2>1. Untouched(d) /\ Untouched(e)
    OBVIOUS
  <2> QED
    BY <1>1, <2>1 DEF Untouched, Social!LinkedOnce
<1> QED
  BY <1>2, <1>4, <1>5, <1>6, <1>7, <1>8 DEF SocialInv

-----------------------------------------------------------------------------
(* Every step *)

\* A callback's locals change and nobody else's.
LEMMA CallMoves ==
    ASSUME SocialTyped, NEW c \in Callbacks, NEW y \in CallLocals,
           call' = [call EXCEPT ![c] = y]
    PROVE  /\ call' \in [Callbacks -> CallLocals] /\ call'[c] = y
           /\ \A b \in Callbacks : b # c => call'[b] = call[b]
  BY DEF SocialTyped

\* What does not touch the accounts leaves them typed.
LEMMA SameAccounts ==
    ASSUME SocialTyped, account' = account, mail' = mail, home' = home, moves' = moves,
           NEW c \in Callbacks, NEW y \in CallLocals, call' = [call EXCEPT ![c] = y],
           y.user # None => account[y.user] # None,
           apart' \subseteq People, crossed' \subseteq People \X People,
           ghosts' \in Nat, blind' \in Nat, lookups' \in 0..MaxLookups
    PROVE  SocialTyped'
<1>1. /\ call' \in [Callbacks -> CallLocals] /\ call'[c] = y
      /\ \A b \in Callbacks : b # c => call'[b] = call[b]
  BY CallMoves
<1>2. Social!TypeOK'
  BY DEF SocialTyped, Social!TypeOK
<1>3. \A b \in Callbacks : call'[b].user # None => account[call'[b].user] # None
  BY <1>1 DEF SocialTyped
<1>4. \A g \in People : home[g] # None => account[home[g]] # None
  BY DEF SocialTyped
<1> QED
  BY <1>1, <1>2, <1>3, <1>4 DEF SocialTyped

\* The counters of faults and of failed lookups.
LEMMA FaultTypes ==
    ASSUME SocialTyped
    PROVE  /\ lookups \in 0..MaxLookups /\ moves \in 0..MaxMoves
           /\ ghosts \in Nat /\ blind \in Nat /\ ghosts + 1 \in Nat /\ blind + 1 \in Nat
           /\ Social!Fault => lookups' \in 0..MaxLookups
           /\ apart \subseteq People /\ crossed \subseteq People \X People
           /\ account \in [Docs -> Social!Account \cup {None}]
           /\ mail \in [People -> Emails \cup {None}]
           /\ home \in [People -> Docs \cup {None}]
  BY SocialAssumption DEF SocialTyped, Social!TypeOK, Social!Fault

\* A person comes back from GitHub.
LEMMA CallbackStep ==
    ASSUME SocialInv, NEW c \in Callbacks, NEW g \in People, Social!Callback(c, g)
    PROVE  SocialInv'
<1> DEFINE y == [Social!Idle EXCEPT !.pc = "byId", !.person = g, !.email = mail[g]]
<1>1. /\ SocialTyped /\ call[c].pc = "idle" /\ mail[g] # None
      /\ call' = [call EXCEPT ![c] = y]
      /\ account' = account /\ mail' = mail /\ home' = home /\ apart' = apart
      /\ crossed' = crossed /\ ghosts' = ghosts /\ blind' = blind /\ moves' = moves
      /\ lookups' = lookups
  BY DEF SocialInv, Social!Callback, Social!Exchange, Social!history
<1>2. y \in CallLocals /\ y.pc = "byId" /\ y.user = None
  BY <1>1, FaultTypes DEF Social!Idle, CallLocals
<1> HIDE DEF y
<1>3. SocialTyped'
  BY <1>1, <1>2, SameAccounts, FaultTypes
<1>4. CallbackGoesOn(c)
  BY <1>1, <1>2, CallMoves DEF CallbackGoesOn, Untouched, StillLive, Social!Live, Searching,
     WorkingSteps, GhostGoesOn, GhostlyCall
<1> QED
  BY <1>3, <1>4, CallbackKeeps

\* The books, with the callback and those under way.
LEMMA CrossingBooks ==
    ASSUME SocialTyped, NEW c \in Callbacks, call[c].pc = "byId"
    PROVE  /\ crossed \subseteq Social!Crossing(c) /\ Social!Crossing(c) \subseteq People \X People
           /\ \A b \in Callbacks : b # c /\ call[b].pc \in WorkingSteps =>
                 /\ <<call[c].person, call[b].person>> \in Social!Crossing(c)
                 /\ <<call[b].person, call[c].person>> \in Social!Crossing(c)
<1>1. call[c].person \in People
  BY CallbackFields
<1>2. \A b \in Social!Working : b \in Callbacks /\ call[b].person \in People
  BY CallbackFields DEF Social!Working
<1>3. \A b \in Callbacks : call[b].pc \in WorkingSteps => b \in Social!Working
  BY DEF Social!Working, WorkingSteps
<1> QED
  BY <1>1, <1>2, <1>3, FaultTypes DEF Social!Crossing

\* The identity is looked for.
LEMMA FindByGoogleIDStep ==
    ASSUME SocialInv, NEW c \in Callbacks, Social!FindByGoogleID(c) PROVE SocialInv'
<1> DEFINE x == call[c]
           matching == {d \in Docs : Social!Live(d) /\ account[d].googleId = x.person}
<1>1. /\ SocialTyped /\ x.pc = "byId" /\ account' = account /\ mail' = mail /\ home' = home
      /\ apart' = apart /\ ghosts' = ghosts /\ moves' = moves /\ crossed' = Social!Crossing(c)
  BY DEF SocialInv, Social!FindByGoogleID
<1>2. x \in CallLocals /\ x.person \in People /\ x.person # None
  BY <1>1, CallbackFields
<1>3. /\ crossed \subseteq crossed' /\ crossed' \subseteq People \X People
      /\ \A b \in Callbacks : b # c /\ call[b].pc \in WorkingSteps =>
            <<x.person, call[b].person>> \in crossed'
                /\ <<call[b].person, x.person>> \in crossed'
  BY <1>1, CrossingBooks
<1>4. ASSUME NEW y \in CallLocals, call' = [call EXCEPT ![c] = y],
             y.pc \in WorkingSteps, y.person = x.person,
             y.user # None => /\ y.pc = "issue" /\ y.user \in matching,
             y.pc = "byEmail" => matching = {},
             y.pc \in {"byEmail", "link", "issue"},
             \/ ~GhostlyCall(y) /\ blind' = blind
             \/ blind' = blind + 1,
             lookups' \in 0..MaxLookups
      PROVE  SocialInv'
  <2>1. y.user # None => Social!Live(y.user) /\ account[y.user].googleId = x.person
    BY <1>4
  <2>2. SocialTyped'
    BY <1>1, <1>3, <1>4, <2>1, SameAccounts, FaultTypes DEF Social!Live
  <2>3. /\ call'[c] = y /\ \A b \in Callbacks : b # c => call'[b] = call[b]
    BY <1>1, <1>4, CallMoves
  <2>4. GhostGoesOn(c)
    BY <1>1, <1>4, <2>3 DEF GhostGoesOn
  <2>5. CallbackGoesOn(c)
    BY <1>1, <1>2, <1>3, <1>4, <2>1, <2>3, <2>4 DEF CallbackGoesOn, Untouched, StillLive,
       Social!Live, Searching
  <2> QED
    BY <2>2, <2>5, CallbackKeeps
<1>5. ASSUME NEW d \in matching, Social!Found(c, d), UNCHANGED <<blind, lookups>>
      PROVE  SocialInv'
  <2> DEFINE y == [x EXCEPT !.user = d, !.pc = "issue"]
  <2>1. account[d].googleId # None
    BY <1>2
  <2>2. call' = [call EXCEPT ![c] = y]
    BY <1>1, <1>5, <2>1 DEF Social!Found, SocialTyped
  <2>3. /\ y \in CallLocals /\ y.pc = "issue" /\ y.person = x.person /\ y.user = d
    BY <1>1, <1>2 DEF CallLocals, WorkingSteps
  <2>4. ~GhostlyCall(y)
    BY <2>3, SocialAssumption DEF GhostlyCall
  <2> HIDE DEF y
  <2> QED
    BY <1>1, <1>4, <1>5, <2>2, <2>3, <2>4, FaultTypes DEF WorkingSteps
<1>6. CASE matching = {} /\ Social!GoTo(c, "byEmail") /\ UNCHANGED <<blind, lookups>>
  <2> DEFINE y == [x EXCEPT !.pc = "byEmail"]
  <2>1. call' = [call EXCEPT ![c] = y]
    BY <1>1, <1>6 DEF Social!GoTo, SocialTyped
  <2>2. x.user = None
    BY <1>1, CallbackFields
  <2>3. /\ y \in CallLocals /\ y.pc = "byEmail" /\ y.person = x.person /\ y.user = None
    BY <1>1, <1>2, <2>2 DEF CallLocals, WorkingSteps
  <2>4. ~GhostlyCall(y)
    BY <2>3 DEF GhostlyCall
  <2> HIDE DEF y
  <2> QED
    BY <1>1, <1>4, <1>6, <2>1, <2>3, <2>4, FaultTypes DEF WorkingSteps
<1>7. CASE Social!LookupFails(c)
  <2> DEFINE y == [x EXCEPT !.user = None, !.pc = "link"]
  <2>1. call' = [call EXCEPT ![c] = y] /\ Social!Fault /\ blind' = blind + 1
    BY <1>1, <1>7 DEF Social!LookupFails, SocialTyped
  <2>2. /\ y \in CallLocals /\ y.pc = "link" /\ y.person = x.person /\ y.user = None
    BY <1>1, <1>2 DEF CallLocals, WorkingSteps
  <2> HIDE DEF y
  <2> QED
    BY <1>1, <1>4, <2>1, <2>2, FaultTypes DEF WorkingSteps
<1> QED
  BY <1>5, <1>6, <1>7 DEF Social!FindByGoogleID

\* The address is looked for: another's account is left alone.
LEMMA FindByEmailStep ==
    ASSUME SocialInv, NEW c \in Callbacks, Social!FindByEmail(c) PROVE SocialInv'
<1> DEFINE x == call[c]
           matching == {d \in Docs : Social!Live(d) /\ account[d].email = x.email}
<1>1. /\ SocialTyped /\ x.pc = "byEmail" /\ account' = account /\ mail' = mail /\ home' = home
      /\ crossed' = crossed /\ ghosts' = ghosts /\ moves' = moves
  BY DEF SocialInv, Social!FindByEmail
<1>2. x \in CallLocals /\ x.person \in People /\ x.person # None
  BY <1>1, CallbackFields
<1>3. ASSUME NEW y \in CallLocals, call' = [call EXCEPT ![c] = y],
             y.pc \in {"link", "issue", "create"}, y.person = x.person,
             y.user # None => y.user \in matching,
             y.pc = "link" /\ y.user # None => account[y.user].googleId = None,
             y.pc = "issue" => y.user # None /\
                               (account[y.user].googleId = x.person \/ x.person \in apart'),
             apart \subseteq apart', apart' \subseteq People,
             \/ ~GhostlyCall(y) /\ blind' = blind
             \/ blind' = blind + 1,
             lookups' \in 0..MaxLookups
      PROVE  SocialInv'
  <2>1. y.user # None => Social!Live(y.user)
    BY <1>3
  <2>2. SocialTyped'
    BY <1>1, <1>3, <2>1, SameAccounts, FaultTypes DEF Social!Live
  <2>3. /\ call'[c] = y /\ \A b \in Callbacks : b # c => call'[b] = call[b]
    BY <1>1, <1>3, CallMoves
  <2>4. GhostGoesOn(c)
    BY <1>1, <1>3, <2>3 DEF GhostGoesOn
  <2>5. CallbackGoesOn(c)
    BY <1>1, <1>2, <1>3, <2>1, <2>3, <2>4 DEF CallbackGoesOn, Untouched, StillLive,
       Social!Live, Searching, WorkingSteps
  <2> QED
    BY <2>2, <2>5, CallbackKeeps
<1>4. ASSUME NEW d \in matching, Social!Found(c, d), UNCHANGED <<blind, lookups>>,
             apart' = IF account[d].googleId \in {None, x.person} THEN apart
                      ELSE apart \cup {x.person}
      PROVE  SocialInv'
  <2> DEFINE step == IF account[d].googleId = None THEN "link" ELSE "issue"
             y == [x EXCEPT !.user = d, !.pc = step]
  <2>1. call' = [call EXCEPT ![c] = y]
    BY <1>1, <1>4 DEF Social!Found, SocialTyped
  <2>2. /\ step \in {"link", "issue"} /\ (step = "link" <=> account[d].googleId = None)
    OBVIOUS
  <2> HIDE DEF step
  <2>3. /\ y \in CallLocals /\ y.pc = step /\ y.person = x.person /\ y.user = d
    BY <1>1, <1>2, <2>2 DEF CallLocals, WorkingSteps
  <2>4. ~GhostlyCall(y) /\ d # None
    BY <2>3, SocialAssumption DEF GhostlyCall
  <2>5. apart \subseteq apart' /\ apart' \subseteq People
    BY <1>1, <1>2, <1>4, FaultTypes
  <2> HIDE DEF y
  <2> QED
    BY <1>1, <1>3, <1>4, <2>1, <2>2, <2>3, <2>4, <2>5, FaultTypes
<1>5. CASE Social!GoTo(c, "create") /\ UNCHANGED <<apart, blind, lookups>>
  <2> DEFINE y == [x EXCEPT !.pc = "create"]
  <2>1. call' = [call EXCEPT ![c] = y]
    BY <1>1, <1>5 DEF Social!GoTo, SocialTyped
  <2>2. x.user = None
    BY <1>1, CallbackFields
  <2>3. /\ y \in CallLocals /\ y.pc = "create" /\ y.person = x.person /\ y.user = None
    BY <1>1, <1>2, <2>2 DEF CallLocals, WorkingSteps
  <2>4. ~GhostlyCall(y)
    BY <2>3 DEF GhostlyCall
  <2> HIDE DEF y
  <2> QED
    BY <1>1, <1>3, <1>5, <2>1, <2>3, <2>4, FaultTypes
<1>6. CASE Social!LookupFails(c) /\ UNCHANGED apart
  <2> DEFINE y == [x EXCEPT !.user = None, !.pc = "link"]
  <2>1. call' = [call EXCEPT ![c] = y] /\ Social!Fault /\ blind' = blind + 1
    BY <1>1, <1>6 DEF Social!LookupFails, SocialTyped
  <2>2. /\ y \in CallLocals /\ y.pc = "link" /\ y.person = x.person /\ y.user = None
    BY <1>1, <1>2 DEF CallLocals, WorkingSteps
  <2> HIDE DEF y
  <2> QED
    BY <1>1, <1>3, <1>6, <2>1, <2>2, FaultTypes
<1> QED
  BY <1>4, <1>5, <1>6 DEF Social!FindByEmail

\* A callback is refused, or ends: its locals are gone.
LEMMA RefusedStep ==
    ASSUME SocialInv, NEW c \in Callbacks, Social!Refuse(c),
           account' = account, mail' = mail, crossed' = crossed, apart' = apart,
           blind' = blind, moves' = moves, lookups' \in 0..MaxLookups,
           \A g \in People : \/ home'[g] = home[g]
                             \/ /\ call[c].pc = "issue" /\ g = call[c].person
                                /\ home'[g] = call[c].user /\ call[c].user # None,
           home' \in [People -> Docs \cup {None}],
           \/ ghosts' = ghosts
           \/ GhostlyCall(call[c]) /\ ghosts' = ghosts + 1
    PROVE  SocialInv'
<1>1. SocialTyped /\ call' = [call EXCEPT ![c] = Social!Idle]
  BY DEF SocialInv, Social!Refuse
<1>2. /\ call' \in [Callbacks -> CallLocals] /\ call'[c] = Social!Idle
      /\ \A b \in Callbacks : b # c => call'[b] = call[b]
  BY <1>1, IdleCallback, CallMoves
<1>3. SocialTyped'
  <2>1. Social!TypeOK'
    BY <1>1, FaultTypes DEF SocialTyped, Social!TypeOK
  <2>2. \A b \in Callbacks : call'[b].user # None => account'[call'[b].user] # None
    BY <1>1, <1>2, IdleCallback DEF SocialTyped
  <2>3. \A g \in People : home'[g] # None => account'[home'[g]] # None
    BY <1>1 DEF SocialTyped
  <2> QED
    BY <1>1, <1>2, <2>1, <2>2, <2>3, FaultTypes DEF SocialTyped
<1>4. GhostGoesOn(c)
  BY <1>2, IdleCallback DEF GhostGoesOn, GhostlyCall
<1>5. CallbackGoesOn(c)
  BY <1>2, <1>4, IdleCallback DEF CallbackGoesOn, Untouched, StillLive, Social!Live, Searching,
     WorkingSteps
<1> QED
  BY <1>3, <1>5, CallbackKeeps

\* The account is made, unless an index refuses it.
LEMMA CreateStep ==
    ASSUME SocialInv, NEW c \in Callbacks, Social!Create(c) PROVE SocialInv'
<1> DEFINE x == call[c]
<1>1. /\ SocialTyped /\ x.pc = "create" /\ mail' = mail /\ home' = home /\ apart' = apart
      /\ crossed' = crossed /\ ghosts' = ghosts /\ blind' = blind /\ moves' = moves
  BY DEF SocialInv, Social!Create, Social!history
<1>2. /\ x \in CallLocals /\ x.person \in People /\ x.person # None /\ x.email \in Emails
      /\ x.user = None /\ Searching(x) /\ ~GhostlyCall(x)
  BY <1>1, CallbackFields DEF Searching, GhostlyCall
<1>3. ASSUME NEW d \in Docs, UNCHANGED lookups,
             Social!Inserted(d, x.email, Login[x.person], x.person),
             call' = [call EXCEPT ![c].user = d, ![c].pc = "issue"]
      PROVE  SocialInv'
  <2> DEFINE y == [x EXCEPT !.user = d, !.pc = "issue"]
             row == [email |-> x.email, username |-> Login[x.person], googleId |-> x.person,
                     emailVerified |-> x.person # None, deleted |-> FALSE]
  <2>1. call' = [call EXCEPT ![c] = y]
    BY <1>1, <1>3 DEF SocialTyped
  <2>2. /\ y \in CallLocals /\ y.pc = "issue" /\ y.person = x.person /\ y.user = d
    BY <1>1, <1>2 DEF CallLocals, WorkingSteps
  <2>3. account[d] = None /\ account' = [account EXCEPT ![d] = row]
    BY <1>3 DEF Social!Inserted
  <2>4. row \in Social!Account /\ row.googleId = x.person
    BY <1>2, SocialAssumption DEF Social!Account
  <2> HIDE DEF y, row
  <2>5. /\ account' \in [Docs -> Social!Account \cup {None}]
        /\ account'[d] = row /\ row # None
        /\ \A e \in Docs : e # d => account'[e] = account[e]
    BY <1>1, <2>3, <2>4, FaultTypes, SocialAssumption
  <2>6. /\ call' \in [Callbacks -> CallLocals] /\ call'[c] = y
        /\ \A b \in Callbacks : b # c => call'[b] = call[b]
    BY <1>1, <2>1, <2>2, CallMoves
  <2>7. SocialTyped'
    <3>1. Social!TypeOK'
      BY <1>1, <1>3, <2>5 DEF SocialTyped, Social!TypeOK
    <3>2. \A b \in Callbacks : call'[b].user # None => account'[call'[b].user] # None
      BY <1>1, <2>2, <2>5, <2>6, CallbackFields DEF SocialTyped
    <3>3. \A g \in People : home[g] # None => account'[home[g]] # None
      BY <1>1, <2>5, FaultTypes DEF SocialTyped
    <3> QED
      BY <1>1, <2>6, <3>1, <3>2, <3>3, FaultTypes DEF SocialTyped
  <2>8. GhostGoesOn(c)
    BY <1>1, <2>2, <2>6, SocialAssumption DEF GhostGoesOn, GhostlyCall
  <2>9. \A e \in Docs : StillLive(e) => (e # d /\ Untouched(e)) \/ (e = d /\ Given(c, d))
    BY <1>2, <2>3, <2>4, <2>5 DEF StillLive, Untouched, Given, Social!Live
  <2>10. CallbackGoesOn(c)
    BY <1>1, <1>2, <2>2, <2>4, <2>5, <2>6, <2>8, <2>9
       DEF CallbackGoesOn, Searching, WorkingSteps
  <2> QED
    BY <2>7, <2>10, CallbackKeeps
<1>4. CASE Social!Refuse(c) /\ account' = account /\ lookups' \in 0..MaxLookups
  BY <1>1, <1>4, RefusedStep, FaultTypes
<1> QED
  BY <1>1, <1>3, <1>4, FaultTypes DEF Social!Create

\* The account that was found is given its identity, if it still lives.
LEMMA LinkStep ==
    ASSUME SocialInv, NEW c \in Callbacks, Social!Link(c) PROVE SocialInv'
<1> DEFINE x == call[c]
           y == [x EXCEPT !.pc = "issue"]
<1>1. /\ SocialTyped /\ x.pc = "link" /\ mail' = mail /\ home' = home /\ crossed' = crossed
      /\ ghosts' = ghosts /\ blind' = blind /\ moves' = moves
      /\ call' = [call EXCEPT ![c] = y]
  BY DEF SocialInv, Social!Link, Social!GoTo, SocialTyped
<1>2. /\ x \in CallLocals /\ x.person \in People /\ x.person # None /\ x.user \in Docs \cup {None}
      /\ x.user # None => Searching(x)
  BY <1>1, CallbackFields DEF Searching
<1>3. y \in CallLocals /\ y.pc = "issue" /\ y.person = x.person /\ y.user = x.user
  BY <1>1, <1>2 DEF CallLocals, WorkingSteps
<1> HIDE DEF y
<1>4. /\ call' \in [Callbacks -> CallLocals] /\ call'[c] = y
      /\ \A b \in Callbacks : b # c => call'[b] = call[b]
  BY <1>1, <1>3, CallMoves
<1>5. GhostGoesOn(c)
  BY <1>1, <1>3, <1>4 DEF GhostGoesOn, GhostlyCall
<1>6. ASSUME x.user # None, Social!Live(x.user), account' = Social!Linked(c, x.user),
             UNCHANGED <<apart, lookups>>
      PROVE  SocialInv'
  <2> DEFINE d == x.user
             row == [account[d] EXCEPT !.googleId = x.person, !.emailVerified = TRUE]
  <2>1. account[d] \in Social!Account /\ d \in Docs
    BY <1>1, <1>2, <1>6, FaultTypes DEF Social!Live
  <2>2. account' = [account EXCEPT ![d] = row]
    BY <1>1, <1>6, <2>1, FaultTypes DEF Social!Linked
  <2>3. row \in Social!Account /\ row.googleId = x.person
    BY <1>2, <2>1 DEF Social!Account
  <2> HIDE DEF row
  <2>4. /\ account' \in [Docs -> Social!Account \cup {None}]
        /\ account'[d] = row /\ row # None
        /\ \A e \in Docs : e # d => account'[e] = account[e]
    BY <1>1, <2>1, <2>2, <2>3, FaultTypes, SocialAssumption
  <2>5. SocialTyped'
    <3>1. Social!TypeOK'
      BY <1>1, <1>6, <2>4 DEF SocialTyped, Social!TypeOK
    <3>2. \A b \in Callbacks : call'[b].user # None => account'[call'[b].user] # None
      BY <1>1, <1>3, <1>4, <2>4, CallbackFields DEF SocialTyped
    <3>3. \A g \in People : home[g] # None => account'[home[g]] # None
      BY <1>1, <2>4, FaultTypes DEF SocialTyped
    <3> QED
      BY <1>1, <1>4, <3>1, <3>2, <3>3, FaultTypes DEF SocialTyped
  <2>6. \A e \in Docs : StillLive(e) => (e # d /\ Untouched(e)) \/ (e = d /\ Given(c, d))
    BY <1>1, <1>2, <1>6, <2>3, <2>4 DEF StillLive, Untouched, Given, Social!Live
  <2>7. CallbackGoesOn(c)
    BY <1>1, <1>2, <1>3, <1>4, <1>5, <1>6, <2>3, <2>4, <2>6
       DEF CallbackGoesOn, Searching, WorkingSteps
  <2> QED
    BY <2>5, <2>7, CallbackKeeps
<1>7. ASSUME account' = account, apart \subseteq apart', apart' \subseteq People,
             lookups' \in 0..MaxLookups,
             x.user # None /\ Social!Live(x.user) => x.person \in apart'
      PROVE  SocialInv'
  <2>1. SocialTyped'
    BY <1>1, <1>2, <1>3, <1>7, SameAccounts, FaultTypes DEF SocialTyped
  <2>2. CallbackGoesOn(c)
    BY <1>1, <1>2, <1>3, <1>4, <1>5, <1>7
       DEF CallbackGoesOn, Searching, WorkingSteps, Untouched, StillLive, Social!Live
  <2> QED
    BY <2>1, <2>2, CallbackKeeps
<1> QED
  BY <1>1, <1>2, <1>6, <1>7, FaultTypes DEF Social!Link

\* The session is issued, or Redis refuses it.
LEMMA IssueStep ==
    ASSUME SocialInv, NEW c \in Callbacks, Social!Issue(c) PROVE SocialInv'
<1> DEFINE x == call[c]
<1>1. /\ SocialTyped /\ x.pc = "issue" /\ Social!Refuse(c) /\ account' = account /\ mail' = mail
      /\ crossed' = crossed /\ apart' = apart /\ blind' = blind /\ moves' = moves
  BY DEF SocialInv, Social!Issue
<1>2. x.person \in People /\ x.user \in Docs \cup {None}
  BY <1>1, CallbackFields
<1>3. ASSUME home' = IF home[x.person] = None /\ x.user # None
                     THEN [home EXCEPT ![x.person] = x.user] ELSE home,
             ghosts' = IF x.user = None THEN ghosts + 1 ELSE ghosts, UNCHANGED lookups
      PROVE  SocialInv'
  <2>1. home' \in [People -> Docs \cup {None}]
    BY <1>1, <1>2, <1>3, FaultTypes
  <2>2. \A g \in People : \/ home'[g] = home[g]
                          \/ g = x.person /\ home'[g] = x.user /\ x.user # None
    BY <1>1, <1>2, <1>3, FaultTypes
  <2>3. ghosts' = ghosts \/ (GhostlyCall(x) /\ ghosts' = ghosts + 1)
    BY <1>1, <1>3 DEF GhostlyCall
  <2> QED
    BY <1>1, <1>3, <2>1, <2>2, <2>3, RefusedStep, FaultTypes
<1>4. CASE Social!Fault /\ UNCHANGED <<home, ghosts>>
  BY <1>1, <1>4, RefusedStep, FaultTypes
<1> QED
  BY <1>3, <1>4 DEF Social!Issue

\* Apple's callback and the rest of the world.
LEMMA OthersStep ==
    ASSUME SocialInv,
           \/ Social!AppleCallback \/ Social!KeysExpire
           \/ \E d \in Docs : \/ Social!SoftDelete(d)
                              \/ \E e \in Emails, n \in Usernames : Social!Register(d, e, n)
           \/ \E g \in People, e \in Emails \cup {None} : Social!MoveMail(g, e)
    PROVE  SocialInv'
<1>1. /\ SocialTyped
      /\ call' = call /\ crossed' = crossed /\ apart' = apart /\ home' = home
      /\ ghosts' = ghosts /\ blind' = blind
  BY DEF SocialInv, Social!AppleCallback, Social!KeysExpire, Social!SoftDelete,
         Social!Register, Social!MoveMail, Social!history
<1>2. ASSUME account' \in [Docs -> Social!Account \cup {None}],
             mail' \in [People -> Emails \cup {None}],
             lookups' \in 0..MaxLookups, moves' \in 0..MaxMoves,
             \A d \in Docs : account[d] # None => account'[d] # None,
             \A d \in Docs : StillLive(d) =>
                Untouched(d) \/ (account[d] = None /\ account'[d].googleId = None)
      PROVE  SocialInv'
  <2>1. Social!TypeOK'
    BY <1>1, <1>2 DEF SocialTyped, Social!TypeOK
  <2>2. \A c \in Callbacks : call[c].user # None => account'[call[c].user] # None
    BY <1>1, <1>2, CallbackFields DEF SocialTyped
  <2>3. \A g \in People : home[g] # None => account'[home[g]] # None
    BY <1>1, <1>2, FaultTypes DEF SocialTyped
  <2>4. SocialTyped'
    BY <1>1, <2>1, <2>2, <2>3 DEF SocialTyped
  <2> QED
    BY <1>1, <1>2, <2>4, OthersKeep
<1>3. CASE Social!AppleCallback \/ Social!KeysExpire
  <2>1. account' = account /\ mail' = mail /\ moves' = moves /\ lookups' \in 0..MaxLookups
    BY <1>1, <1>3, FaultTypes DEF Social!AppleCallback, Social!KeysExpire
  <2> QED
    BY <1>1, <1>2, <2>1, FaultTypes DEF StillLive, Untouched, Social!Live
<1>4. ASSUME NEW d \in Docs, Social!SoftDelete(d) PROVE SocialInv'
  <2> DEFINE row == [account[d] EXCEPT !.deleted = TRUE]
  <2>1. /\ account[d] \in Social!Account /\ mail' = mail /\ moves' = moves /\ lookups' = lookups
        /\ account' = [account EXCEPT ![d] = row]
    BY <1>1, <1>4, FaultTypes DEF Social!SoftDelete, Social!Live
  <2>2. row \in Social!Account /\ row.deleted
    BY <2>1 DEF Social!Account
  <2> HIDE DEF row
  <2>3. /\ account' \in [Docs -> Social!Account \cup {None}]
        /\ account'[d] = row /\ row # None
        /\ \A e \in Docs : e # d => account'[e] = account[e]
    BY <1>1, <2>1, <2>2, FaultTypes, SocialAssumption
  <2> QED
    BY <1>1, <1>2, <2>1, <2>2, <2>3, FaultTypes DEF StillLive, Untouched, Social!Live
<1>5. ASSUME NEW d \in Docs, NEW e \in Emails, NEW n \in Usernames, Social!Register(d, e, n)
      PROVE  SocialInv'
  <2> DEFINE row == [email |-> e, username |-> n, googleId |-> None,
                     emailVerified |-> None # None, deleted |-> FALSE]
  <2>1. /\ account[d] = None /\ account' = [account EXCEPT ![d] = row]
        /\ mail' = mail /\ moves' = moves /\ lookups' = lookups
    BY <1>5 DEF Social!Register, Social!Inserted
  <2>2. row \in Social!Account /\ row.googleId = None
    BY DEF Social!Account
  <2> HIDE DEF row
  <2>3. /\ account' \in [Docs -> Social!Account \cup {None}]
        /\ account'[d] = row /\ row # None
        /\ \A f \in Docs : f # d => account'[f] = account[f]
    BY <1>1, <2>1, <2>2, FaultTypes, SocialAssumption
  <2> QED
    BY <1>1, <1>2, <2>1, <2>2, <2>3, FaultTypes DEF StillLive, Untouched, Social!Live
<1>6. ASSUME NEW g \in People, NEW e \in Emails \cup {None}, Social!MoveMail(g, e)
      PROVE  SocialInv'
  <2>1. /\ account' = account /\ lookups' = lookups
        /\ moves' \in 0..MaxMoves /\ mail' \in [People -> Emails \cup {None}]
    BY <1>1, <1>6, FaultTypes, SocialAssumption DEF Social!MoveMail
  <2> QED
    BY <1>1, <1>2, <2>1, FaultTypes DEF StillLive, Untouched, Social!Live
<1> QED
  BY <1>3, <1>4, <1>5, <1>6

\* Every step of the sign-in with an identity keeps the invariant.
LEMMA SocialKeeps == ASSUME SocialInv, Social!Next PROVE SocialInv'
  BY CallbackStep, FindByGoogleIDStep, FindByEmailStep, CreateStep, LinkStep, IssueStep,
     OthersStep DEF Social!Next

-----------------------------------------------------------------------------
(* The two together *)

\* Whichever part a behaviour follows: the codes keep their invariants, which hold where
\* nothing happens too, and so do the identities if there are any.
SignInInv ==
    /\ TInv /\ PrimaryInv /\ HomesInv /\ AcceptInv /\ GuessInv
    /\ focus = "social" => SocialInv

\* Numbers that were verified before are at rest.
LEMMA WarmAtRest == WarmInit => AtRest
  BY MobileAssumption DEF WarmInit, AtRest, UserMobile

\* Both parts begin well.
LEMMA SignInStarts == SignInInit => SignInInv
<1> SUFFICES ASSUME SignInInit PROVE SignInInv
  OBVIOUS
<1>1. AtRest /\ (focus = "social" => Social!Init)
  BY WarmAtRest, InitAtRest DEF SignInInit
<1> QED
  BY <1>1, InitTInv, InitPrimary, InitAccept, InitGuess, SocialStarts DEF SignInInv

\* A behaviour stays with its part.
LEMMA SignInKeeps == SignInInv /\ [SignInNext]_signInVars => SignInInv'
<1> SUFFICES ASSUME SignInInv, [SignInNext]_signInVars PROVE SignInInv'
  OBVIOUS
<1>1. [Next]_vars /\ UNCHANGED focus
  BY DEF SignInNext, signInVars
<1>2. (TInv /\ PrimaryInv /\ HomesInv /\ AcceptInv /\ GuessInv)'
  BY <1>1, NextTInv, NextPrimary, NextHomes, NextAccept, NextGuess DEF SignInInv
<1>3. ASSUME focus = "social" PROVE SocialInv'
  <2>1. CASE Social!Next
    BY <1>3, <2>1, SocialKeeps DEF SignInInv
  <2>2. CASE UNCHANGED socialVars
    BY <1>3, <2>2 DEF SignInInv, socialVars, SocialInv, SocialTyped, CrossedInv, GhostInv,
       Ghostly, SearchInv, LinkInv, IssueInv, AtHome, Social!TypeOK, Social!HomeIsKept,
       Social!LinkedOnce, Social!Live
  <2> QED
    BY <1>3, <2>1, <2>2 DEF SignInNext, signInVars
<1> QED
  BY <1>1, <1>2, <1>3 DEF SignInInv

\* The invariant holds throughout.
THEOREM SignInInvariant == SignInSpec => []SignInInv
  BY SignInStarts, SignInKeeps, PTL DEF SignInSpec

\* The state of both parts is well typed.
THEOREM SignInTypeCorrect == SignInSpec => []TypesOK
<1>1. SignInInv => TypesOK
  BY DEF SignInInv, TInv, SocialInv, SocialTyped, TypesOK
<1> QED
  BY <1>1, SignInInvariant, PTL

\* GitHubHandler.Callback issues a session for nobody only where the error of a lookup is
\* dropped; the account an identity first signed in to stays the one it is linked to, and
\* two accounts are linked to one identity only by overlapping callbacks of it.
THEOREM IdentitiesKeepAccounts == SignInSpec => []IdentityKeepsAccount
<1>1. SignInInv => IdentityKeepsAccount
  <2> SUFFICES ASSUME SignInInv, focus = "social"
               PROVE  Social!GhostBudget /\ Social!HomeIsKept /\ Social!LinkedOnce
    BY DEF IdentityKeepsAccount
  <2>1. SocialTyped /\ GhostInv /\ Social!HomeIsKept /\ Social!LinkedOnce
    BY DEF SignInInv, SocialInv
  <2>2. IsFiniteSet(Callbacks) /\ Ghostly \subseteq Callbacks
    BY SocialAssumption DEF Ghostly
  <2>3. Cardinality(Ghostly) \in Nat
    BY <2>2, CountLess
  <2>4. ghosts \in Nat /\ blind \in Nat
    BY <2>1 DEF SocialTyped
  <2>5. ghosts <= blind
    BY <2>1, <2>3, <2>4 DEF GhostInv
  <2> QED
    BY <2>1, <2>5 DEF Social!GhostBudget
<1> QED
  BY <1>1, SignInInvariant, PTL

\* Numbers that were verified before change nothing of what VerifyOTP and SetPrimary keep:
\* primary marks, and how often a code is tried and accepted, stay bounded.
THEOREM PhonesAreBounded == SignInSpec => [](PrimaryBudget /\ CodeBudget)
<1>1. SignInInv => PrimaryBudget /\ CodeBudget
  BY PrimaryBound, AcceptBound, GuessBound DEF SignInInv, CodeBudget
<1> QED
  BY <1>1, SignInInvariant, PTL
=============================================================================
