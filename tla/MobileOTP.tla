----------------------------- MODULE MobileOTP -----------------------------
(***************************************************************************)
(* Verification of phone numbers by one-time codes (modules/mobile): the   *)
(* code waits in Redis under otp:<e164>, the verified number is a document *)
(* of user_mobiles.  Each Redis or MongoDB call of a request is one step;  *)
(* the counter of wrong guesses is read and written back in two of them.   *)
(***************************************************************************)
EXTENDS Naturals, FiniteSets, FiniteSetsExt

CONSTANTS
    Users,
    Numbers,
    Reqs,            \* requests that may be in flight together
    Codes,           \* codes that may be drawn, all different
    OtpMaxAttempts,  \* otpMaxAttempts
    MaxFaults,       \* bound on failed calls and abandoned requests
    None

\* None is neither an identifier nor a code; a code may be guessed once at least.
ASSUME MobileAssumption ==
    /\ None \notin Users \cup Numbers \cup Codes
    /\ IsFiniteSet(Reqs) /\ Reqs # {} /\ IsFiniteSet(Numbers)
    /\ OtpMaxAttempts \in Nat \ {0}
    /\ MaxFaults \in Nat

VARIABLES
    otp,       \* the code stored for each number
    mobile,    \* the user_mobiles document of each number
    req,       \* the locals of each request
    faults,
    issued,    \* history: the codes drawn so far
    tried,     \* history: wrong guesses compared with each code
    accepted,  \* history: how often each code was accepted
    takeovers  \* history: primary numbers each user took over

vars == <<otp, mobile, req, faults, issued, tried, accepted, takeovers>>

-----------------------------------------------------------------------------
(* Types and null values *)

NoOTP == [code |-> None, attempts |-> 0]

MobileOTPData == [code : Codes, attempts : 0..OtpMaxAttempts]

UserMobile == [owner : Users \cup {None},   \* None: no document
               isPrimary : BOOLEAN]

NoMobile == [owner |-> None, isPrimary |-> FALSE]

Request == [pc : {"idle", "store", "discard", "miss", "consume", "upsert", "mark"},
            user : Users \cup {None},
            number : Numbers \cup {None},
            read : MobileOTPData \cup {NoOTP}]   \* otpData as it was read

Idle == [pc |-> "idle", user |-> None, number |-> None, read |-> NoOTP]

TypeOK ==
    /\ otp \in [Numbers -> MobileOTPData \cup {NoOTP}]
    /\ mobile \in [Numbers -> UserMobile]
    /\ req \in [Reqs -> Request]
    /\ faults \in Nat
    /\ issued \in SUBSET Codes
    /\ tried \in [Codes -> Nat]
    /\ accepted \in [Codes -> Nat]
    /\ takeovers \in [Users -> Nat]

Init ==
    /\ otp = [n \in Numbers |-> NoOTP]
    /\ mobile = [n \in Numbers |-> NoMobile]
    /\ req = [r \in Reqs |-> Idle]
    /\ faults = 0
    /\ issued = {}
    /\ tried = [c \in Codes |-> 0]
    /\ accepted = [c \in Codes |-> 0]
    /\ takeovers = [u \in Users |-> 0]

-----------------------------------------------------------------------------
(* Helpers *)

At(r, label) == req[r].pc = label

Start(r, label, u, n, data) ==
    req' = [req EXCEPT ![r] = [pc |-> label, user |-> u, number |-> n, read |-> data]]

Finish(r) == req' = [req EXCEPT ![r] = Idle]

Fault == faults < MaxFaults /\ faults' = faults + 1

\* Only verification writes a document, so every document is verified.
Verified(n) == mobile[n].owner # None

history == <<issued, tried, accepted, takeovers>>

-----------------------------------------------------------------------------
(* SendOTP *)

\* The number must not be verified, by anyone, when the request begins; a count
\* that fails is taken for zero.
SendCheck(r, u, n) ==
    /\ At(r, "idle")
    /\ issued # Codes
    /\ \/ ~Verified(n) /\ UNCHANGED faults
       \/ Fault
    /\ Start(r, "store", u, n, NoOTP)
    /\ UNCHANGED <<otp, mobile, history>>

\* SET replaces whatever code was waiting.  Whether the message is delivered
\* changes nothing here: the code stays stored when the provider fails.
StoreOTP(r, c) ==
    /\ At(r, "store")
    /\ c \notin issued
    /\ otp' = [otp EXCEPT ![req[r].number] = [code |-> c, attempts |-> 0]]
    /\ issued' = issued \cup {c}
    /\ Finish(r)
    /\ UNCHANGED <<mobile, faults, tried, accepted, takeovers>>

-----------------------------------------------------------------------------
(* VerifyOTP *)

\* Bug for comparison: one guess too many is compared.
LenientVerdict(data, right) ==
    IF data.attempts > OtpMaxAttempts THEN "discard"
    ELSE IF right THEN "consume" ELSE "miss"

\* What is done with the code that was read and a guess that is right or wrong.
Verdict(data, right) ==
    IF data.attempts >= OtpMaxAttempts THEN "discard"
    ELSE IF right THEN "consume" ELSE "miss"

\* GET: any user may try a number's code, rightly or not.
VerifyRead(r, u, n, right) ==
    /\ At(r, "idle")
    /\ otp[n] # NoOTP
    /\ LET verdict == Verdict(otp[n], right)
       IN  /\ Start(r, verdict, u, n, otp[n])
           /\ tried' = IF verdict = "miss" THEN [tried EXCEPT ![otp[n].code] = @ + 1]
                       ELSE tried
           /\ accepted' = IF verdict = "consume" THEN [accepted EXCEPT ![otp[n].code] = @ + 1]
                          ELSE accepted
    /\ UNCHANGED <<otp, mobile, faults, issued, takeovers>>

\* Bug for comparison: the code stays where it is.
KeepOTP(n) == UNCHANGED otp

DelOTP(n) == otp' = [otp EXCEPT ![n] = NoOTP]

\* Too many attempts: the code is deleted, if the DEL gets through.
Discard(r) ==
    /\ At(r, "discard")
    /\ \/ DelOTP(req[r].number) /\ UNCHANGED faults
       \/ UNCHANGED otp /\ Fault
    /\ Finish(r)
    /\ UNCHANGED <<mobile, history>>

\* Bug for comparison: a wrong guess is not counted.
UncountedMiss(data) == data

CountedMiss(data) == [data EXCEPT !.attempts = @ + 1]

\* Wrong: the whole record that was read is written back, one attempt higher,
\* whatever is stored by now.
Miss(r) ==
    /\ At(r, "miss")
    /\ \/ /\ otp' = [otp EXCEPT ![req[r].number] = CountedMiss(req[r].read)]
          /\ UNCHANGED faults
       \/ UNCHANGED otp /\ Fault
    /\ Finish(r)
    /\ UNCHANGED <<mobile, history>>

\* Right: the code is deleted, if the DEL gets through.
Consume(r) ==
    /\ At(r, "consume")
    /\ \/ DelOTP(req[r].number) /\ UNCHANGED faults
       \/ UNCHANGED otp /\ Fault
    /\ req' = [req EXCEPT ![r].pc = "upsert"]
    /\ UNCHANGED <<mobile, history>>

TakesOver(u, n) == mobile[n].isPrimary /\ mobile[n].owner # u

\* The upsert by number takes a document over from whoever has it, and leaves
\* isPrimary alone.
Upsert(r) ==
    LET u == req[r].user
        n == req[r].number
    IN  /\ At(r, "upsert")
        /\ mobile' = [mobile EXCEPT ![n].owner = u]
        /\ takeovers' = [takeovers EXCEPT ![u] = IF TakesOver(u, n) THEN @ + 1 ELSE @]
        /\ Finish(r)
        /\ UNCHANGED <<otp, faults, issued, tried, accepted>>

-----------------------------------------------------------------------------
(* SetPrimary and Delete *)

OwnedBy(u) == {n \in Numbers : mobile[n].owner = u}

\* Bug for comparison: the numbers that were primary stay so.
NoneDemoted(u) == mobile

Demoted(u) == [n \in Numbers |-> IF n \in OwnedBy(u)
                                 THEN [mobile[n] EXCEPT !.isPrimary = FALSE]
                                 ELSE mobile[n]]

\* UpdateMany: none of the user's numbers is primary.
ClearPrimary(r, u, n) ==
    /\ At(r, "idle")
    /\ mobile' = Demoted(u)
    /\ Start(r, "mark", u, n, NoOTP)
    /\ UNCHANGED <<otp, faults, history>>

\* UpdateOne, which matches nothing when the number is not the user's.
MarkPrimary(r) ==
    /\ At(r, "mark")
    /\ mobile' = IF req[r].number \in OwnedBy(req[r].user)
                 THEN [mobile EXCEPT ![req[r].number].isPrimary = TRUE]
                 ELSE mobile
    /\ Finish(r)
    /\ UNCHANGED <<otp, faults, history>>

Delete(u, n) ==
    /\ n \in OwnedBy(u)
    /\ mobile' = [mobile EXCEPT ![n] = NoMobile]
    /\ UNCHANGED <<otp, req, faults, history>>

-----------------------------------------------------------------------------
(* The environment *)

\* The ten minutes are over.  A wrong guess starts them again.
OTPExpires(n) ==
    /\ otp[n] # NoOTP
    /\ DelOTP(n)
    /\ UNCHANGED <<mobile, req, faults, history>>

\* The request ends where it stands.
Abort(r) ==
    /\ ~At(r, "idle")
    /\ Fault
    /\ Finish(r)
    /\ UNCHANGED <<otp, mobile, history>>

-----------------------------------------------------------------------------

\* The four requests.
SendOTP(r) ==
    \/ \E u \in Users, n \in Numbers : SendCheck(r, u, n)
    \/ \E c \in Codes : StoreOTP(r, c)

VerifyOTP(r) ==
    \/ \E u \in Users, n \in Numbers, right \in BOOLEAN : VerifyRead(r, u, n, right)
    \/ Discard(r) \/ Miss(r) \/ Consume(r) \/ Upsert(r)

SetPrimary(r) ==
    \/ \E u \in Users, n \in Numbers : ClearPrimary(r, u, n)
    \/ MarkPrimary(r)

Next ==
    \/ \E r \in Reqs : SendOTP(r) \/ VerifyOTP(r) \/ SetPrimary(r) \/ Abort(r)
    \/ \E u \in Users, n \in Numbers : Delete(u, n)
    \/ \E n \in Numbers : OTPExpires(n)

Spec == Init /\ [][Next]_vars

-----------------------------------------------------------------------------
(* Properties *)

\* "Max 5 attempts per OTP before auto-invalidation."
MaxAttemptsPerOTP == \A c \in Codes : tried[c] <= OtpMaxAttempts

\* C(M + R, M): the ways M old counts and the R requests that may hold one line up.
Lineups == Cardinality(kSubset(OtpMaxAttempts, 1..(OtpMaxAttempts + Cardinality(Reqs))))

\* What the counter is worth when guesses overlap: each of R requests can hold
\* an old count and write it back, so a code stands C(M + R, M) - 1 wrong
\* guesses instead of M, and each guess whose request is cut short comes free.
GuessBudget == \A c \in Codes : tried[c] < Lineups + faults

\* A code is used up by the request that deletes it.  It is accepted again only
\* by requests that had read it too, or that read it after the write of a stale
\* wrong guess brought it back: once, when requests do not overlap.
AcceptBudget ==
    \A c \in Codes :
        accepted[c] <= 1 + (Cardinality(Reqs) - 1) * (tried[c] + 1) + faults

\* What a code is worth, tried and right.
CodeBudget == GuessBudget /\ AcceptBudget

Primaries(u) == {n \in OwnedBy(u) : mobile[n].isPrimary}

\* Each request in flight may mark one number after the last one cleared them
\* all, and a primary number taken over from another user stays primary.
PrimaryBudget ==
    \A u \in Users : Cardinality(Primaries(u)) <= Cardinality(Reqs) + takeovers[u]
=============================================================================
