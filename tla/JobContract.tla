---------------------------- MODULE JobContract ----------------------------
(***************************************************************************)
(* What a job queue promises whoever enqueues a job: a job that reached a  *)
(* broker is owed until a handler has run it, or until too many runs were  *)
(* cut short; from then on nobody runs it again.                           *)
(***************************************************************************)
EXTENDS Naturals

CONSTANTS Jobs, Patience   \* [Jobs -> Nat]: runs that may be cut before a job is given up

VARIABLES phase,   \* [Jobs -> Phases]
          runs,    \* handler runs that returned, of each job
          cuts     \* handler runs cut short, of each job

contractVars == <<phase, runs, cuts>>

\* "absent": no broker has it.  "over": no broker has it any more.
Phases == {"new", "absent", "owed", "over"}

Init == /\ phase = [j \in Jobs |-> "new"]
        /\ runs = [j \in Jobs |-> 0]
        /\ cuts = [j \in Jobs |-> 0]

Same(j) == phase'[j] = phase[j] /\ runs'[j] = runs[j] /\ cuts'[j] = cuts[j]

Enqueue(j) ==
    /\ phase[j] = "new" /\ phase'[j] \in {"absent", "owed"}
    /\ runs'[j] = runs[j] /\ cuts'[j] = cuts[j]

\* A handler returns; the broker may keep the job, for another try or because the
\* acknowledgement is lost.
Return(j) ==
    /\ phase[j] = "owed" /\ phase'[j] \in {"owed", "over"}
    /\ runs'[j] = runs[j] + 1 /\ cuts'[j] = cuts[j]

CutShort(j) ==
    /\ phase[j] = "owed" /\ runs'[j] = runs[j] /\ cuts'[j] = cuts[j] + 1
    /\ \/ phase'[j] = "owed"
       \/ phase'[j] = "over" /\ (runs[j] > 0 \/ cuts'[j] > Patience[j])

\* The acknowledgement of a later job covers it.
Acknowledge(j) ==
    /\ phase[j] = "owed" /\ phase'[j] = "over" /\ runs[j] > 0
    /\ runs'[j] = runs[j] /\ cuts'[j] = cuts[j]

\* The end of a process is a step of many jobs.
Next ==
    /\ phase' \in [Jobs -> Phases] /\ runs' \in [Jobs -> Nat] /\ cuts' \in [Jobs -> Nat]
    /\ \A j \in Jobs : Same(j) \/ Enqueue(j) \/ Return(j) \/ CutShort(j) \/ Acknowledge(j)

Spec == Init /\ [][Next]_contractVars
=============================================================================
