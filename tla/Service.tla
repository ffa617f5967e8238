------------------------------ MODULE Service -------------------------------
(***************************************************************************)
(* The service over its life: the releases of an app and the devices it    *)
(* gates beside them (VersionGate), and the processes it runs in           *)
(* (ApiProcess).  They share no state: a behaviour follows the releases,   *)
(* with or without the devices, or the processes.                          *)
(***************************************************************************)
EXTENDS VersionGate

CONSTANTS Apis, Calls, MaxBoots, MaxLosses, MaxInserts

VARIABLES
    focus,     \* the part this behaviour follows
    phase, open, link, subscribed, inbox, call, copies, boots, losses, inserts

processVars == <<phase, open, link, subscribed, inbox, call, copies, boots, losses, inserts>>

serviceVars == <<focus, gateVars, processVars>>

Process == INSTANCE ApiProcess WITH MaxFaults <- MaxInserts, faults <- inserts

\* Bounds on boots, lost connections and failed inserts.
ASSUME ServiceAssumption ==
    MaxBoots \in Nat /\ MaxLosses \in Nat /\ MaxInserts \in Nat

-----------------------------------------------------------------------------

ServiceInit == focus \in {"store", "gate", "process"} /\ GateInit /\ Process!Init

ServiceNext ==
    \/ /\ focus = "store"
       /\ (\E b \in Builds : Release(b)) \/ \E p \in AdminPolicies : SetPolicy(p)
       /\ UNCHANGED <<focus, processVars>>
    \/ focus = "gate" /\ GateNext /\ UNCHANGED <<focus, processVars>>
    \/ focus = "process" /\ Process!Next /\ UNCHANGED <<focus, gateVars>>

ServiceSpec ==
    /\ ServiceInit /\ [][ServiceNext]_serviceVars
    /\ Fairness /\ Process!Fairness

-----------------------------------------------------------------------------
(* What the parts promise *)

\* The types of both.
TypesOK == GateTypeOK /\ Process!TypeOK

\* A request in flight is served before the process closes what it needs (app.Run), and a
\* reading is stored once however often it is sent again (mqtt.NewClient).
ServedOnce == Process!InFlightServed /\ Process!OneReading

\* A process told to stop stops (app.Run).
StopEnds == Process!StopEnds
=============================================================================
