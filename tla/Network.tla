-------------------------------- MODULE Network --------------------------------
(***************************************************************************)
(* The parts of the system that keep ChirpStack and the database together  *)
(* besides the LoRaWAN devices.  They share no state and run side by side: *)
(* `on' is the part whose steps a behaviour follows.                       *)
(***************************************************************************)
EXTENDS Naturals, FiniteSets

CONSTANTS
    Request, None, MaxFaults,
    Gateway, Org, OldGateways, OldOrg, First,
    Handler, HourlyCap, Hour, SavedDays, MaxListeners, MaxTime, MaxCrashes,
    Caller, Device, CsAppOf, OldDevices, OldMulticast

VARIABLES
    on,
    contended, hurt, faults,
    orgs, gateways, cs, call, import, imported, job, read, late,
    now, statuses, listeners, handler, boot, newest, blind, crashes,
    application, devices, multicasts, groups, adding, queue, req, changed, emptied, raced

G == INSTANCE Gateways
S == INSTANCE GatewayStatus
M == INSTANCE Multicasts WITH Request <- Caller

ASSUME NetworkAssumption ==
    G!GatewaysAssumption /\ S!StatusAssumption /\ M!MulticastsAssumption

common == <<contended, hurt, faults>>
gatewayVars == <<orgs, gateways, cs, call, import, imported, job, read, late>>
statusVars == <<now, statuses, listeners, handler, boot, newest, blind, crashes>>
multicastVars == <<application, devices, multicasts, groups, adding, queue, req,
                   changed, emptied, raced>>

Init ==
    /\ on \in {"gateways", "status", "multicasts"}
    /\ G!Init /\ S!Init /\ M!Init

Next ==
    \/ on = "gateways" /\ G!Next /\ UNCHANGED <<on, statusVars, multicastVars>>
    \/ on = "status" /\ S!Next /\ UNCHANGED <<on, common, gatewayVars, multicastVars>>
    \/ on = "multicasts" /\ M!Next /\ UNCHANGED <<on, gatewayVars, statusVars>>

vars == <<on, common, gatewayVars, statusVars, multicastVars>>

Spec == Init /\ [][Next]_vars

(* Every variable of every part has its type. *)
TypeOK == CASE on = "gateways" -> G!TypeOK [] on = "status" -> S!TypeOK [] OTHER -> M!TypeOK

(* Gateways: the stores agree on a gateway nobody is working on. *)
GatewaysInStep == on = "gateways" => G!GatewaysInStep

(* Gateways: updatedAt is the time of the last modification. *)
UpdatedAtTrue == on = "gateways" => G!UpdatedAtTrue

(* Status: the report of a period tells what the rows tell. *)
ReportExact == on = "status" => S!ReportExact

(* Status: the last status is never cleaned away. *)
LastStatusKept == on = "status" => S!LastStatusKept

(* Status: the rows of an hour are bounded. *)
HourCapped == on = "status" => S!HourCapped

(* Multicasts: a multicast and its group go together. *)
GroupsInStep == on = "multicasts" => M!GroupsInStep

(* Multicasts: the members of a group are the devices of its multicast. *)
MembersFollow == on = "multicasts" => M!MembersFollow

(* Multicasts: a group's members have one application in ChirpStack. *)
OneApplication == on = "multicasts" => M!OneApplication

(* Downlinks: a queue holds one downlink. *)
QueueOverwritten == on = "multicasts" => M!QueueOverwritten
=============================================================================
