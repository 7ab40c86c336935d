---------------------------- MODULE Administration ----------------------------
(***************************************************************************)
(* What the rows of the database, SigFox and ChirpStack are kept true by   *)
(* when they are administrated, and who may do it.  The parts share no     *)
(* state and run side by side: `on' is the part whose steps a behaviour    *)
(* follows; the variables of the others are not used.                      *)
(***************************************************************************)
EXTENDS Naturals, FiniteSets

CONSTANTS
    Request, Asker, None, MaxFaults,
    User, Org, App, ApiKey, OldUser, OldOrg, Asked, MaxGiven,
    Perm, LevelsOf, OrgOf, Applications, AppOrg, Lists, MaxMoves,
    OldRow, SigFoxDevice, OldSigFoxDevice, Type, OldType, MaxCallbacks,
    OldGroup, Login, ValidLogin,
    MaxUpdates, MaxTokens, MaxTokenFaults,
    Device, DeviceApp, TargetApp, ModelOrg,
    OldTarget, OldConnection, OldDataset, OldDecoder, OldModel,
    OldProfiles, Name, Lower, Organization, EndDevice, CsApplication, MaxPuts

VARIABLES
    on, faults,
    rows, links, named, kombit, req, granted, contended, hurt, slipped, raced,
    sender, known, held, listed, stage, found, moves, ever, always, allowed, shown,
    sigfoxRows, backend, callbacks, downlinkOn, sf, cleanup, answered, replaced,
    overwritten, unchecked, missing, late, cleaned, twice,
    logins, asking, answeredWith, unsaved, reverted,
    updatedAt, clients, valid, cached, send,
    appOrg, devices, targets, datasets, definitions, connections, wish, crossed, unmatched,
    profiles, csDevices, profiling, nameRaced, moved, lost, puts

M == INSTANCE Membership
A == INSTANCE AccessRights WITH App <- Applications
S == INSTANCE SigFox
G == INSTANCE SigFoxGroups WITH Request <- Asker
F == INSTANCE FiwareTokens WITH Send <- Asker, MaxFaults <- MaxTokenFaults
P == INSTANCE DeviceProfiles
C == INSTANCE Connections WITH Request <- Asker, Application <- Applications

ASSUME AdministrationAssumption ==
    /\ M!MembershipAssumption /\ A!AccessAssumption /\ S!SigFoxAssumption
    /\ G!GroupsAssumption /\ F!FiwareAssumption /\ P!ProfilesAssumption
    /\ C!ConnectionsAssumption

membershipVars == <<rows, links, named, kombit, req, granted, contended, hurt, slipped, raced>>
accessVars == <<sender, known, held, listed, stage, found, moves, ever, always, allowed, shown>>
sigfoxVars == <<sigfoxRows, backend, callbacks, downlinkOn, sf, cleanup, answered, replaced,
                overwritten, unchecked, missing, late, cleaned, twice>>
groupVars == <<logins, asking, answeredWith, unsaved, reverted>>
tokenVars == <<updatedAt, clients, valid, cached, send>>
connectionVars == <<appOrg, devices, targets, datasets, definitions, connections, wish, crossed, unmatched>>
profileVars == <<profiles, csDevices, profiling, nameRaced, moved, lost, puts>>

NoMembership ==
    /\ rows = None /\ links = None /\ named = None /\ kombit = None /\ req = None
    /\ granted = None /\ contended = None /\ hurt = None /\ slipped = None /\ raced = None
NoAccess ==
    /\ sender = None /\ known = None /\ held = None /\ listed = None /\ stage = None
    /\ found = None /\ moves = None /\ ever = None /\ always = None /\ allowed = None /\ shown = None
NoSigFox ==
    /\ sigfoxRows = None /\ backend = None /\ callbacks = None /\ downlinkOn = None
    /\ sf = None /\ cleanup = None /\ answered = None /\ replaced = None /\ overwritten = None
    /\ unchecked = None /\ missing = None /\ late = None /\ cleaned = None /\ twice = None
NoGroups == logins = None /\ asking = None /\ answeredWith = None /\ unsaved = None /\ reverted = None
NoTokens == updatedAt = None /\ clients = None /\ valid = None /\ cached = None /\ send = None
NoConnections ==
    /\ appOrg = None /\ devices = None /\ targets = None /\ datasets = None /\ definitions = None
    /\ connections = None /\ wish = None /\ crossed = None /\ unmatched = None
NoProfiles ==
    /\ profiles = None /\ csDevices = None /\ profiling = None /\ nameRaced = None
    /\ moved = None /\ lost = None /\ puts = None

Init ==
    \/ /\ on = "membership" /\ M!Init
       /\ NoAccess /\ NoSigFox /\ NoGroups /\ NoTokens /\ NoProfiles /\ NoConnections
    \/ /\ on = "access" /\ A!Init /\ faults = 0
       /\ NoMembership /\ NoSigFox /\ NoGroups /\ NoTokens /\ NoProfiles /\ NoConnections
    \/ /\ on = "sigfox" /\ S!Init
       /\ NoMembership /\ NoAccess /\ NoGroups /\ NoTokens /\ NoProfiles /\ NoConnections
    \/ /\ on = "groups" /\ G!Init
       /\ NoMembership /\ NoAccess /\ NoSigFox /\ NoTokens /\ NoProfiles /\ NoConnections
    \/ /\ on = "tokens" /\ F!Init
       /\ NoMembership /\ NoAccess /\ NoSigFox /\ NoGroups /\ NoProfiles /\ NoConnections
    \/ /\ on = "profiles" /\ P!Init /\ faults = 0
       /\ NoMembership /\ NoAccess /\ NoSigFox /\ NoGroups /\ NoTokens /\ NoConnections
    \/ /\ on = "connections" /\ C!Init /\ faults = 0
       /\ NoMembership /\ NoAccess /\ NoSigFox /\ NoGroups /\ NoTokens /\ NoProfiles

Next ==
    \/ /\ on = "membership" /\ M!Next
       /\ UNCHANGED <<on, accessVars, sigfoxVars, groupVars, tokenVars, profileVars, connectionVars>>
    \/ /\ on = "access" /\ A!Next
       /\ UNCHANGED <<on, faults, membershipVars, sigfoxVars, groupVars, tokenVars, profileVars, connectionVars>>
    \/ /\ on = "sigfox" /\ S!Next
       /\ UNCHANGED <<on, membershipVars, accessVars, groupVars, tokenVars, profileVars, connectionVars>>
    \/ /\ on = "groups" /\ G!Next
       /\ UNCHANGED <<on, membershipVars, accessVars, sigfoxVars, tokenVars, profileVars, connectionVars>>
    \/ /\ on = "tokens" /\ F!Next
       /\ UNCHANGED <<on, membershipVars, accessVars, sigfoxVars, groupVars, profileVars, connectionVars>>
    \/ /\ on = "profiles" /\ P!Next
       /\ UNCHANGED <<on, faults, membershipVars, accessVars, sigfoxVars, groupVars, tokenVars,
                   connectionVars>>
    \/ /\ on = "connections" /\ C!Next
       /\ UNCHANGED <<on, faults, membershipVars, accessVars, sigfoxVars, groupVars, tokenVars,
                   profileVars>>

vars == <<on, faults, membershipVars, accessVars, sigfoxVars,
          groupVars, tokenVars, profileVars, connectionVars>>

Spec == Init /\ [][Next]_vars

(* Every variable of the part that is followed has its type. *)
TypeOK ==
    CASE on = "membership" -> M!TypeOK [] on = "access" -> A!TypeOK
      [] on = "sigfox" -> S!TypeOK [] on = "groups" -> G!TypeOK
      [] on = "tokens" -> F!TypeOK [] on = "profiles" -> P!TypeOK
      [] on = "connections" -> C!TypeOK

(* Membership: the holders of a permission are the ones it was given to,   *)
(* and a request to join waits for its organization's answer.              *)
GrantsKept == on = "membership" => M!GrantsKept /\ M!RequestsKept

(* Membership: a permission reaches the applications it is for.            *)
ApplicationsReached == on = "membership" => M!ApplicationsReached

(* Membership: permissions and applications go with their organization,    *)
(* and what is made when missing is made once.                             *)
MembershipWhole == on = "membership" => M!OrganizationKept /\ M!MadeOnce

(* Access: a request does only what its sender may do.                     *)
NothingUnheld == on = "access" => A!NothingUnheld

(* Access: a request may do what its sender may do.                        *)
NothingWithheld == on = "access" => A!NothingWithheld

(* SigFox: the clean-up deletes what is gone at SigFox, and no more.       *)
CleanedRightly == on = "sigfox" => S!CleanedRightly

(* SigFox: a downlink is answered with once, and not lost.                 *)
DownlinksKept == on = "sigfox" => S!DownlinksKept

(* SigFox: a device type has one callback to OS2iot, the one for downlinks.*)
OneCallback == on = "sigfox" => S!OneCallback

(* SigFox: a group has the login its last change gave it.                  *)
LoginKept == on = "groups" => G!LoginKept

(* FIWARE: a retry does not use the token that failed.                     *)
RetryWithAnother == on = "tokens" => F!RetryWithAnother

(* Device profiles: names are used once, and a profile that devices have   *)
(* is not deleted.                                                         *)
ProfilesWhole == on = "profiles" => P!ProfilesWhole

(* Connections: what is joined is of one application, a model is of its    *)
(* device's organization, and what is published is the organization's own. *)
ConnectionsWhole == on = "connections" => C!WithinApplication /\ C!ModelsMatch /\ C!SharedRightly
=============================================================================
