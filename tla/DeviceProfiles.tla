------------------------------ MODULE DeviceProfiles ------------------------------
(***************************************************************************)
(* Device profiles are kept in ChirpStack only; DeviceProfileService adds  *)
(* two rules by looking first: a name is used once, whatever its case, and *)
(* a profile that devices have is not deleted.  Looking takes many calls:  *)
(* the list of profiles and each of them, or the devices of one            *)
(* application after another.  ChirpStack knows neither rule: it takes the *)
(* devices of a deleted profile with it.                                   *)
(*                                                                         *)
(* One action is one call of ChirpStack, or the calls made at once.        *)
(* Devices are created, changed and moved by others (LorawanDevices).      *)
(* Fewer than 1000 profiles.                                               *)
(***************************************************************************)
EXTENDS Naturals, FiniteSets

CONSTANTS
    Request,      \* requests to the API; also the ids of the profiles they create
    OldProfiles,  \* profiles there at the start
    Name, Lower,  \* Lower[n]: n in lower case
    Organization,
    EndDevice, CsApplication,
    None,
    MaxPuts       \* bound: devices created, changed or moved

ProfilesAssumption ==
    /\ Request \cap OldProfiles = {} /\ None \notin Request \cup OldProfiles \cup CsApplication
    /\ Lower \in [Name -> Name] /\ IsFiniteSet(EndDevice) /\ MaxPuts \in Nat

ProfileId == Request \cup OldProfiles

VARIABLES
    profiles,   \* the profiles of ChirpStack
    csDevices,  \* the devices of ChirpStack: application and profile
    profiling,  \* profiling[r]: where request r is, what it has seen
    nameRaced,  \* history: names two requests wrote after looking at the same time
    moved,      \* history: devices put while a profile was being deleted
    lost,       \* history: devices deleted with a profile
    puts

vars == <<profiles, csDevices, profiling, nameRaced, moved, lost, puts>>

Profile == [name : Name, organization : Organization]
NoProfile == [name |-> None, organization |-> None]
NoDevice == [app |-> None, profile |-> None]
Fresh == [kind |-> "none", stage |-> "new", id |-> None, profile |-> NoProfile, seen |-> {}, todo |-> {}]

Kind == {"none", "create", "update", "delete"}
Stage == {"new", "list", "details", "write", "scan", "remove", "done", "failed"}
Seen == SUBSET ((ProfileId \X Name) \cup ProfileId)  \* profiles with their names; the ones devices have
Profiling ==
    [kind : Kind, stage : Stage, id : ProfileId \cup {None}, profile : Profile \cup {NoProfile},
     seen : Seen, todo : SUBSET CsApplication]

(* Every variable has its type. *)
TypeOK ==
    /\ profiles \in [ProfileId -> Profile \cup {NoProfile}]
    /\ csDevices \in [EndDevice -> [app : CsApplication, profile : ProfileId] \cup {NoDevice}]
    /\ profiling \in [Request -> Profiling]
    /\ nameRaced \subseteq Name /\ moved \subseteq EndDevice /\ lost \subseteq EndDevice
    /\ puts \in 0..MaxPuts

(* At the start the names are distinct and every device has a profile.     *)
Init ==
    /\ \E names \in [OldProfiles -> Name], o \in Organization :
         /\ \A p, q \in OldProfiles : Lower[names[p]] = Lower[names[q]] => p = q
         /\ profiles = [p \in ProfileId |-> IF p \in OldProfiles
                          THEN [name |-> names[p], organization |-> o] ELSE NoProfile]
    /\ csDevices \in [EndDevice -> [app : CsApplication, profile : OldProfiles]]
    /\ profiling = [r \in Request |-> Fresh]
    /\ nameRaced = {} /\ moved = {} /\ lost = {} /\ puts = 0
-----------------------------------------------------------------------------
Exists(p) == profiles[p] # NoProfile
At(r, s) == profiling[r].stage = s
Goto(r, s) == profiling' = [profiling EXCEPT ![r].stage = s]
End(r, s) == profiling' = [profiling EXCEPT ![r] = [Fresh EXCEPT !.stage = s]]
Begin(r, q) == profiling[r] = Fresh /\ profiling' = [profiling EXCEPT ![r] = q]
history == <<nameRaced, moved, lost>>

(* createDeviceProfile and updateDeviceProfile: isNameInUse first.         *)
CreateProfile(r, n, o) ==
    /\ Begin(r, [Fresh EXCEPT !.kind = "create", !.stage = "list", !.id = r,
                              !.profile = [name |-> n, organization |-> o]])
    /\ UNCHANGED <<profiles, csDevices, history, puts>>

UpdateProfile(r, p, n, o) ==
    /\ Begin(r, [Fresh EXCEPT !.kind = "update", !.stage = "list", !.id = p,
                              !.profile = [name |-> n, organization |-> o]])
    /\ UNCHANGED <<profiles, csDevices, history, puts>>

(* findAllDeviceProfiles: the list, with the names ...                     *)
ListProfiles(r) ==
    /\ At(r, "list")
    /\ profiling' = [profiling EXCEPT ![r].stage = "details",
                       ![r].seen = {<<p, profiles[p].name>> : p \in {p \in ProfileId : Exists(p)}}]
    /\ UNCHANGED <<profiles, csDevices, history, puts>>

(* Mutant of NameInUse: the case of the names counts.                      *)
SameNameInUse(seen, name, id) == \E x \in seen : x[1] # id /\ x[2] = name

NameInUse(seen, name, id) == \E x \in seen : x[1] # id /\ Lower[x[2]] = Lower[name]

(* ... and each of them; one that is gone fails the request.               *)
ReadProfiles(r) ==
    /\ At(r, "details")
    /\ LET q == profiling[r] IN
       IF (\A x \in q.seen : Exists(x[1])) /\ ~NameInUse(q.seen, q.profile.name, q.id)
       THEN profiling' = [profiling EXCEPT ![r].stage = "write", ![r].seen = {}]
       ELSE End(r, "failed")
    /\ UNCHANGED <<profiles, csDevices, history, puts>>

Racing(r, n) == \E q \in Request \ {r} :
    profiling[q].stage \in {"details", "write"} /\ Lower[profiling[q].profile.name] = Lower[n]

(* post, put: the whole profile, with the organization of the request.     *)
WriteProfile(r) ==
    /\ At(r, "write")
    /\ LET q == profiling[r] IN
       IF q.kind = "update" /\ ~Exists(q.id)
       THEN End(r, "failed") /\ UNCHANGED <<profiles, nameRaced>>
       ELSE /\ profiles' = [profiles EXCEPT ![q.id] = q.profile]
            /\ nameRaced' = IF Racing(r, q.profile.name) THEN nameRaced \cup {Lower[q.profile.name]} ELSE nameRaced
            /\ End(r, "done")
    /\ UNCHANGED <<csDevices, moved, lost, puts>>
-----------------------------------------------------------------------------
(* Mutant of Scanned: the last application is left out.                    *)
ScannedButOne(apps) == IF apps = {} THEN {} ELSE apps \ {CHOOSE a \in apps : TRUE}

Scanned(apps) == apps

(* deleteDeviceProfile: the profile is read, and the applications ...      *)
DeleteProfile(r, p) ==
    /\ Exists(p)
    /\ Begin(r, [Fresh EXCEPT !.kind = "delete", !.stage = "scan", !.id = p, !.todo = Scanned(CsApplication)])
    /\ UNCHANGED <<profiles, csDevices, history, puts>>

(* ... then the devices of each ...                                        *)
ScanApplication(r, a) ==
    /\ At(r, "scan") /\ a \in profiling[r].todo
    /\ profiling' = [profiling EXCEPT ![r].todo = @ \ {a},
                       ![r].seen = @ \cup {csDevices[d].profile : d \in {d \in EndDevice : csDevices[d].app = a}}]
    /\ UNCHANGED <<profiles, csDevices, history, puts>>

(* ... and it is refused if one has the profile.                           *)
DecideDelete(r) ==
    /\ At(r, "scan") /\ profiling[r].todo = {}
    /\ IF profiling[r].id \in profiling[r].seen THEN End(r, "failed")
       ELSE profiling' = [profiling EXCEPT ![r].stage = "remove", ![r].seen = {}]
    /\ UNCHANGED <<profiles, csDevices, history, puts>>

Having(p) == {d \in EndDevice : csDevices[d].profile = p}

RemoveProfile(r) ==
    /\ At(r, "remove")
    /\ LET p == profiling[r].id IN
       IF Exists(p)
       THEN /\ profiles' = [profiles EXCEPT ![p] = NoProfile]
            /\ csDevices' = [d \in EndDevice |-> IF d \in Having(p) THEN NoDevice ELSE csDevices[d]]
            /\ lost' = lost \cup Having(p)
            /\ End(r, "done")
       ELSE End(r, "failed") /\ UNCHANGED <<profiles, csDevices, lost>>
    /\ UNCHANGED <<nameRaced, moved, puts>>

(* A device is created, given another profile or moved.                    *)
PutDevice(d, a, p) ==
    /\ puts < MaxPuts /\ puts' = puts + 1
    /\ Exists(p) /\ csDevices' = [csDevices EXCEPT ![d] = [app |-> a, profile |-> p]]
    /\ moved' = IF \E r \in Request : profiling[r].kind = "delete" THEN moved \cup {d} ELSE moved
    /\ UNCHANGED <<profiles, profiling, nameRaced, lost>>

Next ==
    \/ \E r \in Request :
         \/ \E n \in Name, o \in Organization : CreateProfile(r, n, o) \/ \E p \in ProfileId : UpdateProfile(r, p, n, o)
         \/ \E p \in ProfileId : DeleteProfile(r, p)
         \/ \E a \in CsApplication : ScanApplication(r, a)
         \/ ListProfiles(r) \/ ReadProfiles(r) \/ WriteProfile(r) \/ DecideDelete(r) \/ RemoveProfile(r)
    \/ \E d \in EndDevice, a \in CsApplication, p \in ProfileId : PutDevice(d, a, p)

Spec == Init /\ [][Next]_vars
-----------------------------------------------------------------------------
(* Two profiles have one name only if both were written after looking at   *)
(* the same time; and a profile that is deleted takes only devices with it *)
(* that were created, changed or moved while it was being deleted.         *)
ProfilesWhole ==
    /\ \A p, q \in ProfileId :
         Exists(p) /\ Exists(q) /\ Lower[profiles[p].name] = Lower[profiles[q].name]
             => p = q \/ Lower[profiles[p].name] \in nameRaced
    /\ lost \subseteq moved
=============================================================================
