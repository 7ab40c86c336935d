------------------------------ MODULE Multicasts ------------------------------
(***************************************************************************)
(* A multicast of OS2IoT is a row with its devices and, once it has had a  *)
(* LoRaWAN device, a multicast group in ChirpStack.  MulticastService      *)
(* changes ChirpStack first and then the row, and adds the devices to the  *)
(* group by calls nobody waits for: an error of one of them is an          *)
(* unhandled rejection and ends the process.  The queue of a group, and of *)
(* a LoRaWAN device, is overwritten in two calls.                          *)
(*                                                                         *)
(* One action is one statement on the database or one call to ChirpStack   *)
(* (the calls that only read one device after the other are one action).   *)
(* Left out: the group's address, keys and rates; devices of other types,  *)
(* of which ChirpStack knows nothing; who may do what.                     *)
(***************************************************************************)
EXTENDS Naturals, FiniteSets

CONSTANTS
    Request,     \* requests to the API; also the ids of what they create
    OldMulticast,         \* the multicast there at the start, and its group
    OldDevices,  \* its devices
    Device,      \* LoRaWAN devices
    CsAppOf,     \* CsAppOf[d]: the application of device d in ChirpStack
    None,        \* no row, no group, no application
    MaxFaults    \* bound: failed calls and statements, process deaths

Id == Request \cup {OldMulticast}
CsApps == {CsAppOf[d] : d \in Device}
Target == Id \cup Device    \* what has a queue: a group or a device

(* app: it belongs to the application (nobody can reach one that does not). *)
Row == [devices : SUBSET Device, group : Id \cup {None}, app : BOOLEAN]
Group == [members : SUBSET Device, app : CsApps]

MulticastsAssumption ==
    /\ OldMulticast \notin Request
    /\ None \notin Id \cup Device \cup CsApps \cup Row \cup Group
    /\ Id \cap Device = {}
    /\ OldDevices \subseteq Device /\ OldDevices # {}
    /\ \A d, e \in OldDevices : CsAppOf[d] = CsAppOf[e]
    /\ MaxFaults \in Nat

VARIABLES
    application,  \* the application of the multicasts is there
    devices,      \* rows of iot_device, also in ChirpStack
    multicasts,         \* rows[m]: rows of multicast with their lorawan-multicast
    groups,       \* groups[g]: multicast groups in ChirpStack
    adding,       \* devices on their way into a group
    queue,        \* queue[t]: downlinks waiting in ChirpStack
    req,          \* req[r]: where request r is and what it has read
    contended,    \* history: multicasts two requests were working on at once
    hurt,         \* history: multicasts, groups a failure left in one store
    changed,      \* history: groups whose multicast got other devices
    emptied,      \* history: groups deleted as rows when they had no device
    raced,        \* history: targets of two downlinks at once
    faults

stores == <<application, devices, multicasts, groups, adding, queue>>
history == <<contended, hurt, changed, emptied, raced>>
vars == <<stores, req, history, faults>>

Idle == [kind |-> "none", stage |-> "new", id |-> None, devs |-> {},
         was |-> [devices |-> {}, group |-> None, app |-> TRUE], todo |-> {}, out |-> {}, in |-> {}]
Req == [kind : {"none", "create", "update", "delete", "downlink", "deleteDevice", "deleteApp"},
        stage : {"new", "check", "post", "get", "validate", "put", "save", "trim",
                 "csDelete", "dbDelete", "flush", "enqueue", "commit", "wipe", "done", "failed"},
        id : Target \cup {None},   \* the multicast, the queue or the device
        devs : SUBSET Device,      \* the devices it is to have
        was : Row,                 \* the row as it was read
        todo : SUBSET (Id \X Row), \* multicasts of the device or application, as read
        out : SUBSET (Id \X Device),  \* multicasts and devices to part
        in : SUBSET (Id \X Device)]   \* and to join again

(* Every variable has its type. *)
TypeOK ==
    /\ application \in BOOLEAN /\ devices \subseteq Device
    /\ multicasts \in [Id -> Row \cup {None}]
    /\ groups \in [Id -> Group \cup {None}]
    /\ adding \subseteq Device \X Id
    /\ queue \in [Target -> SUBSET Request]
    /\ req \in [Request -> Req]
    /\ contended \subseteq Id /\ hurt \subseteq Id
    /\ changed \subseteq Id /\ emptied \subseteq Id /\ raced \subseteq Target
    /\ faults \in 0..MaxFaults

OldApp == CHOOSE c \in CsApps : \E d \in OldDevices : c = CsAppOf[d]

Init ==
    /\ application = TRUE /\ devices = Device
    /\ multicasts = [m \in Id |-> IF m # OldMulticast THEN None
                               ELSE [devices |-> OldDevices, group |-> OldMulticast, app |-> TRUE]]
    /\ groups = [g \in Id |-> IF g # OldMulticast THEN None
                           ELSE [members |-> OldDevices, app |-> OldApp]]
    /\ adding = {}
    /\ queue = [t \in Target |-> {}]
    /\ req = [r \in Request |-> Idle]
    /\ contended = {} /\ hurt = {} /\ changed = {} /\ emptied = {} /\ raced = {}
    /\ faults = 0
-----------------------------------------------------------------------------
Existing == {m \in Id : multicasts[m] # None}
MulticastsOfApp == {m \in Existing : multicasts[m].app}
(* Group g, or that of multicast m, is in ChirpStack. *)
GroupThere(g) == g # None /\ groups[g] # None
Linked(m) == m \in Existing /\ GroupThere(multicasts[m].group)

At(r, s) == req[r].stage = s
Busy(r) == req[r].stage \notin {"new", "done", "failed"}
Fault == faults < MaxFaults /\ faults' = faults + 1
Quiet == UNCHANGED <<history, faults>>
Goto(r, s) == req' = [req EXCEPT ![r].stage = s]

(* The multicasts a request works on.                                      *)
Works(q) == ({q.id} \cap Id) \cup {x[1] : x \in q.todo \cup q.out \cup q.in}

(* Rows an open transaction has written. *)
Locked(m) == \E r \in Request : m \in {x[1] : x \in req[r].out \cup req[r].in}
Dying == {req[r].id : r \in {p \in Request : req[p].kind = "deleteDevice"
                                               /\ req[p].stage \in {"csDelete", "commit"}}}

Begin(r, q) ==
    /\ req[r] = Idle /\ application
    /\ req' = [req EXCEPT ![r] = q]
    /\ contended' = contended \cup
           UNION {Works(q) \cap Works(req[p]) : p \in {p \in Request : Busy(p)}}
    /\ UNCHANGED <<stores, hurt, changed, emptied, faults>>

NewReq(kind, stage, id) == [Idle EXCEPT !.kind = kind, !.stage = stage, !.id = id]
NoRow == Idle.was

(* What request r has changed in ChirpStack and not in the database.       *)
Halfway(r) ==
    IF req[r].stage = "save" /\ req[r].was.group = r THEN {r, req[r].id}
    ELSE IF req[r].stage = "dbDelete" /\ req[r].was.devices # {}
    THEN {req[r].id, req[r].was.group} \cap Id
    ELSE IF req[r].kind = "deleteApp" /\ Busy(r)
    THEN Id \cap UNION {{m, multicasts[m].group} : m \in Existing}
    ELSE {}

(* The request is answered: what it has read is gone. *)
Answer(r, s) == req' = [req EXCEPT ![r] = NewReq(req[r].kind, s, None)]

Abort(r) ==
    /\ Answer(r, "failed")
    /\ hurt' = hurt \cup Halfway(r)
    /\ UNCHANGED <<stores, contended, changed, emptied, raced>>

(* The process ends, with all its requests and calls, and starts again.    *)
ProcessEnds ==
    /\ hurt' = hurt \cup {x[2] : x \in adding} \cup UNION {Halfway(r) : r \in Request}
    /\ req' = [r \in Request |-> IF Busy(r) THEN NewReq(req[r].kind, "failed", None) ELSE req[r]]
    /\ adding' = {}
    /\ UNCHANGED <<application, devices, multicasts, groups, queue, contended, changed, emptied, raced>>
-----------------------------------------------------------------------------
(* create: the devices' applications are compared, if there are devices ... *)
BeginCreate(r, ds) ==
    /\ Begin(r, [NewReq("create", IF ds = {} THEN "save" ELSE "check", r) EXCEPT !.devs = ds])
    /\ UNCHANGED raced

(* update: the row is read, then the group if there is one ... *)
BeginUpdate(r, m, ds) ==
    /\ m \in MulticastsOfApp
    /\ Begin(r, [NewReq("update",
                        IF ds = {} /\ multicasts[m].devices = {} THEN "save"
                        ELSE IF multicasts[m].group = None THEN "check" ELSE "get", m)
                    EXCEPT !.devs = ds, !.was = multicasts[m]])
    /\ UNCHANGED raced

GetChirpstackMulticast(r) ==
    /\ At(r, "get") /\ groups[req[r].was.group] # None /\ Goto(r, "check")
    /\ UNCHANGED stores /\ Quiet

(* Mutant of SameApp: the devices' applications are not compared. *)
AnyApp(ds) == TRUE

(* checkForDifferentAppID *)
SameApp(ds) == \A d, e \in ds : CsAppOf[d] = CsAppOf[e]

CheckForDifferentAppID(r) ==
    /\ At(r, "check") /\ req[r].devs \subseteq devices /\ SameApp(req[r].devs)
    /\ Goto(r, IF req[r].was.group = None THEN "post" ELSE "validate")
    /\ UNCHANGED stores /\ Quiet

InApp(ds, c) == \A d \in ds : CsAppOf[d] = c

ValidateNewDevicesAppID(r) ==
    /\ At(r, "validate") /\ groups[req[r].was.group] # None
    /\ req[r].devs \subseteq devices /\ InApp(req[r].devs, groups[req[r].was.group].app)
    /\ Goto(r, "put")
    /\ UNCHANGED stores /\ Quiet

(* Mutant of ToAdd: one device of the list follows.                        *)
FirstToAdd(r) == {CHOOSE x \in req[r].devs \X {r} : TRUE}

(* addDevices: what follows when nobody waits any more. *)
ToAdd(r) == req[r].devs \X {r}

(* ... ChirpStack creates the group (whose devices follow by themselves;   *)
(* without devices it has no application, which ChirpStack refuses) ...    *)
PostGroup(r) ==
    /\ At(r, "post") /\ req[r].devs # {}
    /\ \E d \in req[r].devs :
         groups' = [groups EXCEPT ![r] = [members |-> {}, app |-> CsAppOf[d]]]
    /\ adding' = adding \cup ToAdd(r)
    /\ req' = [req EXCEPT ![r].stage = "save", ![r].was.group = r]
    /\ UNCHANGED <<application, devices, multicasts, queue>> /\ Quiet

(* ... or updates it (not its devices; without a device ChirpStack may     *)
(* refuse the empty application) ... *)
PutGroup(r) ==
    /\ At(r, "put") /\ groups[req[r].was.group] # None /\ Goto(r, "save")
    /\ UNCHANGED stores /\ Quiet

(* Mutant of RowToSave: the id ChirpStack gave to the group is dropped.    *)
RowWithoutGroup(r) == [devices |-> req[r].devs, group |-> None, app |-> TRUE]

RowToSave(r) == [devices |-> req[r].devs, group |-> req[r].was.group, app |-> TRUE]

(* ... and the row is saved with its devices, or inserted if it is gone.   *)
SaveRow(r) ==
    /\ At(r, "save") /\ application /\ req[r].devs \subseteq devices
    /\ LET m == req[r].id IN
       /\ req[r].devs \cap Dying \subseteq IF multicasts[m] = None THEN {} ELSE multicasts[m].devices
       /\ multicasts' = [multicasts EXCEPT ![m] = RowToSave(r)]
       /\ changed' = IF req[r].kind = "update" /\ multicasts[m] # None
                           /\ multicasts[m].devices # req[r].devs /\ req[r].was.group # r
                     THEN changed \cup ({req[r].was.group} \cap Id) ELSE changed
    /\ Answer(r, "done")
    /\ UNCHANGED <<application, devices, groups, adding, queue>>
    /\ UNCHANGED <<contended, hurt, emptied, raced, faults>>

(* A device arrives in the group; an error ends the process. *)
AddDevice(d, g) ==
    /\ <<d, g>> \in adding
    /\ IF d \in devices /\ groups[g] # None
       THEN /\ groups' = [groups EXCEPT ![g].members = @ \cup {d}]
            /\ adding' = adding \ {<<d, g>>}
            /\ UNCHANGED <<application, devices, multicasts, queue, req, history>>
       ELSE ProcessEnds
    /\ UNCHANGED faults
-----------------------------------------------------------------------------
(* Mutant of DeleteFrom: ChirpStack is not asked.                          *)
DeleteRowOnly(row) == "dbDelete"

(* deleteMulticast: the group only if the multicast has LoRaWAN devices.   *)
DeleteFrom(row) == IF row.devices # {} THEN "csDelete" ELSE "dbDelete"

BeginDelete(r, m) ==
    /\ m \in MulticastsOfApp
    /\ Begin(r, [NewReq("delete", DeleteFrom(multicasts[m]), m) EXCEPT !.was = multicasts[m]])
    /\ UNCHANGED raced

DeleteGroup(r) ==
    /\ At(r, "csDelete") /\ req[r].kind = "delete"
    /\ req[r].was.group # None /\ groups[req[r].was.group] # None
    /\ groups' = [groups EXCEPT ![req[r].was.group] = None]
    /\ queue' = [queue EXCEPT ![req[r].was.group] = {}]
    /\ Goto(r, "dbDelete")
    /\ UNCHANGED <<application, devices, multicasts, adding>> /\ Quiet

DeleteRow(r) ==
    /\ At(r, "dbDelete") /\ ~Locked(req[r].id) /\ Answer(r, "done")
    /\ multicasts' = [multicasts EXCEPT ![req[r].id] = None]
    /\ emptied' = IF req[r].was.devices = {} THEN emptied \cup ({req[r].was.group} \cap Id)
                  ELSE emptied
    /\ UNCHANGED <<application, devices, groups, adding, queue>>
    /\ UNCHANGED <<contended, hurt, changed, raced, faults>>
-----------------------------------------------------------------------------
(* createDownlink, of the group of a multicast or of a device: the queue   *)
(* is flushed ...                                                          *)
BeginDownlink(r, t) ==
    /\ t \in devices \cup ({multicasts[m].group : m \in Existing} \ {None})
    /\ Begin(r, NewReq("downlink", "flush", t))
    /\ raced' = IF \E p \in Request : Busy(p) /\ req[p].kind = "downlink" /\ req[p].id = t
                THEN raced \cup {t} ELSE raced

InChirpstack(t) == IF t \in Device THEN t \in devices ELSE groups[t] # None

(* Mutant of Flushed: nothing is flushed.                                  *)
NotFlushed(t) == queue

Flushed(t) == [queue EXCEPT ![t] = {}]

FlushQueue(r) ==
    /\ At(r, "flush") /\ InChirpstack(req[r].id) /\ Goto(r, "enqueue")
    /\ queue' = Flushed(req[r].id)
    /\ UNCHANGED <<application, devices, multicasts, groups, adding>> /\ Quiet

(* ... and gets the downlink. *)
Enqueue(r) ==
    /\ At(r, "enqueue") /\ InChirpstack(req[r].id) /\ Answer(r, "done")
    /\ queue' = [queue EXCEPT ![req[r].id] = @ \cup {r}]
    /\ UNCHANGED <<application, devices, multicasts, groups, adding>> /\ Quiet

(* The network sends what is queued. *)
Transmit(t) ==
    /\ \E q \in queue[t] : queue' = [queue EXCEPT ![t] = @ \ {q}]
    /\ UNCHANGED <<application, devices, multicasts, groups, adding, req>> /\ Quiet
-----------------------------------------------------------------------------
(* IoTDeviceService.delete: in a transaction, the multicasts of the device *)
(* are read ...                                                            *)
BeginDeleteDevice(r, d) ==
    /\ d \in devices
    /\ Begin(r, [NewReq("deleteDevice", "trim", d)
                    EXCEPT !.todo = {<<m, multicasts[m]>> : m \in {n \in Existing : d \in multicasts[n].devices}}])
    /\ UNCHANGED raced

(* ... and saved with the devices they were read with but this one (which  *)
(* inserts a multicast that is gone, without application and group) ...    *)
Kept(r, x) == x[2].devices \ {req[r].id}
DevicesOf(m) == IF m \in Existing THEN multicasts[m].devices ELSE {}
ToJoin(r) == UNION {{x[1]} \X (Kept(r, x) \ DevicesOf(x[1])) : x \in req[r].todo}
ToPart(r) == UNION {{x[1]} \X (DevicesOf(x[1]) \ Kept(r, x)) : x \in req[r].todo}

TrimMulticasts(r) ==
    /\ At(r, "trim") /\ {x[2] : x \in ToJoin(r)} \subseteq devices \ Dying
    /\ req' = [req EXCEPT ![r].stage = "csDelete", ![r].out = ToPart(r), ![r].in = ToJoin(r),
                          ![r].todo = {x \in @ : x[1] \notin Existing}]
    /\ UNCHANGED stores /\ Quiet

(* ... ChirpStack deletes the device, and with it its queue and places ... *)
DeleteDeviceInChirpstack(r) ==
    /\ At(r, "csDelete") /\ req[r].kind = "deleteDevice" /\ req[r].id \in devices
    /\ Goto(r, "commit")
    /\ devices' = devices \ {req[r].id}
    /\ groups' = [g \in Id |-> IF groups[g] = None THEN None
                               ELSE [groups[g] EXCEPT !.members = @ \ {req[r].id}]]
    /\ queue' = [queue EXCEPT ![req[r].id] = {}]
    /\ UNCHANGED <<application, multicasts, adding>> /\ Quiet

(* ... and all that becomes visible; no multicast has the device any more. *)
CommitDeleteDevice(r) ==
    /\ At(r, "commit") /\ Answer(r, "done")
    /\ multicasts' = [m \in Id |->
           IF m \notin Existing /\ \A x \in req[r].todo : x[1] # m THEN None
           ELSE [devices |-> (({d \in DevicesOf(m) : <<m, d>> \notin req[r].out}
                               \cup {d \in Device : <<m, d>> \in req[r].in}) \ {req[r].id}),
                 group |-> IF m \in Existing THEN multicasts[m].group ELSE None,
                 app |-> m \in MulticastsOfApp]]
    /\ UNCHANGED <<application, devices, groups, adding, queue>> /\ Quiet

(* ApplicationService.delete: the multicasts are read ... *)
BeginDeleteApp(r) ==
    /\ Begin(r, [NewReq("deleteApp", "wipe", None)
                    EXCEPT !.todo = {<<m, multicasts[m]>> : m \in MulticastsOfApp}])
    /\ UNCHANGED raced

(* ... one by one again, and their groups deleted (a multicast without     *)
(* group is an error) ...                                                  *)
WipeGroup(r, m) ==
    /\ At(r, "wipe") /\ m \in Works(req[r])
    /\ Linked(m)
    /\ groups' = [groups EXCEPT ![multicasts[m].group] = None]
    /\ queue' = [queue EXCEPT ![multicasts[m].group] = {}]
    /\ req' = [req EXCEPT ![r].todo = {x \in @ : x[1] # m}]
    /\ hurt' = hurt \cup {m, multicasts[m].group}
    /\ UNCHANGED <<application, devices, multicasts, adding>>
    /\ UNCHANGED <<contended, changed, emptied, raced, faults>>

(* ... then the application, and what belongs to it, in both stores.       *)
DropApplication(r) ==
    /\ At(r, "wipe") /\ req[r].todo = {} /\ Dying = {} /\ Answer(r, "done")
    /\ application' = FALSE
    /\ multicasts' = [m \in Id |-> IF m \in Existing \ MulticastsOfApp
                                   THEN [multicasts[m] EXCEPT !.devices = {}] ELSE None]
    /\ devices' = {}
    /\ groups' = [g \in Id |-> None] /\ queue' = [t \in Target |-> {}]
    /\ UNCHANGED adding /\ Quiet
-----------------------------------------------------------------------------
(* Every reason to answer with an error.                                   *)
Refused(q) ==
    LET known == q.devs \subseteq devices
        group == GroupThere(q.was.group) IN
    CASE q.stage = "get" -> ~group
      [] q.stage = "check" -> ~known \/ ~SameApp(q.devs)
      [] q.stage = "validate" -> ~(group /\ known /\ InApp(q.devs, groups[q.was.group].app))
      [] q.stage = "post" -> q.devs = {}
      [] q.stage = "put" -> ~group \/ q.devs = {}
      [] q.stage = "save" -> ~application \/ ~known
      [] q.stage = "csDelete" -> IF q.kind = "delete" THEN ~group ELSE q.id \notin devices
      [] q.stage \in {"flush", "enqueue"} -> ~InChirpstack(q.id)
      [] q.stage = "wipe" -> \E m \in Works(q) : ~Linked(m)
      [] OTHER -> FALSE

Refuse(r) ==
    /\ \/ Refused(req[r])
       \/ At(r, "trim") /\ ~({x[2] : x \in ToJoin(r)} \subseteq devices)
    /\ Abort(r) /\ UNCHANGED faults

(* A call or statement fails (the transaction of a device's deletion is    *)
(* left to LorawanDevices).                                                *)
CallFails(r) == Busy(r) /\ ~At(r, "commit") /\ Fault /\ Abort(r)

(* ... or adding a device to a group does. *)
AddFails == adding # {} /\ Fault /\ ProcessEnds

Crash == (\A r \in Request : ~At(r, "commit")) /\ Fault /\ ProcessEnds

Store(r) ==
    \/ \E ds \in SUBSET Device :
         \/ BeginCreate(r, ds)
         \/ \E m \in Id : BeginUpdate(r, m, ds)
    \/ GetChirpstackMulticast(r) \/ CheckForDifferentAppID(r) \/ ValidateNewDevicesAppID(r)
    \/ PostGroup(r) \/ PutGroup(r) \/ SaveRow(r)

Delete(r) ==
    \/ \E m \in Id : BeginDelete(r, m) \/ WipeGroup(r, m)
    \/ \E d \in Device : BeginDeleteDevice(r, d)
    \/ DeleteGroup(r) \/ DeleteRow(r) \/ TrimMulticasts(r)
    \/ DeleteDeviceInChirpstack(r) \/ CommitDeleteDevice(r)
    \/ BeginDeleteApp(r) \/ DropApplication(r)

Downlink(r) == (\E t \in Target : BeginDownlink(r, t)) \/ FlushQueue(r) \/ Enqueue(r)

Next ==
    \/ \E r \in Request : Store(r) \/ Delete(r) \/ Downlink(r) \/ Refuse(r) \/ CallFails(r)
    \/ \E d \in Device, g \in Id : AddDevice(d, g)
    \/ \E t \in Target : Transmit(t)
    \/ AddFails \/ Crash

Spec == Init /\ [][Next]_vars
-----------------------------------------------------------------------------
Idling(m) == \A r \in Request : Busy(r) => m \notin Works(req[r])
Trusted(m) == m \notin contended \cup hurt /\ Idling(m)

(* A multicast and its group in ChirpStack go together: a multicast that   *)
(* has LoRaWAN devices has its group, no two multicasts share one, and a   *)
(* group no multicast refers to was left by a failure, by two requests at  *)
(* once, or by the deletion of a multicast that had lost its devices.      *)
GroupsInStep ==
    /\ \A m \in Existing : Trusted(m) =>
         /\ multicasts[m].devices # {} => multicasts[m].group # None
         /\ multicasts[m].group \notin {None} \cup hurt => groups[multicasts[m].group] # None
         /\ \A n \in Existing : multicasts[n].group = multicasts[m].group /\ n # m => multicasts[m].group = None
    /\ \A g \in Id : groups[g] # None =>
         \/ \E m \in Existing : multicasts[m].group = g
         \/ g \in emptied \cup hurt
         \/ \E r \in Request : Busy(r) /\ req[r].was.group = g
         \/ contended # {}

(* The members of a group, with those under way, are the devices of its    *)
(* multicast, unless an update gave the multicast other devices, which     *)
(* ChirpStack is not told.                                                 *)
MembersFollow ==
    \A m \in Existing : Trusted(m) /\ multicasts[m].group \notin {None} \cup hurt \cup changed =>
        multicasts[m].devices \cap devices =
            (groups[multicasts[m].group].members \cup {x[1] : x \in {y \in adding : y[2] = multicasts[m].group}})
                \cap devices

(* The members of a group, also to be, have its application in ChirpStack. *)
OneApplication ==
    \A g \in Id : groups[g] # None =>
        /\ \A d \in groups[g].members : CsAppOf[d] = groups[g].app
        /\ \A x \in adding : x[2] = g => CsAppOf[x[1]] = groups[g].app

(* overwriteDownlink: a queue holds one downlink, unless two were ordered  *)
(* at once.                                                                *)
QueueOverwritten == \A t \in Target \ raced : Cardinality(queue[t]) <= 1
=============================================================================
