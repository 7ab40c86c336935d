--------------------------- MODULE LorawanDevices ---------------------------
(***************************************************************************)
(* LoRaWAN devices and their applications live in two stores, the database *)
(* of OS2IoT and ChirpStack, that share no transaction.  IoTDeviceService  *)
(* and ApplicationService change one and then the other, without           *)
(* compensation; requests run concurrently, calls fail with or without     *)
(* effect, and the process may die between two of them.                    *)
(*                                                                         *)
(* One action is one statement on the database or one call to ChirpStack.  *)
(* Left out: what a device or an application is like (name, profile, keys; *)
(* failed activations are ignored by the code), multicasts, data targets,  *)
(* and who may do what.                                                    *)
(***************************************************************************)
EXTENDS Naturals, FiniteSets

CONSTANTS
    Request,      \* requests to the API; also the ids of the rows they create
    Old,          \* ids of the devices there at the start
    InitialRow,   \* InitialRow[i]: the row of such a device
    Eui,          \* LoRaWAN device EUIs
    App,          \* applications of OS2IoT
    NoApp,        \* applicationId is null
    CsApp,        \* ids ChirpStack gives to applications
    NoCs,         \* chirpstackId is null, or: no such device in ChirpStack
    InitialCs,    \* InitialCs[a]: chirpstackId at the start, may be NoCs
    NoRow,
    MaxFaults     \* bound: failed calls to ChirpStack or the database, process deaths

Id == Request \cup Old
Row == [eui : Eui, app : App \cup {NoApp}, cs : CsApp]   \* cs: chirpstackApplicationId

(* At the start every device has an application, and none has been moved:   *)
(* it is in no other one's application in ChirpStack.                       *)
ASSUME LorawanAssumption ==
    /\ Request \cap Old = {}
    /\ NoApp \notin App /\ NoCs \notin CsApp /\ NoRow \notin Row \cup Id \cup Eui
    /\ InitialRow \in [Old -> Row]
    /\ InitialCs \in [App -> CsApp \cup {NoCs}]
    /\ \A i, j \in Old : InitialRow[i].eui = InitialRow[j].eui => i = j
    /\ \A a, b \in App : InitialCs[a] = InitialCs[b] /\ InitialCs[a] # NoCs => a = b
    /\ \A i \in Old : /\ InitialRow[i].app \in App
                      /\ \A a \in App : InitialCs[a] = InitialRow[i].cs => a = InitialRow[i].app
    /\ MaxFaults \in Nat

VARIABLES
    apps,         \* rows of application
    chirpstackId, \* chirpstackId[a]: its application in ChirpStack
    rows,         \* rows[i]: LoRaWAN rows of iot_device
    csApps,       \* applications in ChirpStack
    csGiven,      \* ids ChirpStack has given out
    csDevice,     \* csDevice[e]: the ChirpStack application of device e
    req,          \* req[r]: what request r has read, and where it is
    contended,    \* history: devices two requests were working on at once
    moved,        \* history: devices an update gave another EUI or another application, in either store
    hurt,         \* history: devices a request failed on between the two stores
    faults

db == <<apps, chirpstackId, rows>>
chirpstack == <<csApps, csGiven, csDevice>>
history == <<contended, moved, hurt>>
vars == <<db, chirpstack, req, history, faults>>

Kind == {"create", "update", "delete", "updateApp", "deleteApp"}
Stage == {"euis", "list", "findApp", "nameApp", "saveApp", "put", "select", "insert",
          "write", "remove", "csDelete", "commit", "putApp", "writeApp",
          "wipe", "drop", "done", "failed"}

Nothing == [kind |-> "none", stage |-> "new"]
Req == [kind : Kind, stage : Stage,
        id : Id \cup {NoRow},       \* the device row
        eui : Eui \cup {NoRow},     \* the EUI it is to have, or has
        app : App,                  \* the application it is to have, or the one changed
        known : BOOLEAN,            \* the EUI is in lorawanDeviceEuis
        cs : CsApp \cup {NoCs},     \* chirpstackApplicationId of the device
        appCs : CsApp \cup {NoCs},  \* chirpstackId of the application
        listed : SUBSET CsApp,      \* loraApplications
        devices : SUBSET Id,        \* application.iotDevices
        todo : SUBSET Eui]          \* devices still to be deleted in ChirpStack

(* Every variable has its type. *)
TypeOK ==
    /\ apps \subseteq App
    /\ chirpstackId \in [App -> CsApp \cup {NoCs}]
    /\ rows \in [Id -> Row \cup {NoRow}]
    /\ csApps \subseteq csGiven /\ csGiven \subseteq CsApp
    /\ csDevice \in [Eui -> CsApp \cup {NoCs}]
    /\ req \in [Request -> Req \cup {Nothing}]
    /\ contended \subseteq Eui /\ moved \subseteq Eui /\ hurt \subseteq Eui
    /\ faults \in 0..MaxFaults

Init ==
    /\ apps = App
    /\ chirpstackId = InitialCs
    /\ rows = [i \in Id |-> IF i \in Old THEN InitialRow[i] ELSE NoRow]
    /\ csGiven = ({InitialCs[a] : a \in App} \ {NoCs}) \cup {InitialRow[i].cs : i \in Old}
    /\ csApps = csGiven
    /\ csDevice = [e \in Eui |->
                      IF \E i \in Old : InitialRow[i].eui = e
                      THEN InitialRow[CHOOSE i \in Old : InitialRow[i].eui = e].cs ELSE NoCs]
    /\ req = [r \in Request |-> Nothing]
    /\ contended = {} /\ moved = {} /\ hurt = {}
    /\ faults = 0
-----------------------------------------------------------------------------
Existing == {i \in Id : rows[i] # NoRow}
RowsOf(e) == {i \in Existing : rows[i].eui = e}
DevicesOf(a) == {i \in Existing : rows[i].app = a}

At(r, s) == req[r].stage = s
Busy(r) == req[r].stage \notin {"new", "done", "failed"}
Fault == faults < MaxFaults /\ faults' = faults + 1

(* Rows an open deletion has removed: no other statement passes it. *)
Locked == {req[r].id : r \in {q \in Request : At(q, "csDelete") \/ At(q, "commit")}}

(* The devices a request works on, and whether it is on an application.    *)
OnApp(q) == q.kind \in {"updateApp", "deleteApp"}
EuisOf(q) ==
    ({q.eui} \cup {rows[i].eui : i \in (q.devices \cup {q.id}) \cap Existing}) \cap Eui
Clash(p, q) == \/ EuisOf(p) \cap EuisOf(q) # {}
               \/ (OnApp(p) \/ OnApp(q)) /\ p.app = q.app

(* A request begins with what it reads first.                              *)
Begin(r, q) ==
    /\ req[r] = Nothing
    /\ req' = [req EXCEPT ![r] = q]
    /\ contended' = contended \cup
           UNION {EuisOf(q) \cup EuisOf(req[p]) :
                     p \in {p \in Request : Busy(p) /\ Clash(req[p], q)}}
    /\ UNCHANGED <<db, chirpstack, hurt, faults>>

NewReq(kind, stage, id, e, a) ==
    [kind |-> kind, stage |-> stage, id |-> id, eui |-> e, app |-> a, known |-> FALSE,
     cs |-> NoCs, appCs |-> NoCs, listed |-> {}, devices |-> {}, todo |-> {}]

(* What request r has changed in ChirpStack and not yet in the database.   *)
Halfway(r) ==
    IF req[r].stage \in {"select", "insert", "write", "commit"} THEN {req[r].eui}
    ELSE IF req[r].stage \in {"wipe", "drop"}
    THEN {rows[i].eui : i \in req[r].devices \cap Existing} \ req[r].todo
    ELSE {}

Goto(r, s) == req' = [req EXCEPT ![r].stage = s]

(* The request is answered: what it has read is gone.                      *)
Answer(r, s) ==
    req' = [req EXCEPT ![r] = NewReq(req[r].kind, s, NoRow, req[r].eui, req[r].app)]

(* The request is answered with an error; nothing is undone in ChirpStack. *)
Abort(r) ==
    /\ Answer(r, "failed")
    /\ hurt' = hurt \cup Halfway(r)
    /\ UNCHANGED <<db, chirpstack, contended, moved>>

(* mapChildDtoToIoTDevice catches the errors of one device: createMany and *)
(* updateMany leave the device out, update does not look at the error and  *)
(* saves the device as far as it has been changed.                         *)
Mapping(r) == \E s \in {"findApp", "nameApp", "saveApp", "put"} : At(r, s)

Mapped(r) ==
    IF req[r].kind = "update"
    THEN /\ Goto(r, "select")
         /\ UNCHANGED <<db, chirpstack, history>>
    ELSE Abort(r)

Quiet == UNCHANGED <<history, faults>>
-----------------------------------------------------------------------------
(* createMany and update: the device's application is read ... *)
BeginCreate(r, e, a) ==
    /\ a \in apps
    /\ Begin(r, [NewReq("create", "euis", r, e, a) EXCEPT !.appCs = chirpstackId[a]])
    /\ UNCHANGED moved

(* (a device without application cannot be updated or deleted: the         *)
(* controller reads application.id) ...                                    *)
BeginUpdate(r, i, e, a) ==
    /\ i \in Existing /\ rows[i].app # NoApp /\ a \in apps
    /\ Begin(r, [NewReq("update", "euis", i, e, a) 
                    EXCEPT !.cs = rows[i].cs, !.appCs = chirpstackId[a]])
    /\ moved' = moved \cup
           IF e = rows[i].eui /\ a = rows[i].app THEN {} ELSE {e, rows[i].eui}

(* (setDeviceModel: the application is gone meanwhile) ...                 *)
RefuseApplication(r) ==
    /\ At(r, "euis") /\ req[r].app \notin apps
    /\ Mapped(r) /\ UNCHANGED faults

(* ... then the EUIs that are in use ... *)
GetLorawanDeviceEuis(r) ==
    /\ At(r, "euis") /\ req[r].app \in apps
    /\ req' = [req EXCEPT ![r].known = RowsOf(req[r].eui) # {}, ![r].stage = "list"]
    /\ UNCHANGED <<db, chirpstack>> /\ Quiet

(* ... and the applications in ChirpStack. *)
ListApplications(r) ==
    /\ At(r, "list")
    /\ req' = [req EXCEPT ![r].listed = csApps, ![r].stage = "findApp"]
    /\ UNCHANGED <<db, chirpstack>> /\ Quiet

(* Mutant of AlreadyInUse: the check of mapAndCreateLoRaWANDevice is gone. *)
NeverInUse(q) == FALSE

AlreadyInUse(q) == q.kind = "create" /\ q.known

(* findOrCreateDefaultApplication: the first one listed that is the        *)
(* device's or its application's; otherwise a new one.                     *)
Candidates(q) == {c \in q.listed : c = q.cs \/ c = q.appCs}

(* An update gives the device a ChirpStack application it did not have.    *)
Moving(q, c) == moved' = moved \cup IF q.kind = "update" /\ c # q.cs THEN {q.eui} ELSE {}

FindApplication(r) ==
    /\ At(r, "findApp") /\ ~AlreadyInUse(req[r])
    /\ \E c \in Candidates(req[r]) :
         /\ req' = [req EXCEPT ![r].cs = c, ![r].listed = {}, ![r].stage = "put"]
         /\ Moving(req[r], c)
    /\ UNCHANGED <<db, chirpstack, contended, hurt, faults>>

CreateApplication(r) ==
    /\ At(r, "findApp") /\ ~AlreadyInUse(req[r]) /\ Candidates(req[r]) = {}
    /\ \E c \in CsApp \ csGiven :
         /\ csGiven' = csGiven \cup {c} /\ csApps' = csApps \cup {c}
         /\ req' = [req EXCEPT ![r].appCs = c, ![r].listed = {}, ![r].stage = "nameApp"]
    /\ UNCHANGED <<db, csDevice>> /\ Quiet

RefuseUsedEui(r) ==
    At(r, "findApp") /\ AlreadyInUse(req[r]) /\ Abort(r) /\ UNCHANGED faults

(* createNewApplication: findOneOrFail ... *)
FindApplicationToName(r) ==
    /\ At(r, "nameApp") /\ req[r].app \in apps /\ Goto(r, "saveApp")
    /\ UNCHANGED <<db, chirpstack>> /\ Quiet

RefuseName(r) ==
    At(r, "nameApp") /\ req[r].app \notin apps /\ Mapped(r) /\ UNCHANGED faults

(* ... and save, which inserts the application if it is gone. *)
SaveApplicationId(r) ==
    /\ At(r, "saveApp")
    /\ apps' = apps \cup {req[r].app}
    /\ chirpstackId' = [chirpstackId EXCEPT ![req[r].app] = req[r].appCs]
    /\ req' = [req EXCEPT ![r].cs = req[r].appCs, ![r].stage = "put"]
    /\ Moving(req[r], req[r].appCs)
    /\ UNCHANGED <<rows, chirpstack, contended, hurt, faults>>

(* ChirpStack creates a device only if there is none with the EUI, updates *)
(* one only if there is, and needs the application.                        *)
CanPut(q) == (q.known <=> csDevice[q.eui] # NoCs) /\ q.cs \in csApps

(* What ChirpStack does when it is asked to create or update the device.   *)
PutDevice(q) == csDevice' = [csDevice EXCEPT ![q.eui] = q.cs]

AfterPut(q) == IF q.kind = "create" THEN "insert" ELSE "select"

CreateOrUpdateDevice(r) ==
    /\ At(r, "put") /\ CanPut(req[r]) /\ Goto(r, AfterPut(req[r]))
    /\ PutDevice(req[r])
    /\ UNCHANGED <<db, csApps, csGiven>> /\ Quiet

RefusePut(r) == At(r, "put") /\ ~CanPut(req[r]) /\ Mapped(r) /\ UNCHANGED faults

(* Mutant of NewRow: the chirpstackId of the application as it was read.    *)
RowOfApplication(r) == [eui |-> req[r].eui, app |-> req[r].app, cs |-> req[r].appCs]

(* The row as the request wants it.                                        *)
NewRow(r) == [eui |-> req[r].eui, app |-> req[r].app, cs |-> req[r].cs]

(* iotDeviceRepository.save: an update selects the row first, and inserts  *)
(* it if it is gone.                                                       *)
SelectRow(r) ==
    /\ At(r, "select")
    /\ Goto(r, IF req[r].id \in Existing THEN "write" ELSE "insert")
    /\ UNCHANGED <<db, chirpstack>> /\ Quiet

InsertRow(r) ==
    /\ At(r, "insert") /\ req[r].app \in apps /\ req[r].id \notin Existing
    /\ rows' = [rows EXCEPT ![req[r].id] = NewRow(r)]
    /\ Answer(r, "done")
    /\ UNCHANGED <<apps, chirpstackId, chirpstack>> /\ Quiet

WriteRow(r) ==
    /\ At(r, "write") /\ req[r].app \in apps /\ req[r].id \notin Locked
    /\ rows' = IF req[r].id \in Existing THEN [rows EXCEPT ![req[r].id] = NewRow(r)] ELSE rows
    /\ Answer(r, "done")
    /\ UNCHANGED <<apps, chirpstackId, chirpstack>> /\ Quiet

(* The application is gone (foreign key), or the row is there again. *)
RefuseSave(r) ==
    /\ \/ At(r, "insert") /\ (req[r].app \notin apps \/ req[r].id \in Existing \ Locked)
       \/ At(r, "write") /\ req[r].app \notin apps
    /\ Abort(r) /\ UNCHANGED faults
-----------------------------------------------------------------------------
(* IoTDeviceService.delete: the device is read, a transaction removes the  *)
(* row ...                                                                 *)
BeginDelete(r, i) ==
    /\ i \in Existing /\ rows[i].app # NoApp
    /\ Begin(r, NewReq("delete", "remove", i, rows[i].eui, rows[i].app))
    /\ UNCHANGED moved

RemoveRow(r) ==
    /\ At(r, "remove") /\ req[r].app \in apps /\ req[r].id \notin Locked
    /\ Goto(r, "csDelete")
    /\ UNCHANGED <<db, chirpstack>> /\ Quiet

(* (it saves the device first, which needs the application)                *)
RefuseRemove(r) == At(r, "remove") /\ req[r].app \notin apps /\ Abort(r) /\ UNCHANGED faults

(* Mutant of DeleteInChirpstack: an error of ChirpStack is swallowed. *)
DeleteInChirpstackQuietly(r) ==
    /\ At(r, "csDelete") /\ Goto(r, "commit")
    /\ \/ csDevice' = [csDevice EXCEPT ![req[r].eui] = NoCs] /\ UNCHANGED faults
       \/ Fault /\ UNCHANGED csDevice
    /\ UNCHANGED <<db, csApps, csGiven, history>>

(* ... then ChirpStack deletes the device ... *)
DeleteInChirpstack(r) ==
    /\ At(r, "csDelete") /\ csDevice[req[r].eui] # NoCs /\ Goto(r, "commit")
    /\ csDevice' = [csDevice EXCEPT ![req[r].eui] = NoCs]
    /\ UNCHANGED <<db, csApps, csGiven>> /\ Quiet

(* (there is none: BadRequestException, and the transaction rolls back)    *)
RefuseDelete(r) ==
    At(r, "csDelete") /\ csDevice[req[r].eui] = NoCs /\ Abort(r) /\ UNCHANGED faults

(* ... and the transaction commits. *)
CommitDelete(r) ==
    /\ At(r, "commit") /\ Answer(r, "done")
    /\ rows' = [rows EXCEPT ![req[r].id] = NoRow]
    /\ UNCHANGED <<apps, chirpstackId, chirpstack>> /\ Quiet
-----------------------------------------------------------------------------
(* ApplicationService.update: the application is read with its devices ... *)
BeginUpdateApp(r, a) ==
    /\ a \in apps
    /\ Begin(r, [NewReq("updateApp", "putApp", NoRow, NoRow, a)
                    EXCEPT !.appCs = chirpstackId[a], !.devices = DevicesOf(a)])
    /\ UNCHANGED moved

(* ... updated in ChirpStack ... *)
PutApplication(r) ==
    /\ At(r, "putApp") /\ req[r].appCs \in csApps \cup {NoCs} /\ Goto(r, "writeApp")
    /\ UNCHANGED <<db, chirpstack>> /\ Quiet

RefusePutApp(r) ==
    At(r, "putApp") /\ req[r].appCs \notin csApps \cup {NoCs} /\ Abort(r) /\ UNCHANGED faults

(* Mutant of AfterAppSave: iotDevices is emptied, as for a new application.*)
WithoutDevices(r) ==
    [i \in Id |-> IF i \in DevicesOf(req[r].app) THEN [rows[i] EXCEPT !.app = NoApp]
                  ELSE rows[i]]

(* Saving the application saves the relation iotDevices as it was read: a  *)
(* device added since then loses its application.                          *)
AfterAppSave(r) ==
    [i \in Id |->
        IF i \in req[r].devices \cap Existing THEN [rows[i] EXCEPT !.app = req[r].app]
        ELSE IF i \in DevicesOf(req[r].app) THEN [rows[i] EXCEPT !.app = NoApp]
        ELSE rows[i]]

(* ... and saved as it was read, or inserted if it is gone. *)
WriteApplication(r) ==
    /\ At(r, "writeApp") /\ Answer(r, "done")
    /\ \A i \in Locked : AfterAppSave(r)[i] = rows[i]
    /\ apps' = apps \cup {req[r].app}
    /\ chirpstackId' = [chirpstackId EXCEPT ![req[r].app] = req[r].appCs]
    /\ rows' = AfterAppSave(r)
    /\ UNCHANGED chirpstack /\ Quiet

(* ApplicationService.delete: the application is read with its devices ... *)
BeginDeleteApp(r, a) ==
    /\ a \in apps
    /\ Begin(r, [NewReq("deleteApp", "wipe", NoRow, NoRow, a)
                    EXCEPT !.appCs = chirpstackId[a], !.devices = DevicesOf(a),
                           !.todo = {rows[i].eui : i \in DevicesOf(a)}])
    /\ UNCHANGED moved

(* ... which are deleted in ChirpStack one by one ... *)
WipeDevice(r, e) ==
    /\ At(r, "wipe") /\ e \in req[r].todo /\ csDevice[e] # NoCs
    /\ csDevice' = [csDevice EXCEPT ![e] = NoCs]
    /\ req' = [req EXCEPT ![r].todo = @ \ {e}]
    /\ UNCHANGED <<db, csApps, csGiven>> /\ Quiet

RefuseWipe(r, e) ==
    At(r, "wipe") /\ e \in req[r].todo /\ csDevice[e] = NoCs /\ Abort(r) /\ UNCHANGED faults

(* ... then the application, with what is left in it ... *)
DeleteAppInChirpstack(r) ==
    /\ At(r, "wipe") /\ req[r].todo = {} /\ req[r].appCs \in csApps \cup {NoCs}
    /\ Goto(r, "drop")
    /\ csApps' = csApps \ {req[r].appCs}
    /\ csDevice' = [e \in Eui |-> IF csDevice[e] = req[r].appCs THEN NoCs ELSE csDevice[e]]
    /\ UNCHANGED <<db, csGiven>> /\ Quiet

RefuseDeleteApp(r) ==
    /\ At(r, "wipe") /\ req[r].todo = {} /\ req[r].appCs \notin csApps \cup {NoCs}
    /\ Abort(r) /\ UNCHANGED faults

(* ... and the row, with its devices (onDelete CASCADE). *)
DropApplication(r) ==
    /\ At(r, "drop") /\ Answer(r, "done")
    /\ DevicesOf(req[r].app) \cap Locked = {}
    /\ apps' = apps \ {req[r].app}
    /\ chirpstackId' = [chirpstackId EXCEPT ![req[r].app] = NoCs]
    /\ rows' = [i \in Id |-> IF i \in DevicesOf(req[r].app) THEN NoRow ELSE rows[i]]
    /\ UNCHANGED chirpstack /\ Quiet
-----------------------------------------------------------------------------
(* A call or a statement of request r fails and has no effect ... *)
CallFails(r) == Busy(r) /\ Fault /\ IF Mapping(r) THEN Mapped(r) ELSE Abort(r)

(* ... or ChirpStack has done what it was asked, and the answer is lost.   *)
AnswerLost(r) ==
    /\ At(r, "put") \/ At(r, "csDelete")
    /\ Fault
    /\ hurt' = hurt \cup {req[r].eui}
    /\ \/ /\ At(r, "put") /\ CanPut(req[r]) /\ PutDevice(req[r])
          /\ IF req[r].kind = "update" THEN Goto(r, "select") ELSE Answer(r, "failed")
       \/ /\ At(r, "csDelete") /\ csDevice[req[r].eui] # NoCs
          /\ csDevice' = [csDevice EXCEPT ![req[r].eui] = NoCs]
          /\ Answer(r, "failed")
    /\ UNCHANGED <<db, csApps, csGiven, contended, moved>>

(* The process dies and is started again. *)
Crash ==
    /\ Fault
    /\ hurt' = hurt \cup UNION {Halfway(r) : r \in Request}
    /\ req' = [r \in Request |->
                  IF Busy(r) THEN NewReq(req[r].kind, "failed", NoRow, req[r].eui, req[r].app)
                  ELSE req[r]]
    /\ UNCHANGED <<db, chirpstack, contended, moved>>

Start(r) ==
    \/ \E e \in Eui, a \in App : BeginCreate(r, e, a)
    \/ \E i \in Id, e \in Eui, a \in App : BeginUpdate(r, i, e, a)
    \/ \E i \in Id : BeginDelete(r, i)
    \/ \E a \in App : BeginUpdateApp(r, a) \/ BeginDeleteApp(r, a)

StoreDevice(r) ==
    \/ RefuseApplication(r) \/ GetLorawanDeviceEuis(r) \/ ListApplications(r)
    \/ FindApplication(r) \/ CreateApplication(r) \/ RefuseUsedEui(r)
    \/ FindApplicationToName(r) \/ RefuseName(r) \/ SaveApplicationId(r)
    \/ CreateOrUpdateDevice(r) \/ RefusePut(r)
    \/ SelectRow(r) \/ InsertRow(r) \/ WriteRow(r) \/ RefuseSave(r)

Delete(r) ==
    \/ RemoveRow(r) \/ RefuseRemove(r)
    \/ DeleteInChirpstack(r) \/ RefuseDelete(r) \/ CommitDelete(r)

StoreApp(r) == PutApplication(r) \/ RefusePutApp(r) \/ WriteApplication(r)

DeleteApp(r) ==
    \/ \E e \in Eui : WipeDevice(r, e) \/ RefuseWipe(r, e)
    \/ DeleteAppInChirpstack(r) \/ RefuseDeleteApp(r) \/ DropApplication(r)

Next ==
    \/ \E r \in Request :
         \/ Start(r)
         \/ StoreDevice(r) \/ Delete(r)
         \/ StoreApp(r) \/ DeleteApp(r)
         \/ CallFails(r) \/ AnswerLost(r)
    \/ Crash

Spec == Init /\ [][Next]_vars
-----------------------------------------------------------------------------
(* The two stores agree on device e: one row and its device, or neither.   *)
Agree(e) ==
    IF csDevice[e] = NoCs THEN RowsOf(e) = {}
    ELSE \E i \in Existing : RowsOf(e) = {i} /\ rows[i].cs = csDevice[e]

Idle(e) == \A r \in Request : Busy(r) => e \notin EuisOf(req[r])

(* The stores agree on every device that no request is working on, unless  *)
(* two requests have worked on it at once, an update has moved it, or a    *)
(* request failed on it between the two stores: in particular a refused    *)
(* or failed call undoes what the request did in the database, and         *)
(* requests on other devices of the application never interfere.           *)
InStep ==
    \A e \in Eui \ (contended \cup moved \cup hurt) : Idle(e) => Agree(e)

(* A device loses its application only if it was created or moved while    *)
(* the application was being changed.                                      *)
ApplicationKept ==
    \A i \in Existing : rows[i].app = NoApp => rows[i].eui \in contended

(* "Any which fail will be added to the response as failed devices": an    *)
(* update that was answered with success, and that no other request        *)
(* disturbed, is in both stores.                                           *)
UpdateInBoth ==
    \A r \in Request :
        (/\ At(r, "done") /\ req[r].kind = "update"
         /\ req[r].eui \notin contended /\ Idle(req[r].eui))
            => Agree(req[r].eui)
=============================================================================
