------------------------------ MODULE Connections ------------------------------
(***************************************************************************)
(* Devices, data targets, payload decoders and device models, the          *)
(* connections that join them, and the Open Data DK datasets that publish  *)
(* what a target is sent.  A connection is checked when it is made: its    *)
(* devices and its target are of one application.  A device's model is     *)
(* checked when the device is given it: it is of the application's         *)
(* organization.  Devices, targets and applications are moved afterwards,  *)
(* and meanwhile: each request reads, checks and saves in different steps. *)
(*                                                                         *)
(* One action is one query, save or delete; finds of rows that no request  *)
(* here removes or changes go with the step before them.  A failed query   *)
(* leaves the rows as they were, so requests that give up are left out.    *)
(* Also left out: creation of devices (LorawanDevices, SigFox), creation   *)
(* and deletion of applications, permissions, and the data.                *)
(***************************************************************************)
EXTENDS Naturals

CONSTANTS
    Request,      \* requests to the API; also the ids of what they create
    Device, Application, Org,
    OldTarget, OldConnection, OldDataset, OldDecoder, OldModel,  \* the rows at the start
    DeviceApp,    \* DeviceApp[d]: the application of device d at the start
    TargetApp,    \* the application of the targets at the start
    AppOrg,       \* AppOrg[a]: the organization of application a at the start
    ModelOrg,     \* the organization of the device models at the start
    None          \* no row

Target == OldTarget \cup Request
Connection == OldConnection \cup Request
Dataset == OldDataset \cup Request
Decoder == OldDecoder \cup Request \X {"decoder"}
Model == OldModel \cup Request \X {"model"}
Nowhere == "nowhere"   \* a row whose application is null
Keep == <<"keep">>     \* the decoder the connection has
Another == <<"new">>   \* a dataset that is not there yet

Place == Application \cup {Nowhere}
DeviceRow == [app : Place, model : Model \cup {None}]

ConnectionsAssumption ==
    /\ DeviceApp \in [Device -> Application] /\ TargetApp \in Application
    /\ AppOrg \in [Application -> Org] /\ ModelOrg \in Org
    /\ Device \cap Target = {} /\ Decoder \cap Model = {}
    /\ Request \cap OldDataset = {} /\ (Request \X {"model"}) \cap OldModel = {}
    /\ Nowhere \notin Application /\ "orphan" \notin Target /\ Another \notin Dataset
    /\ None \notin UNION {Device, Application, Org, Target, Connection, Dataset, Decoder, Model, DeviceRow}
    /\ None # Keep /\ None # Another /\ None # Nowhere

VARIABLES
    appOrg,       \* appOrg[a]: the organization of application a
    devices,      \* devices[d]: its application and its model, or None
    targets,      \* targets[t]: its application, or None
    datasets,     \* datasets[s]: its target, "orphan" if it has lost it, or None
    definitions,  \* definitions[x]: the organization of a decoder or model, or None
    connections,  \* connections[c]: its devices, decoder and target, or None
    wish,         \* wish[r]: where request r is and what it has read
    crossed,      \* history: connections a part of which has changed application
    unmatched     \* history: devices with a model of an organization they came from

tables == <<appOrg, devices, targets, datasets, definitions, connections>>
vars == <<tables, wish, crossed, unmatched>>

Link == [devices : SUBSET Device, decoder : Decoder \cup {None}, target : Target]
Idle == [kind |-> "none", stage |-> "new", id |-> None, app |-> None, org |-> None,
         found |-> {}, want |-> None, seen |-> {}, error |-> FALSE, moved |-> FALSE]
Kind == {"none", "connection", "target", "device", "devices", "unlink", "application", "definition",
         "share", "delete"}
Stage == {"new", "target", "decoder", "model", "save", "read", "done", "failed"}
Id == UNION {Connection, Target, Device, Application, Decoder, Model, Dataset, {None}}
Want == UNION {Decoder, Model, Dataset, {None, Keep, Another}}
Seen == SUBSET UNION {Place, Org, Connection}
Wish == [kind : Kind, stage : Stage, id : Id,
         app : Application \cup {None}, org : Org \cup {None},  \* given, or asked for
         found : SUBSET (Device \cup Target),
         want : Want,
         seen : Seen,       \* of what was found
         error : BOOLEAN,   \* the device could not be mapped
         moved : BOOLEAN]   \* history: what was found has been moved since

(* Every variable has its type, and every link its two rows. *)
TypeOK ==
    /\ appOrg \in [Application -> Org]
    /\ devices \in [Device -> DeviceRow \cup {None}]
    /\ targets \in [Target -> Place \cup {None}]
    /\ datasets \in [Dataset -> Target \cup {None, "orphan"}]
    /\ definitions \in [Decoder \cup Model -> Org \cup {None}]
    /\ connections \in [Connection -> Link \cup {None}]
    /\ wish \in [Request -> Wish]
    /\ crossed \subseteq Connection /\ unmatched \subseteq Device
    /\ \A d \in Device : devices[d] # None /\ devices[d].model # None => definitions[devices[d].model] # None
    /\ \A s \in Dataset : datasets[s] \in Target => targets[datasets[s]] # None
    /\ \A c \in Connection : connections[c] # None =>
           /\ \A d \in connections[c].devices : devices[d] # None
           /\ targets[connections[c].target] # None
           /\ connections[c].decoder # None => definitions[connections[c].decoder] # None

Init ==
    /\ appOrg = AppOrg
    /\ \E m \in {x \in OldModel : ModelOrg = AppOrg[TargetApp]} \cup {None} :
         devices = [d \in Device |-> [app |-> DeviceApp[d],
                                      model |-> IF DeviceApp[d] = TargetApp THEN m ELSE None]]
    /\ targets = [t \in Target |-> IF t \in OldTarget THEN TargetApp ELSE None]
    /\ \E t \in OldTarget :
         /\ datasets = [s \in Dataset |-> IF s \in OldDataset THEN t ELSE None]
         /\ \E p \in OldDecoder \cup {None} :
              connections = [c \in Connection |->
                  IF c \in OldConnection
                  THEN [devices |-> {d \in Device : DeviceApp[d] = TargetApp}, decoder |-> p, target |-> t]
                  ELSE None]
    /\ definitions = [x \in Decoder \cup Model |-> IF x \in OldDecoder \cup OldModel THEN ModelOrg ELSE None]
    /\ wish = [r \in Request |-> Idle] /\ crossed = {} /\ unmatched = {}
-----------------------------------------------------------------------------
At(r, kinds, s) == wish[r].kind \in kinds /\ wish[r].stage = s
Begin(r, q) ==
    /\ wish[r] = Idle /\ wish' = [wish EXCEPT ![r] = q]
    /\ UNCHANGED <<tables, crossed, unmatched>>
Ask(kind, stage, x) == [Idle EXCEPT !.kind = kind, !.stage = stage, !.id = x]
Answered(r, s) == [Idle EXCEPT !.kind = wish[r].kind, !.stage = s]
Fail(r) == wish' = [wish EXCEPT ![r] = Answered(r, "failed")] /\ UNCHANGED <<tables, crossed, unmatched>>
Goto(r, q) == wish' = [wish EXCEPT ![r] = q] /\ UNCHANGED <<tables, crossed, unmatched>>

(* Request r is answered, and the rows `moved' have another application,   *)
(* or organization, than those who have read them know.                    *)
AnswerAndMark(r, moved) ==
    wish' = [p \in Request |-> IF p = r THEN Answered(r, "done")
                ELSE [wish[p] EXCEPT !.moved = @ \/ (wish[p].found \cup {wish[p].app}) \cap moved # {}]]

ConnectionsOf(moved) ==
    {c \in Connection : connections[c] # None /\ (connections[c].devices \cup {connections[c].target}) \cap moved # {}}
Linking(d) == {c \in Connection : connections[c] # None /\ d \in connections[c].devices}
DatasetOf(t) == {s \in Dataset : datasets[s] = t}
OrgOfTarget(t) == IF targets[t] \in Application THEN appOrg[targets[t]] ELSE None
-----------------------------------------------------------------------------
(* Connections: create and update begin with the devices that are there ... *)
BeginConnect(r, c, ds, t, p) ==
    LET here == {d \in ds : devices[d] # None} IN
    /\ c = r \/ (c # r /\ connections[c] # None)
    /\ here # {}
    /\ Begin(r, [Ask("connection", "target", c)
                    EXCEPT !.found = here \cup {t}, !.want = p, !.seen = {devices[d].app : d \in here}])

TargetOf(q) == CHOOSE t \in Target : t \in q.found

(* ... then the data target ...                                            *)
MapDataTarget(r) ==
    /\ At(r, {"connection"}, "target")
    /\ LET t == TargetOf(wish[r]) IN
       IF targets[t] = None THEN Fail(r)
       ELSE Goto(r, [wish[r] EXCEPT !.stage = "decoder", !.seen = @ \cup {targets[t]}])

(* Mutant of SameApplication: not compared.                                *)
AnyApplication(q) == q.seen # {}

SameApplication(q) == \E a \in Application : q.seen = {a}

(* ... and the payload decoder (none, one, or when it is updated the same  *)
(* as before); and all must be of one application.                         *)
MapPayloadDecoder(r) ==
    /\ At(r, {"connection"}, "decoder")
    /\ LET q == wish[r] IN
       IF (q.want \in Decoder => definitions[q.want] # None) /\ SameApplication(q)
       THEN Goto(r, [q EXCEPT !.stage = "save"])
       ELSE Fail(r)

(* A connection deleted meanwhile is inserted again.                       *)
SaveConnection(r) ==
    /\ At(r, {"connection"}, "save")
    /\ LET q == wish[r]
           kept == IF connections[q.id] = None THEN None ELSE connections[q.id].decoder
           decoder == IF q.want = Keep THEN kept ELSE q.want IN
       IF /\ \A d \in q.found \cap Device : devices[d] # None
          /\ targets[TargetOf(q)] # None
          /\ decoder # None => definitions[decoder] # None
       THEN /\ connections' = [connections EXCEPT ![q.id] =
                   [devices |-> q.found \cap Device, decoder |-> decoder, target |-> TargetOf(q)]]
            /\ crossed' = (crossed \ {q.id}) \cup (IF q.moved THEN {q.id} ELSE {})
            /\ AnswerAndMark(r, {})
            /\ UNCHANGED <<appOrg, devices, targets, datasets, definitions, unmatched>>
       ELSE Fail(r)

DeleteConnection(r, c) ==
    /\ wish[r] = Idle /\ connections[c] # None
    /\ connections' = [connections EXCEPT ![c] = None]
    /\ wish' = [wish EXCEPT ![r] = Ask("delete", "done", None)]
    /\ UNCHANGED <<appOrg, devices, targets, datasets, definitions, crossed, unmatched>>
-----------------------------------------------------------------------------
(* Data targets: create and update, with or without a dataset; an update   *)
(* reads the dataset the target has.                                       *)
BeginTarget(r, t, a, shared) ==
    /\ t = r \/ (t # r /\ targets[t] # None)
    /\ Begin(r, [Ask("target", "save", t) EXCEPT !.app = a,
                    !.want = IF ~shared THEN None
                             ELSE IF DatasetOf(t) = {} THEN Another ELSE CHOOSE s \in DatasetOf(t) : TRUE])

(* The dataset keeps the link to the target: a target has one, and the one *)
(* it is no longer given stays without a target.                           *)
Relinked(t, s) == [x \in Dataset |-> IF x = s THEN t ELSE IF datasets[x] = t THEN "orphan" ELSE datasets[x]]

SaveTarget(r) ==
    /\ At(r, {"target"}, "save")
    /\ LET q == wish[r]
           s == IF q.want = Another THEN r ELSE q.want
           moved == IF targets[q.id] = q.app THEN {} ELSE {q.id} IN
       IF s # None /\ DatasetOf(q.id) \ {s} # {} THEN Fail(r)
       ELSE /\ targets' = [targets EXCEPT ![q.id] = q.app]
            /\ datasets' = Relinked(q.id, s)
            /\ AnswerAndMark(r, moved) /\ crossed' = crossed \cup ConnectionsOf(moved)
            /\ UNCHANGED <<appOrg, devices, definitions, connections, unmatched>>

(* A target takes its dataset and its connections with it.                 *)
DeleteTarget(r, t) ==
    /\ wish[r] = Idle /\ targets[t] # None
    /\ targets' = [targets EXCEPT ![t] = None]
    /\ datasets' = [s \in Dataset |-> IF datasets[s] = t THEN None ELSE datasets[s]]
    /\ connections' = [c \in Connection |-> IF c \in ConnectionsOf({t}) THEN None ELSE connections[c]]
    /\ wish' = [wish EXCEPT ![r] = Ask("delete", "done", None)]
    /\ UNCHANGED <<appOrg, devices, definitions, crossed, unmatched>>
-----------------------------------------------------------------------------
(* Devices: update, or updateMany of one, begins with the row and with the *)
(* application it is to have ...                                           *)
BeginUpdateDevice(r, d, a, m) ==
    /\ devices[d] # None
    /\ \E k \in {"device", "devices"} :
         Begin(r, [Ask(k, "model", d) EXCEPT !.app = a, !.want = m])

(* Mutant of Assignable: any model that is there.                          *)
AnyModel(m, a) == definitions[m] # None

Assignable(m, a) == definitions[m] = appOrg[a]

(* ... its model, if one is given, must be of the application's            *)
(* organization; if not, updateMany leaves the device out, and update      *)
(* saves it with what has been mapped.                                     *)
MapDeviceModel(r) ==
    /\ At(r, {"device", "devices"}, "model")
    /\ LET q == wish[r]
           error == q.want # None /\ ~Assignable(q.want, q.app) IN
       IF error /\ q.kind = "devices" THEN Fail(r)
       ELSE Goto(r, [q EXCEPT !.stage = "save", !.error = error])

SaveDevice(r) ==
    /\ At(r, {"device", "devices"}, "save")
    /\ LET q == wish[r]
           d == q.id
           old == devices[d]
           kept == q.error \/ q.want = None
           model == IF ~kept THEN q.want ELSE IF old = None THEN None ELSE old.model
           moved == IF old # None /\ old.app = q.app THEN {} ELSE {d} IN
       IF model # None /\ definitions[model] = None THEN Fail(r)
       ELSE /\ devices' = [devices EXCEPT ![d] = [app |-> q.app, model |-> model]]
            /\ unmatched' = IF (kept /\ moved # {}) \/ q.moved THEN unmatched \cup {d}
                            ELSE IF kept THEN unmatched ELSE unmatched \ {d}
            /\ AnswerAndMark(r, moved) /\ crossed' = crossed \cup ConnectionsOf(moved)
            /\ UNCHANGED <<appOrg, targets, datasets, definitions, connections>>

(* A deletion takes the device out of its connections ...                  *)
BeginDeleteDevice(r, d) ==
    /\ devices[d] # None
    /\ Begin(r, [Ask("unlink", "save", d) EXCEPT !.seen = Linking(d)])

(* ... and deletes it, in one transaction: if it has been connected        *)
(* meanwhile nothing is done.                                              *)
RemoveDevice(r) ==
    /\ At(r, {"unlink"}, "save")
    /\ LET d == wish[r].id IN
       IF Linking(d) \subseteq wish[r].seen
       THEN /\ devices' = [devices EXCEPT ![d] = None]
            /\ connections' = [c \in Connection |->
                   IF c \in Linking(d) THEN [connections[c] EXCEPT !.devices = @ \ {d}] ELSE connections[c]]
            /\ AnswerAndMark(r, {d})
            /\ UNCHANGED <<appOrg, targets, datasets, definitions, crossed, unmatched>>
       ELSE Fail(r)
-----------------------------------------------------------------------------
(* An application is updated, perhaps into another organization: read with *)
(* its devices and targets ...                                             *)
BeginUpdateApplication(r, a, o) ==
    Begin(r, [Ask("application", "save", a) EXCEPT !.org = o,
                 !.found = {d \in Device : devices[d] # None /\ devices[d].app = a}
                           \cup {t \in Target : targets[t] = a}])

(* ... and saved with them: those it was read with come back to it, those  *)
(* it has got meanwhile lose their application.                            *)
Reclaimed(q, x, place) == IF x \in q.found THEN q.id ELSE IF place = q.id THEN Nowhere ELSE place

SaveApplication(r) ==
    /\ At(r, {"application"}, "save")
    /\ LET q == wish[r]
           movedDevices == {d \in Device : devices[d] # None /\ Reclaimed(q, d, devices[d].app) # devices[d].app}
           movedTargets == {t \in Target : targets[t] # None /\ Reclaimed(q, t, targets[t]) # targets[t]}
           away == IF appOrg[q.id] = q.org THEN {} ELSE {q.id} IN
       /\ appOrg' = [appOrg EXCEPT ![q.id] = q.org]
       /\ devices' = [d \in Device |-> IF devices[d] = None THEN None
                          ELSE [devices[d] EXCEPT !.app = Reclaimed(q, d, @)]]
       /\ targets' = [t \in Target |-> IF targets[t] = None THEN None ELSE Reclaimed(q, t, targets[t])]
       /\ crossed' = crossed \cup ConnectionsOf(movedDevices \cup movedTargets)
       /\ unmatched' = unmatched \cup movedDevices
              \cup {d \in Device : away # {} /\ devices[d] # None /\ devices[d].app = q.id}
       /\ AnswerAndMark(r, UNION {movedDevices, movedTargets, away,
                                  {t \in Target : away # {} /\ targets[t] = q.id}})
    /\ UNCHANGED <<datasets, definitions, connections>>
-----------------------------------------------------------------------------
(* Payload decoders and device models: create and update; a model keeps    *)
(* its organization.                                                       *)
BeginEditDefinition(r, x, o) ==
    /\ \/ x \in {<<r, "decoder">>, <<r, "model">>}
       \/ definitions[x] # None /\ (x \in Model => definitions[x] = o)
    /\ Begin(r, [Ask("definition", "save", x) EXCEPT !.org = o])

SaveDefinition(r) ==
    /\ At(r, {"definition"}, "save")
    /\ definitions' = [definitions EXCEPT ![wish[r].id] = wish[r].org]
    /\ AnswerAndMark(r, {})
    /\ UNCHANGED <<appOrg, devices, targets, datasets, connections, crossed, unmatched>>

(* RESTRICT: in use, it is not deleted. *)
InUse(x) ==
    \/ \E c \in Connection : connections[c] # None /\ connections[c].decoder = x
    \/ \E d \in Device : devices[d] # None /\ devices[d].model = x

DeleteDefinition(r, x) ==
    /\ wish[r] = Idle /\ definitions[x] # None /\ ~InUse(x)
    /\ definitions' = [definitions EXCEPT ![x] = None]
    /\ wish' = [wish EXCEPT ![r] = Ask("delete", "done", None)]
    /\ UNCHANGED <<appOrg, devices, targets, datasets, connections, crossed, unmatched>>
-----------------------------------------------------------------------------
(* Mutant of FindShared: by the dataset alone.                             *)
FindById(s, o) == datasets[s] \in Target

(* Open Data DK asks for a dataset of an organization ...                  *)
FindShared(s, o) == datasets[s] \in Target /\ OrgOfTarget(datasets[s]) = o

GetData(r, s, o) ==
    /\ FindShared(s, o)
    /\ Begin(r, [Ask("share", "read", s) EXCEPT !.org = o, !.found = {datasets[s]}])

(* ... and is given the data of the devices that are connected to its      *)
(* target.                                                                 *)
GetDecodedDataInDataset(r) ==
    /\ At(r, {"share"}, "read")
    /\ LET q == wish[r]
           shared == {c \in Connection : connections[c] # None /\ connections[c].target = datasets[q.id]}
           given == {d \in Device : Linking(d) \cap (shared \ crossed) # {}} IN
       Goto(r, [Ask("share", "done", None) EXCEPT !.org = q.org, !.moved = q.moved,
                   !.seen = {appOrg[a] : a \in Application \cap {devices[d].app : d \in given}}])
-----------------------------------------------------------------------------
New(r) ==
    /\ wish[r] = Idle
    /\ \/ \E c \in Connection, t \in Target, ds \in SUBSET Device, p \in Decoder \cup {None, Keep} :
            (p = Keep => c # r) /\ BeginConnect(r, c, ds, t, p)
       \/ \E c \in Connection : DeleteConnection(r, c)
       \/ \E t \in Target :
            \/ \E a \in Application, shared \in BOOLEAN : BeginTarget(r, t, a, shared)
            \/ DeleteTarget(r, t)
       \/ \E d \in Device :
            \/ \E a \in Application, m \in Model \cup {None} : BeginUpdateDevice(r, d, a, m)
            \/ BeginDeleteDevice(r, d)
       \/ \E o \in Org :
            \/ \E a \in Application : BeginUpdateApplication(r, a, o)
            \/ \E x \in Decoder \cup Model : BeginEditDefinition(r, x, o)
            \/ \E s \in Dataset : GetData(r, s, o)
       \/ \E x \in Decoder \cup Model : DeleteDefinition(r, x)

Next ==
    \E r \in Request :
        \/ New(r)
        \/ MapDataTarget(r) \/ MapPayloadDecoder(r) \/ SaveConnection(r)
        \/ SaveTarget(r) \/ MapDeviceModel(r) \/ SaveDevice(r) \/ RemoveDevice(r)
        \/ SaveApplication(r) \/ SaveDefinition(r) \/ GetDecodedDataInDataset(r)

Spec == Init /\ [][Next]_vars
-----------------------------------------------------------------------------
(* The lists of connections for one who may read the applications `as', or *)
(* the organizations `os'.                                                 *)
FindAll(as) ==
    {c \in Connection : /\ connections[c] # None /\ OrgOfTarget(connections[c].target) # None
                        /\ \E d \in connections[c].devices : devices[d].app \in as}
FindAllByIoTDeviceId(d, as) ==
    {c \in Linking(d) : devices[d].app \in as /\ OrgOfTarget(connections[c].target) # None}
FindAllByDataTargetId(t, as) ==
    {c \in Connection : connections[c] # None /\ connections[c].target = t /\ targets[t] \in as}
FindAllByPayloadDecoderId(p, os) ==
    {c \in Connection : /\ connections[c] # None /\ connections[c].decoder = p
                        /\ OrgOfTarget(connections[c].target) \in os
                        /\ \E d \in connections[c].devices :
                              devices[d].app \in Application /\ appOrg[devices[d].app] \in os}

(* A connection joins devices with a target of their application: whoever  *)
(* reads that application finds it in every list, and nobody else does in  *)
(* any, unless a device or the target has been moved since its check.      *)
WithinApplication ==
    \A c \in Connection \ crossed :
        connections[c] # None /\ connections[c].devices # {} =>
            \E a \in Application :
                /\ \A as \in SUBSET Application :
                       /\ c \in FindAll(as) <=> a \in as
                       /\ c \in FindAllByDataTargetId(connections[c].target, as) <=> a \in as
                       /\ \A d \in connections[c].devices : c \in FindAllByIoTDeviceId(d, as) <=> a \in as
                /\ \A os \in SUBSET Org : connections[c].decoder # None =>
                       (c \in FindAllByPayloadDecoderId(connections[c].decoder, os) <=> appOrg[a] \in os)

(* A device's model is of the organization of its application, unless the  *)
(* device, or its application, has been moved and no model given, or one   *)
(* that was refused.                                                       *)
ModelsMatch ==
    \A d \in Device \ unmatched :
        devices[d] # None /\ devices[d].model # None =>
            devices[d].app \in Application /\ definitions[devices[d].model] = appOrg[devices[d].app]

(* What is published for an organization is data of its own devices, but   *)
(* for connections across applications, and a target moved while it was    *)
(* asked for.                                                              *)
SharedRightly ==
    \A r \in Request : wish[r].kind = "share" /\ wish[r].stage = "done" /\ ~wish[r].moved =>
        wish[r].seen \subseteq {wish[r].org}
=============================================================================
