-------------------------- MODULE LorawanDevicesProofs --------------------------
(***************************************************************************)
(* Proofs about LorawanDevices, for any number of requests, devices,       *)
(* applications and failures: the database and ChirpStack agree on what    *)
(* one request at a time has worked on, and devices keep their             *)
(* applications.                                                           *)
(***************************************************************************)
EXTENDS LorawanDevices, TLAPS

(* What a request is about tells its stages, and what it has read.         *)
Storing(q) == q.stage \in {"euis", "list", "findApp", "nameApp", "saveApp", "put", "select", "insert", "write"}
Removing(q) == q.stage \in {"remove", "csDelete", "commit"}
Changing(q) == q.stage \in {"putApp", "writeApp"}
Wiping(q) == q.stage \in {"wipe", "drop"}
Over(q) == q.stage \in {"done", "failed"}

Formed(q, r) ==
    /\ q.stage = "new" => q = Nothing
    /\ Storing(q) =>
         /\ q.kind \in {"create", "update"} /\ q.id \in Id /\ q.eui \in Eui /\ q.devices = {} /\ q.todo = {}
         /\ q.kind = "create" => q.id = r /\ q.stage \notin {"select", "write"}
         /\ q.kind = "create" => q.cs = IF q.stage \in {"put", "insert"} THEN q.appCs ELSE NoCs
         /\ q.kind = "update" \/ q.stage \in {"put", "insert"} => q.cs # NoCs
         /\ q.stage \in {"nameApp", "saveApp"} => q.appCs # NoCs
    /\ Removing(q) => q.kind = "delete" /\ q.id \in Id /\ q.eui \in Eui /\ q.devices = {} /\ q.todo = {}
    /\ Changing(q) => q.kind = "updateApp" /\ q.id = NoRow /\ q.eui = NoRow /\ q.todo = {}
    /\ Wiping(q) => q.kind = "deleteApp" /\ q.id = NoRow /\ q.eui = NoRow
    /\ q.stage = "drop" => q.todo = {}
    /\ Over(q) => q.id = NoRow /\ q.devices = {} /\ q.todo = {} /\ q.appCs = NoCs /\ q.cs = NoCs

Forms == \A r \in Request : Formed(req[r], r)

(* The rows a request works on, and whether it is still to make one.       *)
Ids(q) == (q.devices \cup {q.id}) \cap Id
Making(q) == Storing(q) /\ q.kind = "create"
Unborn(r) == At(r, "new") \/ Making(req[r])

(* Nobody knows of a row before it is there ... *)
NotYet ==
    \A r \in Request : Unborn(r) =>
        rows[r] = NoRow /\ \A q \in Request \ {r} : Busy(q) => r \notin Ids(req[q])

(* ... and two requests that meet, at an EUI, a row or an application,     *)
(* contend for all that they work on.                                      *)
Meet(p, q) == Clash(p, q) \/ Ids(p) \cap Ids(q) # {}

Met ==
    \A q, r \in Request : q # r /\ Busy(q) /\ Busy(r) /\ Meet(req[q], req[r])
        => EuisOf(req[q]) \cup EuisOf(req[r]) \subseteq contended

(* A request on an application knows which rows are in it, but for the     *)
(* devices it contends for.                                                *)
Joined ==
    \A r \in Request : Changing(req[r]) \/ Wiping(req[r]) =>
        \A i \in Existing : \/ rows[i].eui \in contended
                            \/ rows[i].app = req[r].app <=> i \in req[r].devices

MetInv == TypeOK /\ Forms /\ NotYet /\ Met /\ Joined
-----------------------------------------------------------------------------
(* What a step of request r leaves of it.                                  *)
Others(r) == \A q \in Request \ {r} : req'[q] = req[q]

SameTask(p, q) == p.kind = q.kind /\ p.id = q.id /\ p.eui = q.eui /\ p.app = q.app /\ p.devices = q.devices

(* It goes on ... *)
SameWork(p, q) ==
    /\ SameTask(p, q) /\ p.todo \subseteq q.todo
    /\ Storing(p) <=> Storing(q)
    /\ Removing(p) <=> Removing(q)
    /\ Changing(p) <=> Changing(q)
    /\ Wiping(p) <=> Wiping(q)

(* ... or it ends. *)
Closed(p, q) ==
    /\ Over(p) /\ p.app = q.app
    /\ p.id = NoRow /\ p.devices = {} /\ p.todo = {} /\ p.appCs = NoCs /\ p.cs = NoCs /\ p.listed = {}

(* A row stays as it is, keeps its EUI and its ChirpStack application and  *)
(* was contended for, is written by a request that ends with it, or is     *)
(* removed by one of those that work on it.                                *)
Touched(i) ==
    /\ i \in Existing /\ i \in Existing' /\ rows[i].eui \in contended
    /\ rows'[i].eui = rows[i].eui /\ rows'[i].cs = rows[i].cs

Written(p, i) ==
    /\ Storing(req[p]) /\ Closed(req'[p], req[p]) /\ i = req[p].id
    /\ rows'[i] = NewRow(p) /\ rows'[i] \in Row

Removed(i) ==
    /\ i \in Existing /\ rows'[i] = NoRow
    /\ \/ rows[i].eui \in contended
       \/ \E p \in Request : Busy(p) /\ Closed(req'[p], req[p]) /\ i \in Ids(req[p])

RowsStep ==
    \A i \in Id : \/ rows'[i] = rows[i]
                  \/ Touched(i)
                  \/ \E p \in Request : Written(p, i)
                  \/ Removed(i)

(* A request that is busy has a record with all fields. *)
LEMMA RequestTyped ==
    ASSUME TypeOK, NEW r \in Request, req[r].stage # "new"
    PROVE  /\ req[r] \in Req
           /\ req[r].kind \in Kind /\ req[r].stage \in Stage /\ req[r].id \in Id \cup {NoRow}
           /\ req[r].eui \in Eui \cup {NoRow} /\ req[r].app \in App /\ req[r].known \in BOOLEAN
           /\ req[r].cs \in CsApp \cup {NoCs} /\ req[r].appCs \in CsApp \cup {NoCs}
           /\ req[r].listed \subseteq CsApp /\ req[r].devices \subseteq Id /\ req[r].todo \subseteq Eui
<1>1. req[r] \in Req
  BY DEF TypeOK, Nothing
<1> QED  BY <1>1 DEF Req

LEMMA NewReqTyped ==
    ASSUME NEW kind \in Kind, NEW stage \in Stage, NEW id \in Id \cup {NoRow},
           NEW e \in Eui \cup {NoRow}, NEW a \in App
    PROVE  /\ NewReq(kind, stage, id, e, a) \in Req
           /\ NewReq(kind, stage, id, e, a).kind = kind /\ NewReq(kind, stage, id, e, a).stage = stage
           /\ NewReq(kind, stage, id, e, a).id = id /\ NewReq(kind, stage, id, e, a).eui = e
           /\ NewReq(kind, stage, id, e, a).app = a /\ NewReq(kind, stage, id, e, a).cs = NoCs
           /\ NewReq(kind, stage, id, e, a).appCs = NoCs /\ NewReq(kind, stage, id, e, a).listed = {}
           /\ NewReq(kind, stage, id, e, a).devices = {} /\ NewReq(kind, stage, id, e, a).todo = {}
  BY DEF NewReq, Req

(* A request is given another record. *)
LEMMA Replaced ==
    ASSUME TypeOK, NEW r \in Request, NEW q \in Req, req' = [req EXCEPT ![r] = q]
    PROVE  req' \in [Request -> Req \cup {Nothing}] /\ req'[r] = q /\ Others(r)
  BY DEF TypeOK, Others

(* The request goes on: to stage s, with known, cs, appCs, listed and todo as given. *)
Turns(r, s, k, c, d, l, t) ==
    /\ req' \in [Request -> Req \cup {Nothing}] /\ Others(r)
    /\ SameTask(req'[r], req[r]) /\ req'[r].stage = s /\ req'[r].known = k
    /\ req'[r].cs = c /\ req'[r].appCs = d /\ req'[r].listed = l /\ req'[r].todo = t

LEMMA Went ==
    ASSUME TypeOK, NEW r \in Request, Busy(r), NEW s \in Stage, Goto(r, s)
    PROVE  Turns(r, s, req[r].known, req[r].cs, req[r].appCs, req[r].listed, req[r].todo)
<1> DEFINE q == [req[r] EXCEPT !.stage = s]
<1>1. req[r] \in Req
  BY RequestTyped DEF Busy
<1>2. /\ q \in Req /\ SameTask(q, req[r]) /\ q.stage = s /\ q.todo = req[r].todo
      /\ q.cs = req[r].cs /\ q.appCs = req[r].appCs /\ q.known = req[r].known /\ q.listed = req[r].listed
  BY <1>1 DEF Req, SameTask
<1>3. req' = [req EXCEPT ![r] = q]
  BY DEF Goto
<1> HIDE DEF q
<1>4. req' \in [Request -> Req \cup {Nothing}] /\ req'[r] = q /\ Others(r)
  BY <1>2, <1>3, Replaced
<1> QED  BY <1>2, <1>4 DEF Turns

LEMMA KnownRead ==
    ASSUME TypeOK, NEW r \in Request, Busy(r), NEW s \in Stage, NEW k \in BOOLEAN,
           req' = [req EXCEPT ![r].known = k, ![r].stage = s]
    PROVE  Turns(r, s, k, req[r].cs, req[r].appCs, req[r].listed, req[r].todo)
<1> DEFINE q == [req[r] EXCEPT !.known = k, !.stage = s]
<1>1. req[r] \in Req
  BY RequestTyped DEF Busy
<1>2. /\ q \in Req /\ SameTask(q, req[r]) /\ q.stage = s /\ q.todo = req[r].todo
      /\ q.cs = req[r].cs /\ q.appCs = req[r].appCs /\ q.known = k /\ q.listed = req[r].listed
  BY <1>1 DEF Req, SameTask
<1>3. req' = [req EXCEPT ![r] = q]
  BY DEF TypeOK
<1> HIDE DEF q
<1>4. req' \in [Request -> Req \cup {Nothing}] /\ req'[r] = q /\ Others(r)
  BY <1>2, <1>3, Replaced
<1> QED  BY <1>2, <1>4 DEF Turns

LEMMA ListRead ==
    ASSUME TypeOK, NEW r \in Request, Busy(r), NEW s \in Stage, NEW l \in SUBSET CsApp,
           req' = [req EXCEPT ![r].listed = l, ![r].stage = s]
    PROVE  Turns(r, s, req[r].known, req[r].cs, req[r].appCs, l, req[r].todo)
<1> DEFINE q == [req[r] EXCEPT !.listed = l, !.stage = s]
<1>1. req[r] \in Req
  BY RequestTyped DEF Busy
<1>2. /\ q \in Req /\ SameTask(q, req[r]) /\ q.stage = s /\ q.todo = req[r].todo
      /\ q.cs = req[r].cs /\ q.appCs = req[r].appCs /\ q.known = req[r].known /\ q.listed = l
  BY <1>1 DEF Req, SameTask
<1>3. req' = [req EXCEPT ![r] = q]
  BY DEF TypeOK
<1> HIDE DEF q
<1>4. req' \in [Request -> Req \cup {Nothing}] /\ req'[r] = q /\ Others(r)
  BY <1>2, <1>3, Replaced
<1> QED  BY <1>2, <1>4 DEF Turns

LEMMA ApplicationFound ==
    ASSUME TypeOK, NEW r \in Request, Busy(r), NEW s \in Stage, NEW c \in CsApp,
           req' = [req EXCEPT ![r].cs = c, ![r].listed = {}, ![r].stage = s]
    PROVE  Turns(r, s, req[r].known, c, req[r].appCs, {}, req[r].todo)
<1> DEFINE q == [req[r] EXCEPT !.cs = c, !.listed = {}, !.stage = s]
<1>1. req[r] \in Req
  BY RequestTyped DEF Busy
<1>2. /\ q \in Req /\ SameTask(q, req[r]) /\ q.stage = s /\ q.todo = req[r].todo
      /\ q.cs = c /\ q.appCs = req[r].appCs /\ q.known = req[r].known /\ q.listed = {}
  BY <1>1 DEF Req, SameTask
<1>3. req' = [req EXCEPT ![r] = q]
  BY DEF TypeOK
<1> HIDE DEF q
<1>4. req' \in [Request -> Req \cup {Nothing}] /\ req'[r] = q /\ Others(r)
  BY <1>2, <1>3, Replaced
<1> QED  BY <1>2, <1>4 DEF Turns

LEMMA ApplicationMade ==
    ASSUME TypeOK, NEW r \in Request, Busy(r), NEW s \in Stage, NEW c \in CsApp,
           req' = [req EXCEPT ![r].appCs = c, ![r].listed = {}, ![r].stage = s]
    PROVE  Turns(r, s, req[r].known, req[r].cs, c, {}, req[r].todo)
<1> DEFINE q == [req[r] EXCEPT !.appCs = c, !.listed = {}, !.stage = s]
<1>1. req[r] \in Req
  BY RequestTyped DEF Busy
<1>2. /\ q \in Req /\ SameTask(q, req[r]) /\ q.stage = s /\ q.todo = req[r].todo
      /\ q.cs = req[r].cs /\ q.appCs = c /\ q.known = req[r].known /\ q.listed = {}
  BY <1>1 DEF Req, SameTask
<1>3. req' = [req EXCEPT ![r] = q]
  BY DEF TypeOK
<1> HIDE DEF q
<1>4. req' \in [Request -> Req \cup {Nothing}] /\ req'[r] = q /\ Others(r)
  BY <1>2, <1>3, Replaced
<1> QED  BY <1>2, <1>4 DEF Turns

LEMMA ApplicationNamed ==
    ASSUME TypeOK, NEW r \in Request, Busy(r), NEW s \in Stage, NEW c \in CsApp,
           req' = [req EXCEPT ![r].cs = c, ![r].stage = s]
    PROVE  Turns(r, s, req[r].known, c, req[r].appCs, req[r].listed, req[r].todo)
<1> DEFINE q == [req[r] EXCEPT !.cs = c, !.stage = s]
<1>1. req[r] \in Req
  BY RequestTyped DEF Busy
<1>2. /\ q \in Req /\ SameTask(q, req[r]) /\ q.stage = s /\ q.todo = req[r].todo
      /\ q.cs = c /\ q.appCs = req[r].appCs /\ q.known = req[r].known /\ q.listed = req[r].listed
  BY <1>1 DEF Req, SameTask
<1>3. req' = [req EXCEPT ![r] = q]
  BY DEF TypeOK
<1> HIDE DEF q
<1>4. req' \in [Request -> Req \cup {Nothing}] /\ req'[r] = q /\ Others(r)
  BY <1>2, <1>3, Replaced
<1> QED  BY <1>2, <1>4 DEF Turns

LEMMA Wiped ==
    ASSUME TypeOK, NEW r \in Request, Busy(r), NEW e \in Eui,
           req' = [req EXCEPT ![r].todo = @ \ {e}]
    PROVE  Turns(r, req[r].stage, req[r].known, req[r].cs, req[r].appCs, req[r].listed, req[r].todo \ {e})
<1> DEFINE q == [req[r] EXCEPT !.todo = @ \ {e}]
<1>1. req[r] \in Req /\ req[r].todo \subseteq Eui
  BY RequestTyped DEF Busy
<1>2. /\ q \in Req /\ SameTask(q, req[r]) /\ q.stage = req[r].stage /\ q.todo = req[r].todo \ {e}
      /\ q.cs = req[r].cs /\ q.appCs = req[r].appCs /\ q.known = req[r].known /\ q.listed = req[r].listed
  BY <1>1 DEF Req, SameTask
<1>3. req' = [req EXCEPT ![r] = q]
  BY DEF TypeOK
<1> HIDE DEF q
<1>4. req' \in [Request -> Req \cup {Nothing}] /\ req'[r] = q /\ Others(r)
  BY <1>2, <1>3, Replaced
<1> QED  BY <1>2, <1>4 DEF Turns

LEMMA Answered ==
    ASSUME TypeOK, NEW r \in Request, Busy(r), NEW s \in {"done", "failed"}, Answer(r, s)
    PROVE  /\ req' \in [Request -> Req \cup {Nothing}] /\ Others(r)
           /\ Closed(req'[r], req[r]) /\ req'[r].stage = s
<1> DEFINE q == NewReq(req[r].kind, s, NoRow, req[r].eui, req[r].app)
<1>1. req[r].kind \in Kind /\ req[r].eui \in Eui \cup {NoRow} /\ req[r].app \in App /\ s \in Stage
  BY RequestTyped DEF Busy, Stage
<1>2. /\ q \in Req /\ q.stage = s /\ q.id = NoRow /\ q.app = req[r].app /\ q.cs = NoCs
      /\ q.appCs = NoCs /\ q.listed = {} /\ q.devices = {} /\ q.todo = {}
  BY <1>1 DEF NewReq, Req
<1>3. req' = [req EXCEPT ![r] = q]
  BY DEF Answer
<1> HIDE DEF q
<1>4. req' \in [Request -> Req \cup {Nothing}] /\ req'[r] = q /\ Others(r)
  BY <1>2, <1>3, Replaced
<1> QED  BY <1>2, <1>4 DEF Closed, Over

(* A request is refused, or one of its calls fails: it is answered with an *)
(* error, or the update goes on without what failed.                       *)
Aborts(r) == Busy(r) /\ Abort(r)

Skips(r) ==
    /\ Storing(req[r]) /\ req[r].kind = "update" /\ Goto(r, "select")
    /\ UNCHANGED <<db, chirpstack, history>>

(* What a request does, one step at a time. *)
Works(r) ==
    \/ GetLorawanDeviceEuis(r) \/ ListApplications(r) \/ FindApplication(r) \/ CreateApplication(r)
    \/ FindApplicationToName(r) \/ SaveApplicationId(r) \/ CreateOrUpdateDevice(r)
    \/ SelectRow(r) \/ InsertRow(r) \/ WriteRow(r)
    \/ RemoveRow(r) \/ DeleteInChirpstack(r) \/ CommitDelete(r)
    \/ PutApplication(r) \/ WriteApplication(r)
    \/ (\E e \in Eui : WipeDevice(r, e)) \/ DeleteAppInChirpstack(r) \/ DropApplication(r)
    \/ AnswerLost(r) \/ Skips(r) \/ Aborts(r)

(* A request that is busy is at one of these stages. *)
LEMMA BusyStages ==
    ASSUME TypeOK, NEW r \in Request
    PROVE  Busy(r) <=> Storing(req[r]) \/ Removing(req[r]) \/ Changing(req[r]) \/ Wiping(req[r])
<1>1. CASE req[r].stage = "new"
  BY <1>1 DEF Busy, Storing, Removing, Changing, Wiping
<1>2. CASE req[r].stage # "new"
  BY <1>2, RequestTyped DEF Busy, Stage, Storing, Removing, Changing, Wiping
<1> QED  BY <1>1, <1>2

LEMMA MappedIs ==
    ASSUME NEW r \in Request, Storing(req[r]), Mapped(r)
    PROVE  Skips(r) \/ Aborts(r)
  BY DEF Mapped, Skips, Aborts, Busy, Storing

LEMMA WorksIs ==
    ASSUME TypeOK, NEW r \in Request,
           StoreDevice(r) \/ Delete(r) \/ StoreApp(r) \/ DeleteApp(r) \/ CallFails(r) \/ AnswerLost(r)
    PROVE  Works(r)
<1> USE DEF Works, At, Busy, Aborts
<1>1. CASE StoreDevice(r)
  <2>1. CASE RefuseApplication(r) \/ RefuseName(r) \/ RefusePut(r)
    <3>1. Storing(req[r]) /\ Mapped(r)
      BY <2>1 DEF RefuseApplication, RefuseName, RefusePut, Storing
    <3> QED  BY <3>1, MappedIs
  <2>2. CASE RefuseUsedEui(r) \/ RefuseSave(r)
    BY <2>2 DEF RefuseUsedEui, RefuseSave
  <2> QED  BY <1>1, <2>1, <2>2 DEF StoreDevice
<1>2. CASE Delete(r)
  <2>1. CASE RefuseRemove(r) \/ RefuseDelete(r)
    BY <2>1 DEF RefuseRemove, RefuseDelete
  <2> QED  BY <1>2, <2>1 DEF Delete
<1>3. CASE StoreApp(r)
  <2>1. CASE RefusePutApp(r)
    BY <2>1 DEF RefusePutApp
  <2> QED  BY <1>3, <2>1 DEF StoreApp
<1>4. CASE DeleteApp(r)
  <2>1. CASE RefuseDeleteApp(r) \/ \E e \in Eui : RefuseWipe(r, e)
    BY <2>1 DEF RefuseDeleteApp, RefuseWipe
  <2> QED  BY <1>4, <2>1 DEF DeleteApp
<1>5. CASE CallFails(r)
  <2>1. CASE Mapping(r)
    <3>1. Storing(req[r]) /\ Mapped(r)
      BY <1>5, <2>1 DEF CallFails, Mapping, Storing
    <3> QED  BY <3>1, MappedIs
  <2>2. CASE ~Mapping(r)
    BY <1>5, <2>2 DEF CallFails
  <2> QED  BY <2>1, <2>2
<1> QED  BY <1>1, <1>2, <1>3, <1>4, <1>5

(* Every step of a request leaves the other ones alone; it goes on with    *)
(* its work, formed as before, or ends it.                                 *)
Proceeds(r) ==
    /\ req' \in [Request -> Req \cup {Nothing}] /\ Others(r) /\ Busy(r)
    /\ Formed(req'[r], r)
    /\ SameWork(req'[r], req[r]) \/ Closed(req'[r], req[r])

LEMMA AnswerProceeds ==
    ASSUME TypeOK, NEW r \in Request, Busy(r), NEW s \in {"done", "failed"}, Answer(r, s)
    PROVE  Proceeds(r)
<1>1. /\ req' \in [Request -> Req \cup {Nothing}] /\ Others(r)
      /\ Closed(req'[r], req[r]) /\ req'[r].stage = s
  BY Answered
<1>2. Formed(req'[r], r)
  BY <1>1 DEF Formed, Closed, Over, Storing, Removing, Changing, Wiping
<1> QED  BY <1>1, <1>2 DEF Proceeds

LEMMA TurnProceeds ==
    ASSUME NEW r \in Request, Busy(r), NEW s, NEW k, NEW c, NEW d, NEW l, NEW t,
           Turns(r, s, k, c, d, l, t), Formed(req'[r], r), t \subseteq req[r].todo,
           \/ Storing(req[r]) /\ s \in {"euis", "list", "findApp", "nameApp", "saveApp", "put", "select", "insert", "write"}
           \/ Removing(req[r]) /\ s \in {"remove", "csDelete", "commit"}
           \/ Changing(req[r]) /\ s \in {"putApp", "writeApp"}
           \/ Wiping(req[r]) /\ s \in {"wipe", "drop"}
    PROVE  Proceeds(r)
<1>1. SameWork(req'[r], req[r])
  <2>1. SameTask(req'[r], req[r]) /\ req'[r].todo \subseteq req[r].todo /\ req'[r].stage = s
    BY DEF Turns
  <2> QED  BY <2>1 DEF SameWork, Storing, Removing, Changing, Wiping
<1> QED  BY <1>1 DEF Proceeds, Turns

LEMMA WorksProceed ==
    ASSUME TypeOK, Forms, NEW r \in Request, Works(r)
    PROVE  Proceeds(r)
<1> USE DEF At
<1>a. Formed(req[r], r)
  BY DEF Forms
<1>1. CASE GetLorawanDeviceEuis(r)
  <2>1. Busy(r) /\ Storing(req[r]) /\ req[r].stage = "euis"
    BY <1>1 DEF GetLorawanDeviceEuis, Busy, Storing
  <2>2. PICK k \in BOOLEAN : Turns(r, "list", k, req[r].cs, req[r].appCs, req[r].listed, req[r].todo)
    BY <1>1, <2>1, KnownRead DEF GetLorawanDeviceEuis, Stage
  <2>3. Formed(req'[r], r)
    BY <1>a, <2>1, <2>2 DEF Turns, SameTask, Formed, Storing, Removing, Changing, Wiping, Over
  <2> QED  BY <2>1, <2>2, <2>3, TurnProceeds
<1>2. CASE ListApplications(r)
  <2>1. Busy(r) /\ Storing(req[r]) /\ req[r].stage = "list"
    BY <1>2 DEF ListApplications, Busy, Storing
  <2>2. Turns(r, "findApp", req[r].known, req[r].cs, req[r].appCs, csApps, req[r].todo)
    <3>1. csApps \in SUBSET CsApp
      BY DEF TypeOK
    <3> QED  BY <1>2, <2>1, <3>1, ListRead DEF ListApplications, Stage
  <2>3. Formed(req'[r], r)
    BY <1>a, <2>1, <2>2 DEF Turns, SameTask, Formed, Storing, Removing, Changing, Wiping, Over
  <2> QED  BY <2>1, <2>2, <2>3, TurnProceeds
<1>3. CASE FindApplication(r)
  <2>1. Busy(r) /\ Storing(req[r]) /\ req[r].stage = "findApp"
    BY <1>3 DEF FindApplication, Busy, Storing
  <2>2. PICK c \in Candidates(req[r]) : req' = [req EXCEPT ![r].cs = c, ![r].listed = {}, ![r].stage = "put"]
    BY <1>3 DEF FindApplication
  <2>3. c \in CsApp /\ (c = req[r].cs \/ c = req[r].appCs)
    BY <2>1, RequestTyped DEF Candidates, Busy
  <2>4. Turns(r, "put", req[r].known, c, req[r].appCs, {}, req[r].todo)
    BY <2>1, <2>2, <2>3, ApplicationFound DEF Stage
  <2>5. c # NoCs
    BY <2>3, LorawanAssumption
  <2>6. Formed(req'[r], r)
    BY <1>a, <2>1, <2>3, <2>4, <2>5 DEF Turns, SameTask, Formed, Storing, Removing, Changing, Wiping, Over
  <2> QED  BY <2>1, <2>4, <2>6, TurnProceeds
<1>4. CASE CreateApplication(r)
  <2>1. Busy(r) /\ Storing(req[r]) /\ req[r].stage = "findApp"
    BY <1>4 DEF CreateApplication, Busy, Storing
  <2>2. PICK c \in CsApp \ csGiven : req' = [req EXCEPT ![r].appCs = c, ![r].listed = {}, ![r].stage = "nameApp"]
    BY <1>4 DEF CreateApplication
  <2>3. Turns(r, "nameApp", req[r].known, req[r].cs, c, {}, req[r].todo)
    BY <2>1, <2>2, ApplicationMade DEF Stage
  <2>4. c # NoCs
    BY <2>2, LorawanAssumption
  <2>5. Formed(req'[r], r)
    BY <1>a, <2>1, <2>3, <2>4 DEF Turns, SameTask, Formed, Storing, Removing, Changing, Wiping, Over
  <2> QED  BY <2>1, <2>3, <2>5, TurnProceeds
<1>5. CASE FindApplicationToName(r)
  <2>1. Busy(r) /\ Storing(req[r]) /\ req[r].stage = "nameApp"
    BY <1>5 DEF FindApplicationToName, Busy, Storing
  <2>2. Turns(r, "saveApp", req[r].known, req[r].cs, req[r].appCs, req[r].listed, req[r].todo)
    BY <1>5, <2>1, Went DEF FindApplicationToName, Stage
  <2>3. Formed(req'[r], r)
    BY <1>a, <2>1, <2>2 DEF Turns, SameTask, Formed, Storing, Removing, Changing, Wiping, Over
  <2> QED  BY <2>1, <2>2, <2>3, TurnProceeds
<1>6. CASE SaveApplicationId(r)
  <2>1. Busy(r) /\ Storing(req[r]) /\ req[r].stage = "saveApp"
    BY <1>6 DEF SaveApplicationId, Busy, Storing
  <2>2. req[r].appCs \in CsApp
    BY <1>a, <2>1, RequestTyped DEF Formed, Busy
  <2>3. Turns(r, "put", req[r].known, req[r].appCs, req[r].appCs, req[r].listed, req[r].todo)
    BY <1>6, <2>1, <2>2, ApplicationNamed DEF SaveApplicationId, Stage
  <2>4. req[r].appCs # NoCs
    BY <2>2, LorawanAssumption
  <2>5. Formed(req'[r], r)
    BY <1>a, <2>1, <2>3, <2>4 DEF Turns, SameTask, Formed, Storing, Removing, Changing, Wiping, Over
  <2> QED  BY <2>1, <2>3, <2>5, TurnProceeds
<1>7. CASE CreateOrUpdateDevice(r)
  <2>1. Busy(r) /\ Storing(req[r]) /\ req[r].stage = "put"
    BY <1>7 DEF CreateOrUpdateDevice, Busy, Storing
  <2>2. Turns(r, AfterPut(req[r]), req[r].known, req[r].cs, req[r].appCs, req[r].listed, req[r].todo)
    BY <1>7, <2>1, Went DEF CreateOrUpdateDevice, Stage, AfterPut
  <2>3. Formed(req'[r], r)
    BY <1>a, <2>1, <2>2 DEF Turns, SameTask, Formed, Storing, Removing, Changing, Wiping, Over, AfterPut
  <2>4. AfterPut(req[r]) \in {"euis", "list", "findApp", "nameApp", "saveApp", "put", "select", "insert", "write"}
    BY DEF AfterPut
  <2> QED  BY <2>1, <2>2, <2>3, <2>4, TurnProceeds
<1>8. CASE SelectRow(r)
  <2>1. Busy(r) /\ Storing(req[r]) /\ req[r].stage = "select"
    BY <1>8 DEF SelectRow, Busy, Storing
  <2>2. PICK s \in {"write", "insert"} : Turns(r, s, req[r].known, req[r].cs, req[r].appCs, req[r].listed, req[r].todo)
    BY <1>8, <2>1, Went DEF SelectRow, Stage
  <2>3. Formed(req'[r], r)
    BY <1>a, <2>1, <2>2 DEF Turns, SameTask, Formed, Storing, Removing, Changing, Wiping, Over
  <2> QED  BY <2>1, <2>2, <2>3, TurnProceeds
<1>9. CASE InsertRow(r) \/ WriteRow(r) \/ CommitDelete(r) \/ WriteApplication(r) \/ DropApplication(r)
  <2>1. Busy(r) /\ Answer(r, "done")
    BY <1>9 DEF InsertRow, WriteRow, CommitDelete, WriteApplication, DropApplication, Busy
  <2> QED  BY <2>1, AnswerProceeds
<1>10. CASE RemoveRow(r) \/ DeleteInChirpstack(r)
  <2>1. Busy(r) /\ Removing(req[r])
    BY <1>10 DEF RemoveRow, DeleteInChirpstack, Busy, Removing
  <2>2. PICK s \in {"csDelete", "commit"} : Turns(r, s, req[r].known, req[r].cs, req[r].appCs, req[r].listed, req[r].todo)
    BY <1>10, <2>1, Went DEF RemoveRow, DeleteInChirpstack, Stage
  <2>3. Formed(req'[r], r)
    BY <1>a, <2>1, <2>2 DEF Turns, SameTask, Formed, Storing, Removing, Changing, Wiping, Over
  <2> QED  BY <2>1, <2>2, <2>3, TurnProceeds
<1>11. CASE PutApplication(r)
  <2>1. Busy(r) /\ Changing(req[r])
    BY <1>11 DEF PutApplication, Busy, Changing
  <2>2. Turns(r, "writeApp", req[r].known, req[r].cs, req[r].appCs, req[r].listed, req[r].todo)
    BY <1>11, <2>1, Went DEF PutApplication, Stage
  <2>3. Formed(req'[r], r)
    BY <1>a, <2>1, <2>2 DEF Turns, SameTask, Formed, Storing, Removing, Changing, Wiping, Over
  <2> QED  BY <2>1, <2>2, <2>3, TurnProceeds
<1>12. CASE \E e \in Eui : WipeDevice(r, e)
  <2>1. Busy(r) /\ Wiping(req[r]) /\ req[r].stage = "wipe"
    BY <1>12 DEF WipeDevice, Busy, Wiping
  <2>2. PICK e \in Eui : Turns(r, "wipe", req[r].known, req[r].cs, req[r].appCs, req[r].listed, req[r].todo \ {e})
    BY <1>12, <2>1, Wiped DEF WipeDevice
  <2>3. Formed(req'[r], r)
    BY <1>a, <2>1, <2>2 DEF Turns, SameTask, Formed, Storing, Removing, Changing, Wiping, Over
  <2> QED  BY <2>1, <2>2, <2>3, TurnProceeds
<1>13. CASE DeleteAppInChirpstack(r)
  <2>1. Busy(r) /\ Wiping(req[r]) /\ req[r].stage = "wipe" /\ req[r].todo = {}
    BY <1>13 DEF DeleteAppInChirpstack, Busy, Wiping
  <2>2. Turns(r, "drop", req[r].known, req[r].cs, req[r].appCs, req[r].listed, req[r].todo)
    BY <1>13, <2>1, Went DEF DeleteAppInChirpstack, Stage
  <2>3. Formed(req'[r], r)
    BY <1>a, <2>1, <2>2 DEF Turns, SameTask, Formed, Storing, Removing, Changing, Wiping, Over
  <2> QED  BY <2>1, <2>2, <2>3, TurnProceeds
<1>14. CASE AnswerLost(r) \/ Skips(r) \/ Aborts(r)
  <2>1. Busy(r)
    BY <1>14 DEF AnswerLost, Skips, Aborts, Busy, Storing
  <2>2. CASE Storing(req[r]) /\ req[r].kind = "update" /\ Goto(r, "select")
    <3>1. Turns(r, "select", req[r].known, req[r].cs, req[r].appCs, req[r].listed, req[r].todo)
      BY <2>1, <2>2, Went DEF Stage
    <3>2. Formed(req'[r], r)
      BY <1>a, <2>2, <3>1 DEF Turns, SameTask, Formed, Storing, Removing, Changing, Wiping, Over
    <3> QED  BY <2>1, <2>2, <3>1, <3>2, TurnProceeds
  <2>3. CASE Answer(r, "failed")
    BY <2>1, <2>3, AnswerProceeds
  <2> QED  BY <1>14, <2>2, <2>3 DEF AnswerLost, Skips, Aborts, Abort, Storing
<1> QED  BY <1>1, <1>2, <1>3, <1>4, <1>5, <1>6, <1>7, <1>8, <1>9, <1>10, <1>11, <1>12, <1>13, <1>14 DEF Works

(* A row that exists is a row. *)
LEMMA RowTyped ==
    ASSUME TypeOK, NEW i \in Existing
    PROVE  i \in Id /\ rows[i] \in Row /\ rows[i].eui \in Eui /\ rows[i].app \in App \cup {NoApp} /\ rows[i].cs \in CsApp
  BY DEF TypeOK, Existing, Row

LEMMA NewRowTyped ==
    ASSUME TypeOK, Forms, NEW r \in Request, req[r].stage \in {"insert", "write"}
    PROVE  /\ NewRow(r) \in Row /\ NewRow(r).eui = req[r].eui
           /\ NewRow(r).app = req[r].app /\ NewRow(r).cs = req[r].cs
<1>1. Storing(req[r]) /\ Formed(req[r], r)
  BY DEF Forms, Storing
<1>2. req[r].eui \in Eui /\ req[r].cs # NoCs
  BY <1>1 DEF Formed
<1>3. req[r].cs \in CsApp /\ req[r].app \in App
  BY <1>2, RequestTyped
<1> QED  BY <1>2, <1>3 DEF NewRow, Row

(* Saving an application with its devices changes only rows it contends for. *)
LEMMA AppSaved ==
    ASSUME TypeOK, Joined, NEW r \in Request, Changing(req[r]), rows' = AfterAppSave(r), NEW i \in Id
    PROVE  (rows'[i] = rows[i] \/ Touched(i)) /\ rows'[i] \in Row \cup {NoRow}
<1>a. rows \in [Id -> Row \cup {NoRow}] /\ req[r].app \in App
  BY RequestTyped DEF TypeOK, Changing
<1>1. CASE i \in Existing /\ rows[i].eui \notin contended
  <2>1. rows[i].app = req[r].app <=> i \in req[r].devices
    BY <1>1 DEF Joined
  <2>2. i \in req[r].devices => [rows[i] EXCEPT !.app = req[r].app] = rows[i]
    BY <2>1, <1>1, RowTyped DEF Row
  <2>3. i \notin req[r].devices => i \notin DevicesOf(req[r].app)
    BY <2>1 DEF DevicesOf
  <2>4. rows'[i] = rows[i]
    BY <1>1, <2>2, <2>3 DEF AfterAppSave
  <2> QED  BY <1>a, <2>4
<1>2. CASE i \in Existing /\ rows[i].eui \in contended
  <2>1. PICK a \in App \cup {NoApp} : rows'[i] = rows[i] \/ rows'[i] = [rows[i] EXCEPT !.app = a]
    BY <1>a DEF AfterAppSave
  <2>2. [rows[i] EXCEPT !.app = a] \in Row /\ [rows[i] EXCEPT !.app = a].eui = rows[i].eui
        /\ [rows[i] EXCEPT !.app = a].cs = rows[i].cs
    BY <1>2, RowTyped DEF Row
  <2>3. NoRow \notin Row
    BY LorawanAssumption
  <2> QED  BY <1>a, <1>2, <2>1, <2>2, <2>3 DEF Touched, Existing
<1>3. CASE i \notin Existing
  <2>1. i \notin DevicesOf(req[r].app)
    BY <1>3 DEF DevicesOf
  <2> QED  BY <1>a, <1>3, <2>1 DEF AfterAppSave
<1> QED  BY <1>1, <1>2, <1>3

LEMMA WorksOnRows ==
    ASSUME TypeOK, Forms, Joined, NEW r \in Request, Works(r), Proceeds(r)
    PROVE  RowsStep /\ rows' \in [Id -> Row \cup {NoRow}]
<1> USE DEF At
<1>a. Formed(req[r], r) /\ rows \in [Id -> Row \cup {NoRow}]
  BY DEF Forms, TypeOK
<1>1. CASE InsertRow(r) \/ WriteRow(r)
  <2>1. Storing(req[r]) /\ req[r].stage \in {"insert", "write"} /\ req[r].id \in Id
    BY <1>1, <1>a DEF InsertRow, WriteRow, Storing, Formed
  <2>2. rows' = rows \/ rows' = [rows EXCEPT ![req[r].id] = NewRow(r)]
    BY <1>1 DEF InsertRow, WriteRow
  <2>3. Answer(r, "done") /\ Busy(r)
    BY <1>1 DEF InsertRow, WriteRow, Busy
  <2>4. Closed(req'[r], req[r])
    BY <2>3, Answered
  <2>5. CASE rows' = rows
    BY <2>5, <1>a DEF RowsStep
  <2>6. CASE rows' = [rows EXCEPT ![req[r].id] = NewRow(r)]
    <3>1. NewRow(r) \in Row
      BY <2>1, NewRowTyped
    <3>2. ASSUME NEW i \in Id  PROVE rows'[i] = rows[i] \/ Written(r, i)
      BY <1>a, <2>1, <2>4, <2>6, <3>1 DEF Written
    <3> QED  BY <1>a, <2>6, <3>1, <3>2 DEF RowsStep
  <2> QED  BY <2>2, <2>5, <2>6
<1>2. CASE CommitDelete(r)
  <2>1. /\ Removing(req[r]) /\ req[r].id \in Id /\ Answer(r, "done") /\ Busy(r)
        /\ rows' = [rows EXCEPT ![req[r].id] = NoRow]
    BY <1>2, <1>a DEF CommitDelete, Removing, Formed, Busy
  <2>2. Closed(req'[r], req[r])
    BY <2>1, Answered
  <2>3. ASSUME NEW i \in Id  PROVE rows'[i] = rows[i] \/ Removed(i)
    BY <1>a, <2>1, <2>2 DEF Removed, Ids, Existing
  <2> QED  BY <1>a, <2>1, <2>3 DEF RowsStep
<1>3. CASE WriteApplication(r)
  <2>1. Changing(req[r]) /\ Busy(r) /\ rows' = AfterAppSave(r)
    BY <1>3 DEF WriteApplication, Changing, Busy
  <2>3. \A i \in Id : (rows'[i] = rows[i] \/ Touched(i)) /\ rows'[i] \in Row \cup {NoRow}
    BY <2>1, AppSaved
  <2>4. rows' \in [Id -> Row \cup {NoRow}]
    <3>1. rows' = [i \in Id |-> rows'[i]]
      BY <2>1 DEF AfterAppSave
    <3> QED  BY <3>1, <2>3
  <2> QED  BY <2>3, <2>4 DEF RowsStep
<1>4. CASE DropApplication(r)
  <2>1. /\ Wiping(req[r]) /\ Busy(r) /\ Answer(r, "done")
        /\ rows' = [i \in Id |-> IF i \in DevicesOf(req[r].app) THEN NoRow ELSE rows[i]]
    BY <1>4 DEF DropApplication, Wiping, Busy
  <2>2. Closed(req'[r], req[r])
    BY <2>1, Answered
  <2>3. ASSUME NEW i \in Id  PROVE rows'[i] = rows[i] \/ Removed(i)
    <3>1. CASE i \in DevicesOf(req[r].app)
      <4>1. i \in Existing /\ rows[i].app = req[r].app
        BY <3>1 DEF DevicesOf
      <4>2. rows[i].eui \in contended \/ i \in req[r].devices
        BY <4>1, <2>1 DEF Joined
      <4> QED  BY <2>1, <2>2, <3>1, <4>1, <4>2 DEF Removed, Ids
    <3>2. CASE i \notin DevicesOf(req[r].app)
      BY <2>1, <3>2
    <3> QED  BY <3>1, <3>2
  <2> QED  BY <1>a, <2>1, <2>3 DEF RowsStep
<1>5. CASE rows' = rows
  BY <1>5, <1>a DEF RowsStep
<1> QED
  BY <1>1, <1>2, <1>3, <1>4, <1>5
  DEF Works, GetLorawanDeviceEuis, ListApplications, FindApplication, CreateApplication, FindApplicationToName,
      SaveApplicationId, CreateOrUpdateDevice, SelectRow, RemoveRow, DeleteInChirpstack, PutApplication,
      WipeDevice, DeleteAppInChirpstack, AnswerLost, Skips, Aborts, Abort, db

(* A step on requests that are there: each stays, goes on or ends. *)
Onward ==
    /\ contended' = contended
    /\ \A q \in Request : \/ req'[q] = req[q]
                          \/ Busy(q) /\ (SameWork(req'[q], req[q]) \/ Closed(req'[q], req[q]))
    /\ RowsStep

LEMMA StillBusy ==
    ASSUME Onward, NEW q \in Request, Busy(q)'
    PROVE  Busy(q) /\ SameWork(req'[q], req[q])
<1>1. CASE req'[q] = req[q]
  BY <1>1 DEF Busy, SameWork, SameTask
<1>2. CASE Busy(q) /\ Closed(req'[q], req[q])
  BY <1>2 DEF Busy, Closed, Over
<1> QED  BY <1>1, <1>2 DEF Onward

LEMMA EndsMeet ==
    ASSUME TypeOK, Met, Onward, NEW p \in Request, NEW q \in Request, Busy(q)',
           Busy(p), Closed(req'[p], req[p]), Ids(req[p]) \cap Ids(req[q]) # {}
    PROVE  EuisOf(req[p]) \cup EuisOf(req[q]) \subseteq contended
<1>1. p # q
  BY DEF Closed, Over, Busy
<1>2. Busy(q)
  BY StillBusy
<1> QED  BY <1>1, <1>2 DEF Met, Meet

(* It comes to work on another EUI only as another request ends with it. *)
LEMMA EuiGained ==
    ASSUME TypeOK, Met, Onward, NEW q \in Request, Busy(q)', NEW e \in EuisOf(req[q])', e \notin EuisOf(req[q])
    PROVE  \E p \in Request : /\ Busy(p) /\ ~Busy(p)' /\ e \in EuisOf(req[p])
                              /\ EuisOf(req[p]) \cup EuisOf(req[q]) \subseteq contended
<1>1. SameTask(req'[q], req[q])
  BY StillBusy DEF SameWork
<1>2. PICK i \in Ids(req[q]) : i \in Existing' /\ rows'[i].eui = e /\ e \in Eui
  BY <1>1 DEF SameTask, Ids, EuisOf, Existing
<1>3. PICK p \in Request : Written(p, i)
  <2>1. ~(i \in Existing /\ rows[i].eui = e)
    BY <1>2 DEF EuisOf, Ids
  <2> QED  BY <1>2, <2>1 DEF Onward, RowsStep, Touched, Removed, Existing, Ids
<1>4. Busy(p) /\ ~Busy(p)' /\ Closed(req'[p], req[p]) /\ i \in Ids(req[p])
  BY <1>3, <1>2 DEF Written, Ids, Busy, Storing, Closed, Over
<1>5. e \in EuisOf(req[p])
  BY <1>2, <1>3 DEF Written, NewRow, EuisOf
<1> QED  BY <1>2, <1>4, <1>5, EndsMeet

(* What a request works on changes only where it contends. *)
LEMMA EuisStay ==
    ASSUME TypeOK, Forms, Met, Onward, NEW q \in Request, Busy(q)', NEW e \in Eui \ contended
    PROVE  e \in EuisOf(req[q])' <=> e \in EuisOf(req[q])
<1>1. SameTask(req'[q], req[q])
  BY StillBusy DEF SameWork
<1>2. Ids(req'[q]) = Ids(req[q]) /\ req'[q].eui = req[q].eui
  BY <1>1 DEF SameTask, Ids
<1>3. ASSUME NEW i \in Ids(req[q]), i \in Existing', rows'[i].eui = e
      PROVE  e \in EuisOf(req[q])
  <2>1. CASE rows'[i] = rows[i]
    BY <1>3, <2>1 DEF EuisOf, Ids, Existing
  <2>2. CASE Touched(i)
    BY <1>3, <2>2 DEF Touched
  <2>3. CASE \E p \in Request : Written(p, i)
    <3>1. PICK p \in Request : Written(p, i)
      BY <2>3
    <3>2. Busy(p) /\ i \in Ids(req[p]) /\ Closed(req'[p], req[p])
      BY <3>1 DEF Written, Ids, Busy, Storing
    <3>3. EuisOf(req[p]) \subseteq contended
      BY <3>2, EndsMeet
    <3>4. e \in EuisOf(req[p])
      BY <1>3, <3>1 DEF Written, NewRow, EuisOf
    <3> QED  BY <3>3, <3>4
  <2>4. CASE Removed(i)
    BY <1>3, <2>4 DEF Removed, Existing
  <2> QED  BY <2>1, <2>2, <2>3, <2>4 DEF Onward, RowsStep, Ids
<1>4. ASSUME NEW i \in Ids(req[q]), i \in Existing, rows[i].eui = e
      PROVE  i \in Existing' /\ rows'[i].eui = e
  <2>0. e \in EuisOf(req[q])
    BY <1>4 DEF EuisOf, Ids
  <2>1. CASE rows'[i] = rows[i]
    BY <1>4, <2>1 DEF Existing
  <2>2. CASE Touched(i)
    BY <1>4, <2>2 DEF Touched
  <2>3. CASE \E p \in Request : Written(p, i)
    <3>1. PICK p \in Request : Written(p, i)
      BY <2>3
    <3>2. Busy(p) /\ i \in Ids(req[p]) /\ Closed(req'[p], req[p])
      BY <3>1 DEF Written, Ids, Busy, Storing
    <3> QED  BY <2>0, <3>2, EndsMeet
  <2>4. CASE Removed(i)
    <3>1. PICK p \in Request : Busy(p) /\ Closed(req'[p], req[p]) /\ i \in Ids(req[p])
      BY <1>4, <2>4 DEF Removed
    <3> QED  BY <2>0, <3>1, EndsMeet
  <2> QED  BY <2>1, <2>2, <2>3, <2>4 DEF Onward, RowsStep, Ids
<1>5. e \in EuisOf(req[q])' <=> e = req[q].eui \/ \E i \in Ids(req[q]) : i \in Existing' /\ rows'[i].eui = e
  BY <1>2 DEF EuisOf, Ids, Existing
<1>6. e \in EuisOf(req[q]) <=> e = req[q].eui \/ \E i \in Ids(req[q]) : i \in Existing /\ rows[i].eui = e
  BY DEF EuisOf, Ids, Existing
<1> QED  BY <1>3, <1>4, <1>5, <1>6

LEMMA MetOnward ==
    ASSUME TypeOK, Forms, Met, Onward
    PROVE  Met'
<1> SUFFICES ASSUME NEW q \in Request, NEW r \in Request, q # r, Busy(q)', Busy(r)', Meet(req[q], req[r])',
                    NEW e \in EuisOf(req[q])' \cup EuisOf(req[r])', e \notin contended
             PROVE  FALSE
  BY DEF Met, Onward
<1>1. Busy(q) /\ Busy(r) /\ SameTask(req'[q], req[q]) /\ SameTask(req'[r], req[r])
  BY StillBusy DEF SameWork
<1>2. e \in EuisOf(req[q]) \cup EuisOf(req[r])
  BY EuisStay DEF EuisOf
<1>3. ~Meet(req[q], req[r])
  BY <1>1, <1>2 DEF Met
<1>4. (EuisOf(req[q]) \cap EuisOf(req[r]))' # {}
  BY <1>1, <1>3 DEF Meet, Clash, SameTask, Ids, OnApp
<1>5. PICK x : x \in EuisOf(req[q])' /\ x \in EuisOf(req[r])'
  BY <1>4
<1>6. x \notin EuisOf(req[q]) \/ x \notin EuisOf(req[r])
  BY <1>3 DEF Meet, Clash
<1>7. ASSUME NEW s \in Request, NEW t \in Request, Busy(s)', Busy(t)', x \in EuisOf(req[s])', x \in EuisOf(req[t])',
             x \notin EuisOf(req[s])
      PROVE  EuisOf(req[s]) \cup EuisOf(req[t]) \subseteq contended
  <2>1. PICK p \in Request : /\ Busy(p) /\ ~Busy(p)' /\ x \in EuisOf(req[p])
                             /\ EuisOf(req[p]) \cup EuisOf(req[s]) \subseteq contended
    BY <1>7, EuiGained
  <2>2. Busy(t) /\ p # t
    BY <1>7, <2>1, StillBusy
  <2>3. CASE x \in EuisOf(req[t])
    BY <2>1, <2>2, <2>3 DEF Met, Meet, Clash
  <2>4. CASE x \notin EuisOf(req[t])
    BY <1>7, <2>1, <2>4, EuiGained
  <2> QED  BY <2>1, <2>3, <2>4
<1>8. EuisOf(req[q]) \cup EuisOf(req[r]) \subseteq contended
  BY <1>5, <1>6, <1>7
<1> QED  BY <1>2, <1>8

LEMMA NotYetOnward ==
    ASSUME TypeOK, NotYet, Onward
    PROVE  NotYet'
<1> SUFFICES ASSUME NEW r \in Request, Unborn(r)'
             PROVE  rows'[r] = NoRow /\ \A q \in Request \ {r} : Busy(q)' => r \notin Ids(req'[q])
  BY DEF NotYet
<1>1. ~Closed(req'[r], req[r])
  BY DEF Unborn, At, Making, Storing, Closed, Over
<1>2. Unborn(r)
  <2>1. CASE req'[r] = req[r]
    BY <2>1 DEF Unborn, At, Making, Storing
  <2>2. CASE SameWork(req'[r], req[r])
    <3>1. CASE At(r, "new")'
      <4>1. req'[r] = req[r] \/ Storing(req[r]) \/ Removing(req[r]) \/ Changing(req[r]) \/ Wiping(req[r])
        BY <1>1, BusyStages DEF Onward
      <4>2. ~(Storing(req'[r]) \/ Removing(req'[r]) \/ Changing(req'[r]) \/ Wiping(req'[r]))
        BY <3>1 DEF At, Storing, Removing, Changing, Wiping
      <4>3. req'[r] = req[r]
        BY <2>2, <4>1, <4>2 DEF SameWork
      <4> QED  BY <3>1, <4>3 DEF Unborn, At
    <3>2. CASE Making(req'[r])
      BY <2>2, <3>2 DEF SameWork, SameTask, Making, Unborn
    <3> QED  BY <3>1, <3>2 DEF Unborn
  <2> QED  BY <1>1, <2>1, <2>2 DEF Onward
<1>3. rows[r] = NoRow /\ \A q \in Request \ {r} : Busy(q) => r \notin Ids(req[q])
  BY <1>2 DEF NotYet
<1>4. rows'[r] = NoRow
  <2>1. ASSUME NEW p \in Request, Written(p, r)  PROVE FALSE
    BY <1>1, <1>3, <2>1 DEF Written, Ids, Id, Busy, Storing
  <2>2. r \in Id
    BY DEF Id
  <2> QED  BY <1>3, <2>1, <2>2 DEF Onward, RowsStep, Touched, Removed, Existing
<1>5. ASSUME NEW q \in Request \ {r}, Busy(q)'  PROVE r \notin Ids(req'[q])
  BY <1>3, <1>5, StillBusy DEF SameWork, SameTask, Ids
<1> QED  BY <1>4, <1>5

LEMMA JoinedOnward ==
    ASSUME TypeOK, Forms, Met, Joined, Onward
    PROVE  Joined'
<1> SUFFICES ASSUME NEW r \in Request, Changing(req'[r]) \/ Wiping(req'[r]), NEW i \in Existing', rows'[i].eui \notin contended
             PROVE  rows'[i].app = req'[r].app <=> i \in req'[r].devices
  BY DEF Joined, Onward
<1>1. Busy(r)'
  BY DEF Busy, Changing, Wiping
<1>2. Busy(r) /\ SameTask(req'[r], req[r]) /\ (Changing(req[r]) \/ Wiping(req[r]))
  BY <1>1, StillBusy DEF SameWork
<1>3. i \in Id
  BY DEF Existing
<1>4. CASE rows'[i] = rows[i]
  BY <1>2, <1>4 DEF Joined, Existing, SameTask
<1>5. CASE \E p \in Request : Written(p, i)
  <2>1. PICK p \in Request : Written(p, i)
    BY <1>5
  <2>2. Busy(p) /\ p # r /\ i \in Ids(req[p]) /\ Closed(req'[p], req[p])
    BY <1>1, <1>3, <2>1 DEF Written, Ids, Busy, Storing, Closed, Over
  <2>3. rows'[i].app = req[p].app /\ rows'[i].eui = req[p].eui /\ rows'[i].eui \in Eui
    BY <2>1 DEF Written, NewRow, Row
  <2>4. rows'[i].eui \in EuisOf(req[p])
    BY <2>3 DEF EuisOf
  <2>5. ~Meet(req[p], req[r])
    BY <1>2, <2>2, <2>4 DEF Met
  <2>6. OnApp(req[r])
    BY <1>2 DEF Forms, Formed, OnApp
  <2>7. req[p].app # req[r].app /\ i \notin req[r].devices
    BY <2>2, <2>5, <2>6, <1>3 DEF Meet, Clash, Ids
  <2> QED  BY <1>2, <2>3, <2>7 DEF SameTask
<1> QED  BY <1>3, <1>4, <1>5 DEF Onward, RowsStep, Touched, Removed, Existing

(* What a request has read when it begins. *)
Fresh(r, q) ==
    /\ q \in Req /\ Formed(q, r) /\ q.listed = {} /\ q.appCs \in {NoCs, chirpstackId[q.app]}
    /\ \/ /\ Storing(q) /\ q.kind = "create" /\ q.stage = "euis" /\ q.id = r
       \/ /\ Storing(q) /\ q.kind = "update" /\ q.stage = "euis" /\ q.id \in Existing /\ q.cs = rows[q.id].cs
          /\ \/ q.eui = rows[q.id].eui /\ q.app = rows[q.id].app
             \/ {q.eui, rows[q.id].eui} \subseteq moved'
       \/ /\ q.stage = "remove" /\ q.id \in Existing /\ q.eui = rows[q.id].eui /\ q.cs = NoCs
       \/ /\ q.stage = "putApp" /\ q.devices = DevicesOf(q.app) /\ q.cs = NoCs
       \/ /\ q.stage = "wipe" /\ q.devices = DevicesOf(q.app) /\ q.cs = NoCs
          /\ q.todo = {rows[i].eui : i \in DevicesOf(q.app)}

Begins(r, q) == Begin(r, q) /\ Fresh(r, q) /\ moved \subseteq moved' /\ moved' \subseteq Eui

LEMMA StartBegins ==
    ASSUME TypeOK, NEW r \in Request, Start(r)
    PROVE  \E q : Begins(r, q)
<1> USE DEF Kind, Stage, Id
<1>a. \A a \in apps : a \in App /\ chirpstackId[a] \in CsApp \cup {NoCs}
  BY DEF TypeOK
<1>1. ASSUME NEW e \in Eui, NEW a \in App, BeginCreate(r, e, a)  PROVE \E q : Begins(r, q)
  <2> DEFINE q == [NewReq("create", "euis", r, e, a) EXCEPT !.appCs = chirpstackId[a]]
  <2>1. /\ q \in Req
        /\ q.kind = "create" /\ q.stage = "euis" /\ q.id = r /\ q.eui = e /\ q.app = a /\ q.cs = NoCs
        /\ q.appCs = chirpstackId[a] /\ q.listed = {} /\ q.devices = {} /\ q.todo = {}
    BY <1>1, <1>a DEF BeginCreate, NewReq, Req
  <2>2. Begin(r, q) /\ moved' = moved
    BY <1>1 DEF BeginCreate
  <2> HIDE DEF q
  <2>3. Formed(q, r)
    BY <2>1 DEF Formed, Storing, Removing, Changing, Wiping, Over
  <2>4. Fresh(r, q)
    BY <2>1, <2>3 DEF Fresh, Storing
  <2> QED  BY <2>2, <2>4 DEF Begins, TypeOK
<1>2. ASSUME NEW i \in Id, NEW e \in Eui, NEW a \in App, BeginUpdate(r, i, e, a)  PROVE \E q : Begins(r, q)
  <2> DEFINE q == [NewReq("update", "euis", i, e, a) EXCEPT !.cs = rows[i].cs, !.appCs = chirpstackId[a]]
  <2>0. i \in Existing /\ rows[i].cs \in CsApp /\ rows[i].eui \in Eui
    BY <1>2, RowTyped DEF BeginUpdate
  <2>1. /\ q \in Req
        /\ q.kind = "update" /\ q.stage = "euis" /\ q.id = i /\ q.eui = e /\ q.app = a /\ q.cs = rows[i].cs
        /\ q.appCs = chirpstackId[a] /\ q.listed = {} /\ q.devices = {} /\ q.todo = {}
    BY <1>2, <1>a, <2>0 DEF BeginUpdate, NewReq, Req
  <2>2. Begin(r, q) /\ moved' = moved \cup IF e = rows[i].eui /\ a = rows[i].app THEN {} ELSE {e, rows[i].eui}
    BY <1>2 DEF BeginUpdate
  <2> HIDE DEF q
  <2>3. q.cs # NoCs
    BY <2>0, <2>1, LorawanAssumption
  <2>4. Formed(q, r)
    BY <2>1, <2>3 DEF Formed, Storing, Removing, Changing, Wiping, Over
  <2>5. Fresh(r, q)
    BY <2>0, <2>1, <2>2, <2>4 DEF Fresh, Storing
  <2>6. moved \subseteq moved' /\ moved' \subseteq Eui
    BY <2>0, <2>2 DEF TypeOK
  <2> QED  BY <2>2, <2>5, <2>6 DEF Begins
<1>3. ASSUME NEW i \in Id, BeginDelete(r, i)  PROVE \E q : Begins(r, q)
  <2> DEFINE q == NewReq("delete", "remove", i, rows[i].eui, rows[i].app)
  <2>0. i \in Existing /\ rows[i].app \in App /\ rows[i].eui \in Eui
    BY <1>3, RowTyped DEF BeginDelete
  <2>1. /\ q \in Req
        /\ q.kind = "delete" /\ q.stage = "remove" /\ q.id = i /\ q.eui = rows[i].eui /\ q.cs = NoCs
        /\ q.appCs = NoCs /\ q.listed = {} /\ q.devices = {} /\ q.todo = {}
    BY <2>0 DEF NewReq, Req
  <2>2. Begin(r, q) /\ moved' = moved
    BY <1>3 DEF BeginDelete
  <2> HIDE DEF q
  <2>3. Formed(q, r)
    BY <2>0, <2>1 DEF Formed, Storing, Removing, Changing, Wiping, Over
  <2>4. Fresh(r, q)
    BY <2>0, <2>1, <2>3 DEF Fresh
  <2> QED  BY <2>2, <2>4 DEF Begins, TypeOK
<1>4. ASSUME NEW a \in App, BeginUpdateApp(r, a)  PROVE \E q : Begins(r, q)
  <2> DEFINE q == [NewReq("updateApp", "putApp", NoRow, NoRow, a)
                      EXCEPT !.appCs = chirpstackId[a], !.devices = DevicesOf(a)]
  <2>0. DevicesOf(a) \subseteq Id
    BY DEF DevicesOf, Existing
  <2>1. /\ q \in Req
        /\ q.kind = "updateApp" /\ q.stage = "putApp" /\ q.id = NoRow /\ q.eui = NoRow /\ q.app = a /\ q.cs = NoCs
        /\ q.appCs = chirpstackId[a] /\ q.listed = {} /\ q.devices = DevicesOf(a) /\ q.todo = {}
    BY <1>4, <1>a, <2>0 DEF BeginUpdateApp, NewReq, Req
  <2>2. Begin(r, q) /\ moved' = moved
    BY <1>4 DEF BeginUpdateApp
  <2> HIDE DEF q
  <2>3. Formed(q, r)
    BY <2>1 DEF Formed, Storing, Removing, Changing, Wiping, Over
  <2>4. Fresh(r, q)
    BY <2>1, <2>3 DEF Fresh
  <2> QED  BY <2>2, <2>4 DEF Begins, TypeOK
<1>5. ASSUME NEW a \in App, BeginDeleteApp(r, a)  PROVE \E q : Begins(r, q)
  <2> DEFINE q == [NewReq("deleteApp", "wipe", NoRow, NoRow, a)
                      EXCEPT !.appCs = chirpstackId[a], !.devices = DevicesOf(a),
                             !.todo = {rows[i].eui : i \in DevicesOf(a)}]
  <2>0. DevicesOf(a) \subseteq Id /\ {rows[i].eui : i \in DevicesOf(a)} \subseteq Eui
    BY RowTyped DEF DevicesOf, Existing
  <2>1. /\ q \in Req
        /\ q.kind = "deleteApp" /\ q.stage = "wipe" /\ q.id = NoRow /\ q.eui = NoRow /\ q.app = a /\ q.cs = NoCs
        /\ q.appCs = chirpstackId[a] /\ q.listed = {} /\ q.devices = DevicesOf(a)
        /\ q.todo = {rows[i].eui : i \in DevicesOf(a)}
    BY <1>5, <1>a, <2>0 DEF BeginDeleteApp, NewReq, Req
  <2>2. Begin(r, q) /\ moved' = moved
    BY <1>5 DEF BeginDeleteApp
  <2> HIDE DEF q
  <2>3. Formed(q, r)
    BY <2>1 DEF Formed, Storing, Removing, Changing, Wiping, Over
  <2>4. Fresh(r, q)
    BY <2>1, <2>3 DEF Fresh
  <2> QED  BY <2>2, <2>4 DEF Begins, TypeOK
<1> QED  BY <1>1, <1>2, <1>3, <1>4, <1>5 DEF Start

(* A request begins: nothing else changes but what it contends for. *)
LEMMA Beginning ==
    ASSUME TypeOK, NEW r \in Request, NEW q, Begins(r, q)
    PROVE  /\ req[r] = Nothing /\ ~Busy(r)
           /\ req' \in [Request -> Req \cup {Nothing}] /\ req'[r] = q /\ Others(r) /\ Busy(r)'
           /\ apps' = apps /\ chirpstackId' = chirpstackId /\ rows' = rows
           /\ csApps' = csApps /\ csGiven' = csGiven /\ csDevice' = csDevice
           /\ hurt' = hurt /\ faults' = faults /\ contended \subseteq contended' /\ contended' \subseteq Eui
           /\ \A p \in Request : Busy(p) /\ Clash(req[p], q) => EuisOf(q) \cup EuisOf(req[p]) \subseteq contended'
<1>1. Begin(r, q) /\ q \in Req
  BY DEF Begins, Fresh
<1>2. req' \in [Request -> Req \cup {Nothing}] /\ req'[r] = q /\ Others(r)
  BY <1>1, Replaced DEF Begin
<1>3. q.stage \in {"euis", "remove", "putApp", "wipe"}
  BY DEF Begins, Fresh
<1>4. ~Busy(r) /\ Busy(r)'
  BY <1>1, <1>2, <1>3 DEF Begin, Busy, Nothing
<1>5. contended \subseteq contended' /\ contended' \subseteq Eui
      /\ \A p \in Request : Busy(p) /\ Clash(req[p], q) => EuisOf(q) \cup EuisOf(req[p]) \subseteq contended'
  BY <1>1 DEF Begin, TypeOK, EuisOf
<1> QED  BY <1>1, <1>2, <1>4, <1>5 DEF Begin, db, chirpstack

(* The rows of a new request: the one it is to make, or rows that are there. *)
LEMMA FreshIds ==
    ASSUME TypeOK, NEW r \in Request, NEW q, Begins(r, q)
    PROVE  \/ Making(q) /\ Ids(q) \subseteq {r}
           \/ ~Making(q) /\ Ids(q) \subseteq Existing
<1>1. Fresh(r, q) /\ Formed(q, r)
  BY DEF Begins, Fresh
<1>2. CASE Storing(q)
  BY <1>1, <1>2 DEF Fresh, Formed, Making, Ids, Storing
<1>3. CASE ~Storing(q)
  <2>1. (q.devices \subseteq Existing /\ q.id \in Existing \cup {NoRow}) /\ ~Making(q)
    BY <1>1, <1>3 DEF Fresh, Formed, Making, DevicesOf, Removing, Changing, Wiping
  <2>2. NoRow \notin Id
    BY LorawanAssumption
  <2> QED  BY <2>1, <2>2 DEF Ids
<1> QED  BY <1>2, <1>3

LEMMA MetBegins ==
    ASSUME MetInv, NEW r \in Request, NEW q, Begins(r, q)
    PROVE  (Forms /\ NotYet /\ Met /\ Joined)'
<1>a. TypeOK /\ Forms /\ NotYet /\ Met /\ Joined
  BY DEF MetInv
<1>b. /\ req[r] = Nothing /\ req'[r] = q /\ Others(r) /\ Busy(r)' /\ rows' = rows
      /\ contended \subseteq contended' /\ Existing' = Existing
      /\ \A p \in Request : Busy(p) /\ Clash(req[p], q) => EuisOf(q) \cup EuisOf(req[p]) \subseteq contended'
  BY <1>a, Beginning DEF Existing
<1>c. /\ \A p \in Request \ {r} : req'[p] = req[p] /\ (Busy(p)' <=> Busy(p)) /\ EuisOf(req[p])' = EuisOf(req[p])
      /\ EuisOf(req[r])' = EuisOf(q)
  BY <1>b DEF Others, Busy, EuisOf, Existing
<1>1. Forms'
  BY <1>a, <1>b, <1>c DEF Forms, Begins, Fresh
<1>2. Unborn(r) /\ rows[r] = NoRow /\ \A p \in Request \ {r} : Busy(p) => r \notin Ids(req[p])
  <2>1. Unborn(r)
    BY <1>b DEF Unborn, At, Nothing
  <2> QED  BY <1>a, <2>1 DEF NotYet
<1>3. NotYet'
  <2> SUFFICES ASSUME NEW p \in Request, Unborn(p)'
               PROVE  rows'[p] = NoRow /\ \A s \in Request \ {p} : Busy(s)' => p \notin Ids(req'[s])
    BY DEF NotYet
  <2>1. CASE p = r
    BY <1>b, <1>c, <1>2, <2>1
  <2>2. CASE p # r
    <3>1. rows[p] = NoRow /\ \A s \in Request \ {p} : Busy(s) => p \notin Ids(req[s])
      BY <1>a, <1>c, <2>2 DEF NotYet, Unborn, At
    <3>2. p \notin Ids(q)
      BY <1>a, <2>2, <3>1, FreshIds DEF Existing
    <3> QED  BY <1>b, <1>c, <3>1, <3>2
  <2> QED  BY <2>1, <2>2
<1>4. ASSUME NEW p \in Request \ {r}, Busy(p), Meet(req[p], q)
      PROVE  EuisOf(q) \cup EuisOf(req[p]) \subseteq contended'
  <2>1. CASE Clash(req[p], q)
    BY <1>b, <1>4, <2>1
  <2>2. CASE Ids(req[p]) \cap Ids(q) # {}
    <3>1. PICK i \in Id : i \in Ids(req[p]) /\ i \in Ids(q)
      BY <2>2 DEF Ids
    <3>2. i \in Existing
      BY <1>a, <1>2, <1>4, <3>1, FreshIds
    <3>3. rows[i].eui \in EuisOf(req[p]) /\ rows[i].eui \in EuisOf(q)
      BY <1>a, <3>1, <3>2, RowTyped DEF EuisOf, Ids
    <3>4. Clash(req[p], q)
      BY <3>3 DEF Clash
    <3> QED  BY <1>b, <1>4, <3>4
  <2> QED  BY <1>4, <2>1, <2>2 DEF Meet
<1>5. Met'
  <2> SUFFICES ASSUME NEW p \in Request, NEW s \in Request, p # s, Busy(p)', Busy(s)', Meet(req[p], req[s])'
               PROVE  (EuisOf(req[p]) \cup EuisOf(req[s]))' \subseteq contended'
    BY DEF Met
  <2>1. Meet(req'[p], req'[s]) /\ Meet(req'[s], req'[p])
    BY <1>b DEF Meet, Clash, EuisOf, Existing, Ids
  <2>2. CASE p = r
    BY <1>b, <1>c, <1>4, <2>1, <2>2
  <2>3. CASE s = r
    BY <1>b, <1>c, <1>4, <2>1, <2>3
  <2>4. CASE p # r /\ s # r
    BY <1>a, <1>b, <1>c, <2>1, <2>4 DEF Met
  <2> QED  BY <2>2, <2>3, <2>4
<1>6. Joined'
  <2> SUFFICES ASSUME NEW p \in Request, Changing(req'[p]) \/ Wiping(req'[p]), NEW i \in Existing', rows'[i].eui \notin contended'
               PROVE  rows'[i].app = req'[p].app <=> i \in req'[p].devices
    BY DEF Joined
  <2>1. CASE p = r
    <3>1. q.devices = DevicesOf(q.app)
      BY <1>b, <2>1 DEF Begins, Fresh, Storing, Changing, Wiping
    <3> QED  BY <1>b, <2>1, <3>1 DEF DevicesOf
  <2>2. CASE p # r
    BY <1>a, <1>b, <1>c, <2>2 DEF Joined
  <2> QED  BY <2>1, <2>2
<1> QED  BY <1>1, <1>3, <1>5, <1>6

LEMMA HalfwayTyped ==
    ASSUME TypeOK, Forms, NEW r \in Request
    PROVE  Halfway(r) \subseteq Eui
<1>1. CASE req[r].stage \in {"select", "insert", "write", "commit"}
  <2>1. req[r].eui \in Eui
    BY <1>1 DEF Forms, Formed, Storing, Removing
  <2> QED  BY <1>1, <2>1 DEF Halfway
<1>2. CASE req[r].stage \notin {"select", "insert", "write", "commit"}
  <2>1. \A i \in req[r].devices \cap Existing : rows[i].eui \in Eui
    BY RowTyped
  <2> QED  BY <1>2, <2>1 DEF Halfway
<1> QED  BY <1>1, <1>2

(* What is not req or rows keeps its type. *)
LEMMA WorksTyped ==
    ASSUME TypeOK, Forms, NEW r \in Request, Works(r)
    PROVE  /\ apps' \subseteq App
           /\ chirpstackId' \in [App -> CsApp \cup {NoCs}]
           /\ csApps' \subseteq csGiven' /\ csGiven' \subseteq CsApp
           /\ csDevice' \in [Eui -> CsApp \cup {NoCs}]
           /\ contended' = contended
           /\ moved \subseteq moved' /\ moved' \subseteq Eui
           /\ hurt \subseteq hurt' /\ hurt' \subseteq Eui
<1> USE DEF At
<1>a. Formed(req[r], r) /\ Halfway(r) \subseteq Eui
  BY HalfwayTyped DEF Forms
<1>b. Busy(r) => req[r].app \in App /\ req[r].cs \in CsApp \cup {NoCs} /\ req[r].appCs \in CsApp \cup {NoCs}
  BY RequestTyped DEF Busy
<1>c. /\ apps \subseteq App /\ chirpstackId \in [App -> CsApp \cup {NoCs}]
      /\ csApps \subseteq csGiven /\ csGiven \subseteq CsApp /\ csDevice \in [Eui -> CsApp \cup {NoCs}]
      /\ moved \subseteq Eui /\ hurt \subseteq Eui
  BY DEF TypeOK
<1>1. CASE GetLorawanDeviceEuis(r) \/ ListApplications(r) \/ FindApplicationToName(r) \/ SelectRow(r) \/ InsertRow(r)
           \/ WriteRow(r) \/ RemoveRow(r) \/ CommitDelete(r) \/ PutApplication(r) \/ Skips(r)
  BY <1>1, <1>c DEF GetLorawanDeviceEuis, ListApplications, FindApplicationToName, SelectRow, InsertRow, WriteRow,
                    RemoveRow, CommitDelete, PutApplication, Skips, db, chirpstack, history, Quiet
<1>2. CASE FindApplication(r)
  <2>1. moved' = moved \/ moved' = moved \cup {req[r].eui}
    BY <1>2 DEF FindApplication, Moving
  <2>2. req[r].eui \in Eui
    BY <1>2, <1>a DEF FindApplication, Formed, Storing
  <2> QED  BY <1>2, <1>c, <2>1, <2>2 DEF FindApplication, db, chirpstack
<1>3. CASE CreateApplication(r)
  BY <1>3, <1>c DEF CreateApplication, db, history, Quiet
<1>4. CASE SaveApplicationId(r)
  <2>1. moved' = moved \/ moved' = moved \cup {req[r].eui}
    BY <1>4 DEF SaveApplicationId, Moving
  <2>2. req[r].eui \in Eui /\ req[r].app \in App /\ req[r].appCs \in CsApp \cup {NoCs}
    BY <1>4, <1>a, <1>b DEF SaveApplicationId, Formed, Storing, Busy
  <2> QED  BY <1>4, <1>c, <2>1, <2>2 DEF SaveApplicationId, chirpstack
<1>5. CASE CreateOrUpdateDevice(r)
  <2>1. req[r].cs \in CsApp \cup {NoCs} /\ csDevice' = [csDevice EXCEPT ![req[r].eui] = req[r].cs]
    BY <1>5, <1>b DEF CreateOrUpdateDevice, PutDevice, Busy
  <2> QED  BY <1>5, <1>c, <2>1 DEF CreateOrUpdateDevice, db, history, Quiet
<1>6. CASE DeleteInChirpstack(r)
  BY <1>6, <1>c DEF DeleteInChirpstack, db, history, Quiet
<1>7. CASE WriteApplication(r) \/ DropApplication(r)
  <2>1. req[r].app \in App /\ req[r].appCs \in CsApp \cup {NoCs}
    BY <1>7, <1>b DEF WriteApplication, DropApplication, Busy
  <2> QED  BY <1>7, <1>c, <2>1 DEF WriteApplication, DropApplication, chirpstack, history, Quiet
<1>8. CASE \E e \in Eui : WipeDevice(r, e)
  BY <1>8, <1>c DEF WipeDevice, db, history, Quiet
<1>9. CASE DeleteAppInChirpstack(r)
  BY <1>9, <1>c DEF DeleteAppInChirpstack, db, history, Quiet
<1>10. CASE AnswerLost(r)
  <2>1. req[r].eui \in Eui
    BY <1>10, <1>a DEF AnswerLost, Formed, Storing, Removing
  <2>2. req[r].cs \in CsApp \cup {NoCs}
    BY <1>10, <1>b DEF AnswerLost, Busy
  <2>3. PICK c \in CsApp \cup {NoCs} : csDevice' = [csDevice EXCEPT ![req[r].eui] = c]
    BY <1>10, <2>2 DEF AnswerLost, PutDevice
  <2> QED  BY <1>10, <1>c, <2>1, <2>3 DEF AnswerLost, db
<1>11. CASE Aborts(r)
  BY <1>11, <1>a, <1>c DEF Aborts, Abort, db, chirpstack
<1> QED  BY <1>1, <1>2, <1>3, <1>4, <1>5, <1>6, <1>7, <1>8, <1>9, <1>10, <1>11 DEF Works

LEMMA WorksOnward ==
    ASSUME MetInv, NEW r \in Request, Works(r)
    PROVE  Onward /\ Forms' /\ rows' \in [Id -> Row \cup {NoRow}] /\ req' \in [Request -> Req \cup {Nothing}]
<1>1. TypeOK /\ Forms /\ Joined
  BY DEF MetInv
<1>2. Proceeds(r)
  BY <1>1, WorksProceed
<1>3. RowsStep /\ rows' \in [Id -> Row \cup {NoRow}] /\ contended' = contended
  BY <1>1, <1>2, WorksOnRows, WorksTyped
<1>4. Forms'
  BY <1>1, <1>2 DEF Forms, Proceeds, Others
<1>5. Onward
  BY <1>2, <1>3 DEF Onward, Proceeds, Others
<1> QED  BY <1>2, <1>3, <1>4, <1>5 DEF Proceeds

LEMMA CrashOnward ==
    ASSUME TypeOK, Forms, Crash
    PROVE  Onward /\ Forms' /\ req' \in [Request -> Req \cup {Nothing}] /\ (\A r \in Request : ~Busy(r)')
           /\ \A r \in Request : req'[r] = req[r] \/ Closed(req'[r], req[r])
<1>1. ASSUME NEW r \in Request
      PROVE  /\ req'[r] \in Req \cup {Nothing} /\ Formed(req'[r], r) /\ ~Busy(r)'
             /\ \/ req'[r] = req[r]
                \/ Busy(r) /\ Closed(req'[r], req[r])
  <2>1. CASE Busy(r)
    <3> DEFINE q == NewReq(req[r].kind, "failed", NoRow, req[r].eui, req[r].app)
    <3>1. req[r].kind \in Kind /\ req[r].eui \in Eui \cup {NoRow} /\ req[r].app \in App
      BY <2>1, RequestTyped DEF Busy
    <3>2. /\ q \in Req /\ q.stage = "failed" /\ q.id = NoRow /\ q.app = req[r].app /\ q.cs = NoCs
          /\ q.appCs = NoCs /\ q.listed = {} /\ q.devices = {} /\ q.todo = {}
      BY <3>1 DEF NewReq, Req, Stage
    <3>3. req'[r] = q
      BY <2>1 DEF Crash
    <3> HIDE DEF q
    <3>4. Closed(req'[r], req[r]) /\ ~Busy(r)'
      BY <3>2, <3>3 DEF Closed, Over, Busy
    <3>5. Formed(req'[r], r)
      BY <3>2, <3>3 DEF Formed, Storing, Removing, Changing, Wiping, Over
    <3> QED  BY <2>1, <3>2, <3>3, <3>4, <3>5
  <2>2. CASE ~Busy(r)
    <3>1. req'[r] = req[r]
      BY <2>2 DEF Crash
    <3>2. req[r] \in Req \cup {Nothing} /\ Formed(req[r], r)
      BY DEF TypeOK, Forms
    <3>3. ~Busy(r)'
      BY <2>2, <3>1 DEF Busy
    <3>4. req'[r] \in Req \cup {Nothing} /\ Formed(req'[r], r)
      BY <3>1, <3>2
    <3> QED  BY <3>1, <3>3, <3>4
  <2> QED  BY <2>1, <2>2
<1>2. req' = [r \in Request |-> req'[r]]
  BY DEF Crash
<1>3. req' \in [Request -> Req \cup {Nothing}]
  BY <1>1, <1>2
<1>4. contended' = contended /\ rows' = rows
  BY DEF Crash, db
<1> QED  BY <1>1, <1>3, <1>4 DEF Onward, RowsStep, Forms

LEMMA NextIs ==
    ASSUME TypeOK, Next
    PROVE  \/ \E r \in Request : Works(r)
           \/ \E r \in Request : \E q : Begins(r, q)
           \/ Crash
<1>1. CASE Crash
  BY <1>1
<1>2. ASSUME NEW r \in Request,
             Start(r) \/ StoreDevice(r) \/ Delete(r) \/ StoreApp(r) \/ DeleteApp(r) \/ CallFails(r) \/ AnswerLost(r)
      PROVE  Works(r) \/ \E q : Begins(r, q)
  <2>1. CASE Start(r)
    BY <2>1, StartBegins
  <2>2. CASE ~Start(r)
    BY <1>2, <2>2, WorksIs
  <2> QED  BY <2>1, <2>2
<1> QED  BY <1>1, <1>2 DEF Next

LEMMA MetStep ==
    ASSUME MetInv, Next
    PROVE  (Forms /\ NotYet /\ Met /\ Joined)'
<1>a. TypeOK /\ Forms /\ NotYet /\ Met /\ Joined
  BY DEF MetInv
<1>1. ASSUME Onward  PROVE (NotYet /\ Met /\ Joined)'
  BY <1>a, <1>1, NotYetOnward, MetOnward, JoinedOnward
<1>2. CASE \E r \in Request : Works(r)
  BY <1>1, <1>2, WorksOnward
<1>3. CASE \E r \in Request : \E q : Begins(r, q)
  BY <1>3, MetBegins
<1>4. CASE Crash
  BY <1>a, <1>1, <1>4, CrashOnward
<1> QED  BY <1>a, <1>2, <1>3, <1>4, NextIs

LEMMA FaultsTyped ==
    ASSUME TypeOK, Next
    PROVE  faults' \in 0..MaxFaults
<1>1. faults \in 0..MaxFaults /\ MaxFaults \in Nat
  BY LorawanAssumption DEF TypeOK
<1>2. ASSUME NEW r \in Request, Start(r)  PROVE faults' = faults
  BY <1>2 DEF Start, BeginCreate, BeginUpdate, BeginDelete, BeginUpdateApp, BeginDeleteApp, Begin
<1>3. ASSUME NEW r \in Request, StoreDevice(r)  PROVE faults' = faults
  BY <1>3 DEF StoreDevice, RefuseApplication, GetLorawanDeviceEuis, ListApplications, FindApplication, CreateApplication,
              RefuseUsedEui, FindApplicationToName, RefuseName, SaveApplicationId, CreateOrUpdateDevice, RefusePut,
              SelectRow, InsertRow, WriteRow, RefuseSave, Quiet
<1>4. ASSUME NEW r \in Request, Delete(r) \/ StoreApp(r) \/ DeleteApp(r)  PROVE faults' = faults
  BY <1>4 DEF Delete, RemoveRow, RefuseRemove, DeleteInChirpstack, RefuseDelete, CommitDelete,
              StoreApp, PutApplication, RefusePutApp, WriteApplication,
              DeleteApp, WipeDevice, RefuseWipe, DeleteAppInChirpstack, RefuseDeleteApp, DropApplication, Quiet
<1>5. faults' = faults \/ Fault
  BY <1>2, <1>3, <1>4 DEF Next, CallFails, AnswerLost, Crash
<1> QED  BY <1>1, <1>5 DEF Fault

LEMMA TypeStep ==
    ASSUME MetInv, Next
    PROVE  TypeOK'
<1>a. TypeOK /\ Forms
  BY DEF MetInv
<1>1. faults' \in 0..MaxFaults
  BY <1>a, FaultsTyped
<1>2. CASE \E r \in Request : Works(r)
  BY <1>a, <1>1, <1>2, WorksTyped, WorksOnward DEF TypeOK
<1>3. CASE \E r \in Request : \E q : Begins(r, q)
  <2>1. PICK r \in Request : \E q : Begins(r, q)
    BY <1>3
  <2>2. PICK q : Begins(r, q)
    BY <2>1
  <2>3. moved' \subseteq Eui
    BY <2>2 DEF Begins
  <2> QED  BY <1>a, <1>1, <2>2, <2>3, Beginning DEF TypeOK
<1>4. CASE Crash
  <2>1. req' \in [Request -> Req \cup {Nothing}]
    BY <1>a, <1>4, CrashOnward
  <2>2. hurt' \subseteq Eui
    <3>1. \A r \in Request : Halfway(r) \subseteq Eui
      BY <1>a, HalfwayTyped
    <3> QED  BY <1>4, <1>a, <3>1 DEF Crash, TypeOK
  <2> QED  BY <1>a, <1>1, <1>4, <2>1, <2>2 DEF Crash, TypeOK, db, chirpstack
<1> QED  BY <1>a, <1>2, <1>3, <1>4, NextIs

LEMMA MetUnchanged ==
    ASSUME MetInv, UNCHANGED vars
    PROVE  MetInv'
  BY DEF MetInv, TypeOK, Forms, NotYet, Met, Joined, Formed, Unborn, At, Making, Meet, Clash, EuisOf, Ids, Existing,
         OnApp, Busy, vars, db, chirpstack, history

LEMMA InitTyped ==
    Init => TypeOK
<1> SUFFICES ASSUME Init  PROVE TypeOK
  OBVIOUS
<1> USE LorawanAssumption DEF Init
<1>1. \A i \in Old : InitialRow[i] \in Row /\ InitialRow[i].cs \in CsApp
  BY DEF Row
<1>2. rows \in [Id -> Row \cup {NoRow}]
  BY <1>1 DEF Id
<1>3. csGiven \subseteq CsApp /\ csApps = csGiven
  BY <1>1
<1>4. csDevice \in [Eui -> CsApp \cup {NoCs}]
  <2>1. ASSUME NEW e \in Eui, \E i \in Old : InitialRow[i].eui = e
        PROVE  InitialRow[CHOOSE i \in Old : InitialRow[i].eui = e].cs \in CsApp
    BY <1>1, <2>1
  <2> QED  BY <2>1
<1>5. req \in [Request -> Req \cup {Nothing}] /\ chirpstackId \in [App -> CsApp \cup {NoCs}]
  OBVIOUS
<1> QED  BY <1>2, <1>3, <1>4, <1>5 DEF TypeOK

LEMMA MetInit ==
    Init => MetInv
<1> SUFFICES ASSUME Init  PROVE MetInv
  OBVIOUS
<1>1. TypeOK
  BY InitTyped
<1>2. \A r \in Request : req[r] = Nothing /\ rows[r] = NoRow
  BY LorawanAssumption DEF Init, Id
<1>3. \A r \in Request : req[r].stage = "new"
  BY <1>2 DEF Nothing
<1>4. Forms
  BY <1>2, <1>3 DEF Forms, Formed, Storing, Removing, Changing, Wiping, Over
<1> QED  BY <1>1, <1>2, <1>3, <1>4 DEF MetInv, NotYet, Met, Joined, Busy, Changing, Wiping

LEMMA AlwaysMet ==
    Spec => []MetInv
<1>1. Init => MetInv
  BY MetInit
<1>2. MetInv /\ [Next]_vars => MetInv'
  <2> SUFFICES ASSUME MetInv, [Next]_vars  PROVE MetInv'
    OBVIOUS
  <2>1. CASE Next
    BY <2>1, MetStep, TypeStep DEF MetInv
  <2>2. CASE UNCHANGED vars
    BY <2>2, MetUnchanged
  <2> QED  BY <2>1, <2>2
<1> QED  BY <1>1, <1>2, PTL DEF Spec

(* Every variable has its type: what every request works with is what the  *)
(* two stores can hold.                                                    *)
THEOREM LorawanTyped ==
    Spec => []TypeOK
<1>1. MetInv => TypeOK
  BY DEF MetInv
<1> QED  BY <1>1, AlwaysMet, PTL
-----------------------------------------------------------------------------
Known == \A i \in Existing : rows[i].app \in App \/ rows[i].eui \in contended

LEMMA KnownStep ==
    ASSUME MetInv, Known, Next
    PROVE  Known'
<1>a. TypeOK /\ Forms
  BY DEF MetInv
<1>1. ASSUME Onward  PROVE Known'
  <2> SUFFICES ASSUME NEW i \in Existing'  PROVE rows'[i].app \in App \/ rows'[i].eui \in contended'
    BY DEF Known
  <2>1. CASE rows'[i] = rows[i]
    BY <1>1, <2>1 DEF Known, Existing, Onward
  <2>2. CASE \E p \in Request : Written(p, i)
    <3>1. PICK p \in Request : Written(p, i)
      BY <2>2
    <3>2. req[p].app \in App
      BY <1>a, <3>1, RequestTyped DEF Written, Storing
    <3> QED  BY <3>1, <3>2 DEF Written, NewRow
  <2> QED  BY <1>1, <2>1, <2>2 DEF Onward, RowsStep, Existing, Touched, Removed
<1>2. CASE \E r \in Request : Works(r)
  BY <1>1, <1>2, WorksOnward
<1>3. CASE \E r \in Request : \E q : Begins(r, q)
  <2>1. rows' = rows /\ contended \subseteq contended'
    BY <1>a, <1>3, Beginning
  <2> QED  BY <2>1 DEF Known, Existing
<1>4. CASE Crash
  BY <1>a, <1>1, <1>4, CrashOnward
<1> QED  BY <1>a, <1>2, <1>3, <1>4, NextIs

(* A device loses its application only if another request worked on it     *)
(* while the application was being changed: whatever requests read, and    *)
(* however late they write it, saving an application with its devices      *)
(* (ApplicationService.update) takes none of them from it.                 *)
THEOREM ApplicationAlwaysKept ==
    Spec => []ApplicationKept
<1>1. Init => Known
  <2> SUFFICES ASSUME Init, NEW i \in Existing  PROVE rows[i].app \in App
    BY DEF Known
  <2>1. i \in Old /\ rows[i] = InitialRow[i]
    BY DEF Init, Existing
  <2> QED  BY <2>1, LorawanAssumption
<1>2. MetInv /\ Known /\ [Next]_vars => Known'
  <2> SUFFICES ASSUME MetInv, Known, [Next]_vars  PROVE Known'
    OBVIOUS
  <2>1. CASE UNCHANGED vars
    BY <2>1 DEF Known, Existing, vars, db, history
  <2> QED  BY <2>1, KnownStep
<1>3. Known => ApplicationKept
  BY LorawanAssumption DEF Known, ApplicationKept
<1> QED  BY <1>1, <1>2, <1>3, AlwaysMet, PTL DEF Spec
-----------------------------------------------------------------------------
(* What a request has read of ChirpStack's applications.                   *)
Reads(r) ==
    /\ csGiven \subseteq csGiven'
    /\ \A a \in App : \/ chirpstackId'[a] \in {chirpstackId[a], NoCs}
                      \/ a = req[r].app /\ chirpstackId'[a] = req[r].appCs
    /\ \/ Closed(req'[r], req[r])
       \/ /\ \/ req'[r].cs = req[r].cs
             \/ /\ req'[r].cs \in req[r].listed \cup {req[r].appCs}
                /\ req[r].kind = "update" => req[r].eui \in moved'
          /\ \/ req'[r].appCs = req[r].appCs
             \/ req'[r].appCs \in csGiven' \ csGiven
          /\ req'[r].listed \subseteq req[r].listed \cup csApps

LEMMA WorksRead ==
    ASSUME TypeOK, Forms, NEW r \in Request, Works(r)
    PROVE  Reads(r)
<1> USE DEF At
<1>a. Formed(req[r], r)
  BY DEF Forms
<1>b. chirpstackId \in [App -> CsApp \cup {NoCs}]
  BY DEF TypeOK
<1>1. CASE GetLorawanDeviceEuis(r)
  <2>1. Busy(r) /\ UNCHANGED <<db, chirpstack>>
    BY <1>1 DEF GetLorawanDeviceEuis, Busy
  <2>2. PICK k \in BOOLEAN : Turns(r, "list", k, req[r].cs, req[r].appCs, req[r].listed, req[r].todo)
    BY <1>1, <2>1, KnownRead DEF GetLorawanDeviceEuis, Stage
  <2> QED  BY <2>1, <2>2 DEF Turns, Reads, db, chirpstack
<1>2. CASE ListApplications(r)
  <2>1. Busy(r) /\ UNCHANGED <<db, chirpstack>> /\ csApps \in SUBSET CsApp
    BY <1>2 DEF ListApplications, Busy, TypeOK
  <2>2. Turns(r, "findApp", req[r].known, req[r].cs, req[r].appCs, csApps, req[r].todo)
    BY <1>2, <2>1, ListRead DEF ListApplications, Stage
  <2> QED  BY <2>1, <2>2 DEF Turns, Reads, db, chirpstack
<1>3. CASE FindApplication(r)
  <2>1. Busy(r) /\ UNCHANGED <<db, chirpstack>>
    BY <1>3 DEF FindApplication, Busy
  <2>2. PICK c \in Candidates(req[r]) : /\ req' = [req EXCEPT ![r].cs = c, ![r].listed = {}, ![r].stage = "put"]
                                        /\ Moving(req[r], c)
    BY <1>3 DEF FindApplication
  <2>3. c \in CsApp /\ c \in req[r].listed
    BY <2>1, <2>2, RequestTyped DEF Candidates, Busy
  <2>4. Turns(r, "put", req[r].known, c, req[r].appCs, {}, req[r].todo)
    BY <2>1, <2>2, <2>3, ApplicationFound DEF Stage
  <2>5. req[r].kind = "update" /\ c # req[r].cs => req[r].eui \in moved'
    BY <2>2 DEF Moving
  <2> QED  BY <2>1, <2>3, <2>4, <2>5 DEF Turns, Reads, db, chirpstack
<1>4. CASE CreateApplication(r)
  <2>1. Busy(r) /\ UNCHANGED db
    BY <1>4 DEF CreateApplication, Busy
  <2>2. PICK c \in CsApp \ csGiven : /\ req' = [req EXCEPT ![r].appCs = c, ![r].listed = {}, ![r].stage = "nameApp"]
                                     /\ csGiven' = csGiven \cup {c}
    BY <1>4 DEF CreateApplication
  <2>3. Turns(r, "nameApp", req[r].known, req[r].cs, c, {}, req[r].todo)
    BY <2>1, <2>2, ApplicationMade DEF Stage
  <2> QED  BY <2>1, <2>2, <2>3 DEF Turns, Reads, db
<1>5. CASE SaveApplicationId(r)
  <2>1. Busy(r) /\ csGiven' = csGiven
    BY <1>5 DEF SaveApplicationId, Busy, chirpstack
  <2>2. req[r].appCs \in CsApp
    BY <1>5, <1>a, <2>1, RequestTyped DEF SaveApplicationId, Formed, Storing, Busy
  <2>3. Turns(r, "put", req[r].known, req[r].appCs, req[r].appCs, req[r].listed, req[r].todo)
    BY <1>5, <2>1, <2>2, ApplicationNamed DEF SaveApplicationId, Stage
  <2>4. req[r].kind = "update" /\ req[r].appCs # req[r].cs => req[r].eui \in moved'
    BY <1>5 DEF SaveApplicationId, Moving
  <2>5. \A a \in App : chirpstackId'[a] = chirpstackId[a] \/ (a = req[r].app /\ chirpstackId'[a] = req[r].appCs)
    BY <1>5, <1>b DEF SaveApplicationId
  <2> QED  BY <2>1, <2>3, <2>4, <2>5 DEF Turns, Reads
<1>6. CASE \/ FindApplicationToName(r) \/ CreateOrUpdateDevice(r) \/ SelectRow(r) \/ RemoveRow(r)
           \/ DeleteInChirpstack(r) \/ PutApplication(r) \/ DeleteAppInChirpstack(r) \/ Skips(r)
  <2>1. Busy(r) /\ csGiven' = csGiven /\ chirpstackId' = chirpstackId
    BY <1>6 DEF FindApplicationToName, CreateOrUpdateDevice, SelectRow, RemoveRow, DeleteInChirpstack, PutApplication,
                DeleteAppInChirpstack, Skips, Storing, Busy, db, chirpstack
  <2>2. PICK s \in Stage : Goto(r, s)
    BY <1>6 DEF FindApplicationToName, CreateOrUpdateDevice, AfterPut, SelectRow, RemoveRow, DeleteInChirpstack,
                PutApplication, DeleteAppInChirpstack, Skips, Stage
  <2>3. Turns(r, s, req[r].known, req[r].cs, req[r].appCs, req[r].listed, req[r].todo)
    BY <2>1, <2>2, Went
  <2> QED  BY <2>1, <2>3 DEF Turns, Reads
<1>7. CASE \E e \in Eui : WipeDevice(r, e)
  <2>1. Busy(r) /\ csGiven' = csGiven /\ chirpstackId' = chirpstackId
    BY <1>7 DEF WipeDevice, Busy, db
  <2>2. PICK e \in Eui : req' = [req EXCEPT ![r].todo = @ \ {e}]
    BY <1>7 DEF WipeDevice
  <2>3. Turns(r, req[r].stage, req[r].known, req[r].cs, req[r].appCs, req[r].listed, req[r].todo \ {e})
    BY <2>1, <2>2, Wiped
  <2> QED  BY <2>1, <2>3 DEF Turns, Reads
<1>8. CASE InsertRow(r) \/ WriteRow(r) \/ CommitDelete(r) \/ WriteApplication(r) \/ DropApplication(r) \/ Aborts(r)
  <2>1. Busy(r) /\ csGiven' = csGiven /\ (Answer(r, "done") \/ Answer(r, "failed"))
    BY <1>8 DEF InsertRow, WriteRow, CommitDelete, WriteApplication, DropApplication, Aborts, Abort, Busy, chirpstack
  <2>2. Closed(req'[r], req[r])
    BY <2>1, Answered
  <2>3. \/ chirpstackId' = chirpstackId
        \/ chirpstackId' = [chirpstackId EXCEPT ![req[r].app] = req[r].appCs]
        \/ chirpstackId' = [chirpstackId EXCEPT ![req[r].app] = NoCs]
    BY <1>8 DEF InsertRow, WriteRow, CommitDelete, WriteApplication, DropApplication, Aborts, Abort, db
  <2> QED  BY <1>b, <2>1, <2>2, <2>3 DEF Reads
<1>9. CASE AnswerLost(r)
  <2>1. Busy(r) /\ csGiven' = csGiven /\ chirpstackId' = chirpstackId
    BY <1>9 DEF AnswerLost, Busy, db
  <2>2. CASE Goto(r, "select")
    <3>1. Turns(r, "select", req[r].known, req[r].cs, req[r].appCs, req[r].listed, req[r].todo)
      BY <2>1, <2>2, Went DEF Stage
    <3> QED  BY <2>1, <3>1 DEF Turns, Reads
  <2>3. CASE Answer(r, "failed")
    <3>1. Closed(req'[r], req[r])
      BY <2>1, <2>3, Answered
    <3> QED  BY <2>1, <3>1 DEF Reads
  <2> QED  BY <1>9, <2>2, <2>3 DEF AnswerLost
<1> QED  BY <1>1, <1>2, <1>3, <1>4, <1>5, <1>6, <1>7, <1>8, <1>9 DEF Works

(* What a request relies on, unless another one works on the same devices. *)
(* An update that has moved nothing finds its row as it is to write it ... *)
KeptRow ==
    \A r \in Request : Storing(req[r]) /\ req[r].kind = "update" =>
        /\ req[r].eui \notin contended \cup moved => req[r].id \in Existing /\ rows[req[r].id] = NewRow(r)
        /\ req[r].id \in Existing => rows[req[r].id].eui \in contended \cup moved \cup {req[r].eui}

(* ... a deletion finds the row it read ... *)
KeptForDelete ==
    \A r \in Request : Removing(req[r]) =>
        \/ EuisOf(req[r]) \subseteq contended
        \/ req[r].id \in Existing /\ rows[req[r].id].eui = req[r].eui

(* ... and what is left to wipe has a row. *)
KeptToWipe == \A r \in Request : Wiping(req[r]) => req[r].todo \subseteq EuisOf(req[r]) \cup contended

Kept == KeptRow /\ KeptForDelete /\ KeptToWipe

LEMMA KeptOnward ==
    ASSUME TypeOK, Forms, Met, Kept, Onward, moved \subseteq moved',
           \A r \in Request : \/ ~Busy(r)'
                              \/ req'[r].cs = req[r].cs
                              \/ req[r].kind = "update" => req[r].eui \in moved'
    PROVE  Kept'
<1>0. contended' = contended
  BY DEF Onward
<1>1. KeptRow'
  <2> SUFFICES ASSUME NEW r \in Request, Storing(req'[r]), req'[r].kind = "update"
               PROVE  /\ req'[r].eui \notin contended \cup moved' => req'[r].id \in Existing' /\ rows'[req'[r].id] = NewRow(r)'
                      /\ req'[r].id \in Existing' => rows'[req'[r].id].eui \in contended \cup moved' \cup {req'[r].eui}
    BY <1>0 DEF KeptRow
  <2> DEFINE i == req[r].id
             e == req[r].eui
  <2>1. Busy(r)'
    BY DEF Busy, Storing
  <2>2. Busy(r) /\ Storing(req[r]) /\ req[r].kind = "update" /\ req'[r].id = i /\ req'[r].eui = e /\ req'[r].app = req[r].app
    BY <2>1, StillBusy DEF SameWork, SameTask
  <2>3. i \in Id /\ e \in EuisOf(req[r]) /\ i \in Ids(req[r])
    BY <2>2 DEF Forms, Formed, EuisOf, Ids
  <2>4. /\ e \notin contended \cup moved => i \in Existing /\ rows[i] = NewRow(r)
        /\ i \in Existing => rows[i].eui \in contended \cup moved \cup {e}
    BY <2>2 DEF Kept, KeptRow
  <2>5. e \notin moved' => NewRow(r)' = NewRow(r)
    BY <2>1, <2>2 DEF NewRow
  <2>6. ASSUME NEW p \in Request, Written(p, i)
        PROVE  e \in contended /\ rows'[i].eui \in contended
    <3>1. Busy(p) /\ Closed(req'[p], req[p]) /\ i \in Ids(req[p])
      BY <2>3, <2>6 DEF Written, Ids, Busy, Storing
    <3>2. EuisOf(req[p]) \cup EuisOf(req[r]) \subseteq contended
      BY <2>1, <2>3, <3>1, EndsMeet
    <3>3. rows'[i].eui \in EuisOf(req[p])
      BY <2>6 DEF Written, NewRow, EuisOf, Row
    <3> QED  BY <2>3, <3>2, <3>3
  <2>7. ASSUME e \notin contended \cup moved'
        PROVE  i \in Existing' /\ rows'[i] = NewRow(r)'
    <3>1. i \in Existing /\ rows[i] = NewRow(r) /\ rows[i].eui = e
      BY <2>4, <2>7 DEF NewRow
    <3>2. ~Touched(i) /\ ~(\E p \in Request : Written(p, i))
      BY <2>6, <2>7, <3>1 DEF Touched
    <3>3. ~Removed(i)
      BY <2>1, <2>3, <2>7, <3>1, EndsMeet DEF Removed
    <3>4. rows'[i] = rows[i]
      BY <2>3, <3>2, <3>3 DEF Onward, RowsStep
    <3> QED  BY <2>5, <2>7, <3>1, <3>4 DEF Existing
  <2>8. ASSUME i \in Existing'
        PROVE  rows'[i].eui \in contended \cup moved' \cup {e}
    <3>1. CASE rows'[i] = rows[i]
      BY <2>4, <2>8, <3>1 DEF Existing
    <3> QED  BY <2>3, <2>6, <2>8, <3>1 DEF Onward, RowsStep, Touched, Removed, Existing
  <2> QED  BY <2>2, <2>7, <2>8
<1>2. KeptForDelete'
  <2> SUFFICES ASSUME NEW r \in Request, Removing(req'[r]), ~(EuisOf(req[r])' \subseteq contended)
               PROVE  req'[r].id \in Existing' /\ rows'[req'[r].id].eui = req'[r].eui
    BY <1>0 DEF KeptForDelete
  <2> DEFINE i == req[r].id
  <2>1. Busy(r)'
    BY DEF Busy, Removing
  <2>2. Busy(r) /\ Removing(req[r]) /\ req'[r].id = i /\ req'[r].eui = req[r].eui
    BY <2>1, StillBusy DEF SameWork, SameTask
  <2>3. ~(EuisOf(req[r]) \subseteq contended)
    <3>1. PICK e \in EuisOf(req[r])' : e \notin contended
      OBVIOUS
    <3>2. e \in Eui
      BY DEF EuisOf
    <3> QED  BY <2>1, <3>1, <3>2, EuisStay
  <2>4. i \in Existing /\ rows[i].eui = req[r].eui
    BY <2>2, <2>3 DEF Kept, KeptForDelete
  <2>5. i \in Id /\ i \in Ids(req[r]) /\ rows[i].eui \notin contended
    <3>1. i \in Id /\ i \in Ids(req[r]) /\ req[r].devices = {}
      BY <2>2 DEF Forms, Formed, Ids
    <3>2. EuisOf(req[r]) \subseteq {req[r].eui}
      BY <2>4, <3>1 DEF EuisOf
    <3> QED  BY <2>3, <2>4, <3>1, <3>2
  <2>6. ~Touched(i) /\ ~Removed(i)
    BY <2>1, <2>3, <2>5, EndsMeet DEF Touched, Removed
  <2>7. ASSUME NEW p \in Request, Written(p, i)  PROVE FALSE
    <3>1. Busy(p) /\ Closed(req'[p], req[p]) /\ i \in Ids(req[p])
      BY <2>5, <2>7 DEF Written, Ids, Busy, Storing
    <3> QED  BY <2>1, <2>3, <2>5, <3>1, EndsMeet
  <2>8. rows'[i] = rows[i]
    BY <2>5, <2>6, <2>7 DEF Onward, RowsStep
  <2> QED  BY <2>2, <2>4, <2>8 DEF Existing
<1>3. KeptToWipe'
  <2> SUFFICES ASSUME NEW r \in Request, Wiping(req'[r]), NEW e \in req'[r].todo, e \notin contended
               PROVE  e \in EuisOf(req[r])'
    BY <1>0 DEF KeptToWipe
  <2>1. Busy(r)'
    BY DEF Busy, Wiping
  <2>2. Busy(r) /\ Wiping(req[r]) /\ e \in req[r].todo
    BY <2>1, StillBusy DEF SameWork
  <2>3. e \in EuisOf(req[r])
    BY <2>2 DEF Kept, KeptToWipe
  <2>4. e \in Eui
    BY <2>3 DEF EuisOf
  <2> QED  BY <2>1, <2>3, <2>4, EuisStay
<1> QED  BY <1>1, <1>2, <1>3 DEF Kept

LEMMA KeptBegins ==
    ASSUME TypeOK, Kept, NEW r \in Request, NEW q, Begins(r, q)
    PROVE  Kept'
<1>1. /\ req'[r] = q /\ Others(r) /\ rows' = rows /\ contended \subseteq contended' /\ Existing' = Existing
      /\ moved \subseteq moved' /\ Fresh(r, q) /\ Formed(q, r)
  BY Beginning DEF Existing, Begins, Fresh
<1>2. \A p \in Request \ {r} : req'[p] = req[p] /\ EuisOf(req[p])' = EuisOf(req[p]) /\ NewRow(p)' = NewRow(p)
  BY <1>1 DEF Others, EuisOf, Existing, NewRow
<1>3. EuisOf(req[r])' = EuisOf(q)
  BY <1>1 DEF EuisOf, Existing
<1>4. KeptRow'
  <2>1. ASSUME Storing(q), q.kind = "update"
        PROVE  /\ q.eui \notin moved' => q.id \in Existing /\ rows[q.id] = NewRow(r)'
               /\ rows[q.id].eui \in moved' \cup {q.eui}
    <3>1. /\ q.id \in Existing /\ q.cs = rows[q.id].cs
          /\ \/ q.eui = rows[q.id].eui /\ q.app = rows[q.id].app
             \/ {q.eui, rows[q.id].eui} \subseteq moved'
      BY <1>1, <2>1 DEF Fresh, Storing
    <3>2. NewRow(r)' = [eui |-> q.eui, app |-> q.app, cs |-> q.cs]
      BY <1>1 DEF NewRow
    <3>3. rows[q.id] = [eui |-> rows[q.id].eui, app |-> rows[q.id].app, cs |-> rows[q.id].cs]
      BY <3>1, RowTyped DEF Row
    <3> QED  BY <3>1, <3>2, <3>3
  <2> SUFFICES ASSUME NEW p \in Request, Storing(req'[p]), req'[p].kind = "update"
               PROVE  /\ req'[p].eui \notin contended' \cup moved' => req'[p].id \in Existing' /\ rows'[req'[p].id] = NewRow(p)'
                      /\ req'[p].id \in Existing' => rows'[req'[p].id].eui \in contended' \cup moved' \cup {req'[p].eui}
    BY DEF KeptRow
  <2>2. CASE p = r
    BY <1>1, <2>1, <2>2
  <2>3. CASE p # r
    BY <1>1, <1>2, <2>3 DEF Kept, KeptRow
  <2> QED  BY <2>2, <2>3
<1>5. KeptForDelete'
  <2>1. Removing(q) => q.id \in Existing /\ rows[q.id].eui = q.eui
    BY <1>1 DEF Fresh, Storing, Removing
  <2> SUFFICES ASSUME NEW p \in Request, Removing(req'[p])
               PROVE  \/ EuisOf(req[p])' \subseteq contended'
                      \/ req'[p].id \in Existing' /\ rows'[req'[p].id].eui = req'[p].eui
    BY DEF KeptForDelete
  <2>2. CASE p = r
    BY <1>1, <2>1, <2>2
  <2>3. CASE p # r
    BY <1>1, <1>2, <2>3 DEF Kept, KeptForDelete
  <2> QED  BY <2>2, <2>3
<1>6. KeptToWipe'
  <2>1. Wiping(q) => q.todo \subseteq EuisOf(q)
    <3>1. Wiping(q) => q.devices = DevicesOf(q.app) /\ q.todo = {rows[i].eui : i \in DevicesOf(q.app)}
      BY <1>1 DEF Fresh, Storing, Wiping
    <3> QED  BY <3>1, RowTyped DEF EuisOf, DevicesOf
  <2> SUFFICES ASSUME NEW p \in Request, Wiping(req'[p])
               PROVE  req'[p].todo \subseteq EuisOf(req[p])' \cup contended'
    BY DEF KeptToWipe
  <2>2. CASE p = r
    BY <1>1, <1>3, <2>1, <2>2
  <2>3. CASE p # r
    BY <1>1, <1>2, <2>3 DEF Kept, KeptToWipe
  <2> QED  BY <2>2, <2>3
<1> QED  BY <1>4, <1>5, <1>6 DEF Kept
-----------------------------------------------------------------------------
(* An application of OS2IoT has an application in ChirpStack, or a request *)
(* that works on it has read or created one for it.                        *)
Held(c, a) ==
    /\ c # NoCs
    /\ \/ chirpstackId[a] = c
       \/ \E r \in Request : req[r].stage # "new" /\ req[r].appCs = c /\ req[r].app = a

(* Whatever is held, or written anywhere, was given by ChirpStack, ...     *)
Given ==
    /\ \A c \in CsApp, a \in App : Held(c, a) => c \in csGiven
    /\ \A i \in Existing : rows[i].cs \in csGiven
    /\ \A r \in Request : req[r].stage # "new" =>
           req[r].cs \in csGiven \cup {NoCs} /\ req[r].listed \subseteq csGiven

(* ... no two applications hold the same one, ... *)
OneOwner == \A c \in CsApp, a, b \in App : Held(c, a) /\ Held(c, b) => a = b

(* ... and a device that was not moved is in the one of its application.   *)
Owned ==
    \A i \in Existing, c \in CsApp, a \in App :
        rows[i].eui \notin contended \cup moved /\ rows[i].cs = c /\ Held(c, a) => rows[i].app = a

OwnInv == Kept /\ Given /\ OneOwner /\ Owned

(* At most one application gets hold of a new one. *)
HeldStep ==
    /\ csGiven \subseteq csGiven'
    /\ \E x \in App : \A c \in CsApp, a \in App :
           Held(c, a)' => Held(c, a) \/ (c \in csGiven' \ csGiven /\ a = x)

LEMMA OneOwnerStays ==
    ASSUME Given, OneOwner, HeldStep
    PROVE  OneOwner' /\ \A c \in CsApp, a \in App : Held(c, a)' => c \in csGiven'
<1>1. PICK x \in App : \A c \in CsApp, a \in App :
           Held(c, a)' => Held(c, a) \/ (c \in csGiven' \ csGiven /\ a = x)
  BY DEF HeldStep
<1>2. \A c \in CsApp, a \in App : Held(c, a) => c \in csGiven
  BY DEF Given
<1>3. \A c \in CsApp, a, b \in App : Held(c, a)' /\ Held(c, b)' => a = b
  BY <1>1, <1>2 DEF OneOwner
<1>4. OneOwner'
  BY <1>3 DEF OneOwner
<1> QED  BY <1>1, <1>2, <1>4 DEF HeldStep

LEMMA WorksHeld ==
    ASSUME TypeOK, Forms, NEW r \in Request, Works(r)
    PROVE  HeldStep
<1>1. Proceeds(r) /\ Reads(r)
  BY WorksProceed, WorksRead
<1>2. req[r].app \in App /\ req[r].stage # "new"
  BY <1>1, RequestTyped DEF Proceeds, Busy
<1>3. req'[r].app = req[r].app
  BY <1>1 DEF Proceeds, SameWork, SameTask, Closed
<1>4. req'[r].appCs \in {NoCs, req[r].appCs} \cup (csGiven' \ csGiven)
  BY <1>1 DEF Reads, Closed
<1>5. ASSUME NEW c \in CsApp, NEW a \in App, Held(c, a)'
      PROVE  Held(c, a) \/ (c \in csGiven' \ csGiven /\ a = req[r].app)
  <2>1. c # NoCs
    BY <1>5 DEF Held
  <2>2. CASE chirpstackId'[a] = c
    BY <1>1, <1>2, <2>1, <2>2 DEF Reads, Held
  <2>3. CASE \E p \in Request : req'[p].stage # "new" /\ req'[p].appCs = c /\ req'[p].app = a
    <3>1. PICK p \in Request : req'[p].stage # "new" /\ req'[p].appCs = c /\ req'[p].app = a
      BY <2>3
    <3>2. CASE p = r
      BY <1>2, <1>3, <1>4, <2>1, <3>1, <3>2 DEF Held
    <3>3. CASE p # r
      BY <1>1, <2>1, <3>1, <3>3 DEF Held, Proceeds, Others
    <3> QED  BY <3>2, <3>3
  <2> QED  BY <1>5, <2>2, <2>3 DEF Held
<1> QED  BY <1>1, <1>2, <1>5 DEF HeldStep, Reads

LEMMA BeginsHeld ==
    ASSUME TypeOK, NEW r \in Request, NEW q, Begins(r, q)
    PROVE  \A c \in CsApp, a \in App : Held(c, a)' => Held(c, a)
<1>1. /\ req'[r] = q /\ Others(r) /\ chirpstackId' = chirpstackId
      /\ q.appCs \in {NoCs, chirpstackId[q.app]}
  BY Beginning DEF Begins, Fresh
<1> QED  BY <1>1 DEF Held, Others

LEMMA CrashHeld ==
    ASSUME TypeOK, Forms, Crash
    PROVE  \A c \in CsApp, a \in App : Held(c, a)' => Held(c, a)
<1>1. chirpstackId' = chirpstackId
  BY DEF Crash, db
<1>2. \A r \in Request : req'[r] = req[r] \/ req'[r].appCs = NoCs
  BY CrashOnward DEF Closed
<1> QED  BY <1>1, <1>2 DEF Held

(* A row that changes unless it is contended for was held by the request   *)
(* that wrote it.                                                          *)
LEMMA OwnedOnward ==
    ASSUME TypeOK, Forms, OwnInv, Onward, HeldStep, moved \subseteq moved'
    PROVE  Owned' /\ \A i \in Existing' : rows'[i].cs \in csGiven'
<1>a. Kept /\ Given /\ OneOwner /\ Owned /\ contended' = contended /\ csGiven \subseteq csGiven'
  BY DEF OwnInv, Onward, HeldStep
<1>b. \A c \in CsApp \cap csGiven, a \in App : Held(c, a)' => Held(c, a)
  BY DEF HeldStep
<1>1. ASSUME NEW i \in Existing'
      PROVE  /\ rows'[i].cs \in csGiven
             /\ \A c \in CsApp, a \in App :
                    rows'[i].eui \notin contended \cup moved /\ rows'[i].cs = c /\ Held(c, a)' => rows'[i].app = a
  <2>0. i \in Id
    BY DEF Existing
  <2>1. CASE rows'[i] = rows[i]
    <3>1. i \in Existing /\ rows[i].cs \in CsApp /\ rows[i].cs \in csGiven
      BY <1>a, <2>1, RowTyped DEF Existing, Given
    <3> QED  BY <1>a, <1>b, <2>1, <3>1 DEF Owned
  <2>2. CASE Touched(i)
    <3>1. rows'[i].cs \in csGiven /\ rows'[i].eui \in contended
      BY <1>a, <2>2 DEF Touched, Given
    <3> QED  BY <3>1
  <2>3. CASE \E p \in Request : Written(p, i)
    <3>1. PICK p \in Request : Written(p, i)
      BY <2>3
    <3>2. /\ Storing(req[p]) /\ i = req[p].id /\ req[p].stage # "new" /\ Formed(req[p], p)
          /\ rows'[i] = NewRow(p)
          /\ rows'[i].cs = req[p].cs /\ rows'[i].app = req[p].app /\ rows'[i].eui = req[p].eui
      BY <3>1 DEF Written, NewRow, Storing, Forms
    <3>3. req[p].cs \in CsApp /\ req[p].cs # NoCs /\ req[p].app \in App
      BY <3>1, <3>2, RequestTyped, LorawanAssumption DEF Written, Row
    <3>4. req[p].cs \in csGiven
      BY <1>a, <3>2, <3>3 DEF Given
    <3>5. ASSUME NEW c \in CsApp, NEW a \in App, req[p].eui \notin contended \cup moved, req[p].cs = c, Held(c, a)'
          PROVE  req[p].app = a
      <4>1. Held(c, a)
        BY <1>b, <3>4, <3>5
      <4>2. CASE req[p].kind = "create"
        <5>1. req[p].appCs = c
          BY <3>2, <3>3, <3>5, <4>2 DEF Formed
        <5>2. Held(c, req[p].app)
          BY <3>2, <3>3, <3>5, <5>1 DEF Held
        <5> QED  BY <1>a, <3>3, <4>1, <5>2 DEF OneOwner
      <4>3. CASE req[p].kind = "update"
        <5>1. i \in Existing /\ rows[i] = NewRow(p)
          BY <1>a, <3>2, <3>5, <4>3 DEF Kept, KeptRow
        <5>2. rows[i].cs = c /\ rows[i].app = req[p].app /\ rows[i].eui = req[p].eui
          BY <3>5, <5>1 DEF NewRow
        <5> QED  BY <1>a, <3>5, <4>1, <5>1, <5>2 DEF Owned
      <4> QED  BY <3>2, <4>2, <4>3 DEF Formed
    <3> QED  BY <3>2, <3>4, <3>5
  <2> QED  BY <2>0, <2>1, <2>2, <2>3 DEF Onward, RowsStep, Removed, Existing
<1>2. Owned'
  <2>1. \A i \in Existing', c \in CsApp, a \in App :
            rows'[i].eui \notin contended' \cup moved' /\ rows'[i].cs = c /\ Held(c, a)' => rows'[i].app = a
    BY <1>a, <1>1
  <2> QED  BY <2>1 DEF Owned
<1> QED  BY <1>a, <1>1, <1>2

LEMMA OwnWorks ==
    ASSUME MetInv, OwnInv, NEW r \in Request, Works(r)
    PROVE  OwnInv'
<1>a. TypeOK /\ Forms /\ Met /\ Kept /\ Given /\ OneOwner
  BY DEF MetInv, OwnInv
<1>1. Onward /\ Proceeds(r) /\ Reads(r) /\ HeldStep /\ moved \subseteq moved'
  BY <1>a, WorksOnward, WorksProceed, WorksRead, WorksHeld, WorksTyped
<1>2. Kept'
  <2>1. \A p \in Request : \/ ~Busy(p)'
                           \/ req'[p].cs = req[p].cs
                           \/ req[p].kind = "update" => req[p].eui \in moved'
    <3>1. Closed(req'[r], req[r]) => ~Busy(r)'
      BY DEF Closed, Over, Busy
    <3> QED  BY <1>1, <3>1 DEF Proceeds, Others, Reads
  <2> QED  BY <1>a, <1>1, <2>1, KeptOnward
<1>3. Owned' /\ \A i \in Existing' : rows'[i].cs \in csGiven'
  BY <1>a, <1>1, OwnedOnward
<1>4. OneOwner' /\ \A c \in CsApp, a \in App : Held(c, a)' => c \in csGiven'
  BY <1>a, <1>1, OneOwnerStays
<1>5. ASSUME NEW p \in Request, req'[p].stage # "new"
      PROVE  req'[p].cs \in csGiven' \cup {NoCs} /\ req'[p].listed \subseteq csGiven'
  <2>1. CASE p # r
    BY <1>a, <1>1, <1>5, <2>1 DEF Given, Proceeds, Others, Reads
  <2>2. CASE p = r
    <3>1. req[r].stage # "new" /\ req[r].app \in App /\ req[r].appCs \in CsApp \cup {NoCs}
      BY <1>a, <1>1, RequestTyped DEF Proceeds, Busy
    <3>2. req[r].appCs \in csGiven \cup {NoCs}
      BY <1>a, <3>1 DEF Given, Held
    <3>3. req[r].cs \in csGiven \cup {NoCs} /\ req[r].listed \subseteq csGiven /\ csApps \subseteq csGiven
      BY <1>a, <3>1 DEF Given, TypeOK
    <3> QED  BY <1>1, <2>2, <3>2, <3>3 DEF Reads, Closed
  <2> QED  BY <2>1, <2>2
<1>6. Given'
  BY <1>3, <1>4, <1>5 DEF Given
<1> QED  BY <1>2, <1>3, <1>4, <1>6 DEF OwnInv

LEMMA OwnBegins ==
    ASSUME MetInv, OwnInv, NEW r \in Request, NEW q, Begins(r, q)
    PROVE  OwnInv'
<1>a. TypeOK /\ Kept /\ Given /\ OneOwner /\ Owned
  BY DEF MetInv, OwnInv
<1>1. /\ req'[r] = q /\ Others(r) /\ rows' = rows /\ Existing' = Existing /\ csGiven' = csGiven
      /\ contended \subseteq contended' /\ moved \subseteq moved'
  BY <1>a, Beginning DEF Existing, Begins
<1>2. \A c \in CsApp, a \in App : Held(c, a)' => Held(c, a)
  BY <1>a, BeginsHeld
<1>3. Kept'
  BY <1>a, KeptBegins
<1>4. q.cs \in csGiven \cup {NoCs} /\ q.listed = {}
  <2>1. Fresh(r, q)
    BY DEF Begins
  <2>2. q.cs = NoCs \/ (q.id \in Existing /\ q.cs = rows[q.id].cs)
    BY <2>1 DEF Fresh, Formed
  <2> QED  BY <1>a, <2>1, <2>2 DEF Fresh, Given
<1>5. Given'
  <2>1. \A p \in Request : req'[p].stage # "new" =>
            req'[p].cs \in csGiven \cup {NoCs} /\ req'[p].listed \subseteq csGiven
    BY <1>a, <1>1, <1>4 DEF Given, Others
  <2>2. \A c \in CsApp, a \in App : Held(c, a)' => c \in csGiven
    BY <1>a, <1>2 DEF Given
  <2> QED  BY <1>a, <1>1, <2>1, <2>2 DEF Given
<1>6. OneOwner'
  <2>1. \A c \in CsApp, a, b \in App : Held(c, a)' /\ Held(c, b)' => a = b
    BY <1>a, <1>2 DEF OneOwner
  <2> QED  BY <2>1 DEF OneOwner
<1>7. Owned'
  <2>1. \A i \in Existing', c \in CsApp, a \in App :
            rows'[i].eui \notin contended' \cup moved' /\ rows'[i].cs = c /\ Held(c, a)' => rows'[i].app = a
    BY <1>a, <1>1, <1>2 DEF Owned
  <2> QED  BY <2>1 DEF Owned
<1> QED  BY <1>3, <1>5, <1>6, <1>7 DEF OwnInv

LEMMA OwnCrash ==
    ASSUME MetInv, OwnInv, Crash
    PROVE  OwnInv'
<1>a. TypeOK /\ Forms /\ Met /\ Kept /\ Given /\ OneOwner
  BY DEF MetInv, OwnInv
<1>1. /\ Onward /\ \A r \in Request : ~Busy(r)' /\ (req'[r] = req[r] \/ Closed(req'[r], req[r]))
  BY <1>a, CrashOnward
<1>2. \A c \in CsApp, a \in App : Held(c, a)' => Held(c, a)
  BY <1>a, CrashHeld
<1>3. csGiven' = csGiven /\ moved' = moved
  BY DEF Crash, chirpstack
<1>5. Kept'
  BY <1>a, <1>1, <1>3, KeptOnward
<1>6. ASSUME NEW r \in Request, req'[r].stage # "new"
      PROVE  req'[r].cs \in csGiven \cup {NoCs} /\ req'[r].listed \subseteq csGiven
  BY <1>a, <1>1, <1>6 DEF Given, Closed
<1>7. rows' = rows /\ contended' = contended
  BY DEF Crash, db
<1>8. \A c \in CsApp, a, b \in App : Held(c, a)' /\ Held(c, b)' => a = b
  BY <1>a, <1>2 DEF OneOwner
<1>9. \A i \in Existing', c \in CsApp, a \in App :
          rows'[i].eui \notin contended' \cup moved' /\ rows'[i].cs = c /\ Held(c, a)' => rows'[i].app = a
  BY <1>2, <1>3, <1>7 DEF OwnInv, Owned, Existing
<1>10. Given'
  <2>1. \A c \in CsApp, a \in App : Held(c, a)' => c \in csGiven
    BY <1>a, <1>2 DEF Given
  <2>2. \A i \in Existing' : rows'[i].cs \in csGiven
    BY <1>a, <1>7 DEF Given, Existing
  <2> QED  BY <1>3, <1>6, <2>1, <2>2 DEF Given
<1> QED  BY <1>5, <1>8, <1>9, <1>10 DEF OwnInv, OneOwner, Owned

LEMMA OwnUnchanged ==
    ASSUME OwnInv, UNCHANGED vars
    PROVE  OwnInv'
<1>1. /\ rows' = rows /\ req' = req /\ chirpstackId' = chirpstackId /\ csGiven' = csGiven
      /\ contended' = contended /\ moved' = moved /\ Existing' = Existing
  BY DEF vars, db, chirpstack, history, Existing
<1>2. Kept'
  BY <1>1 DEF OwnInv, Kept, KeptRow, KeptForDelete, KeptToWipe, EuisOf, Existing, NewRow
<1>3. \A c \in CsApp, a \in App : Held(c, a)' <=> Held(c, a)
  BY <1>1 DEF Held
<1>4. \A c \in CsApp, a, b \in App : Held(c, a)' /\ Held(c, b)' => a = b
  BY <1>3 DEF OwnInv, OneOwner
<1>5. \A i \in Existing', c \in CsApp, a \in App :
          rows'[i].eui \notin contended' \cup moved' /\ rows'[i].cs = c /\ Held(c, a)' => rows'[i].app = a
  BY <1>1, <1>3 DEF OwnInv, Owned
<1>6. Given'
  <2>1. \A c \in CsApp, a \in App : Held(c, a)' => c \in csGiven
    BY <1>3 DEF OwnInv, Given
  <2> QED  BY <1>1, <2>1 DEF OwnInv, Given
<1> QED  BY <1>2, <1>4, <1>5, <1>6 DEF OwnInv, OneOwner, Owned

LEMMA OwnInit ==
    Init => OwnInv
<1> SUFFICES ASSUME Init  PROVE OwnInv
  OBVIOUS
<1>1. \A r \in Request : req[r].stage = "new"
  BY DEF Init, Nothing
<1>2. Kept
  BY <1>1 DEF Kept, KeptRow, KeptForDelete, KeptToWipe, Storing, Removing, Wiping
<1>3. \A c \in CsApp, a \in App : Held(c, a) => c = InitialCs[a] /\ c # NoCs
  BY <1>1 DEF Held, Init
<1>4. \A i \in Existing : i \in Old /\ rows[i] = InitialRow[i]
  BY DEF Existing, Init
<1>5. Given
  BY <1>1, <1>3, <1>4 DEF Given, Init
<1>6. OneOwner
  BY <1>3, LorawanAssumption DEF OneOwner
<1>7. Owned
  BY <1>3, <1>4, LorawanAssumption DEF Owned
<1> QED  BY <1>2, <1>5, <1>6, <1>7 DEF OwnInv

LEMMA AlwaysOwned ==
    Spec => []OwnInv
<1>1. MetInv /\ OwnInv /\ [Next]_vars => OwnInv'
  <2> SUFFICES ASSUME MetInv, OwnInv, [Next]_vars  PROVE OwnInv'
    OBVIOUS
  <2>1. CASE Next
    BY <2>1, NextIs, OwnWorks, OwnBegins, OwnCrash DEF MetInv
  <2>2. CASE UNCHANGED vars
    BY <2>2, OwnUnchanged
  <2> QED  BY <2>1, <2>2
<1> QED  BY <1>1, OwnInit, AlwaysMet, PTL DEF Spec
-----------------------------------------------------------------------------
(* How far a request has come with device e: it has changed ChirpStack and *)
(* not yet the database, ...                                               *)
HalfDone(q, e) ==
    \/ q.kind = "create" /\ q.stage = "insert"
    \/ q.stage = "commit"
    \/ Wiping(q) /\ e \notin q.todo

(* ... then the stores are as it has left them; otherwise they agree.      *)
Halves(e, r) ==
    /\ req[r].kind = "create" /\ req[r].stage = "insert" => RowsOf(e) = {} /\ csDevice[e] = req[r].cs
    /\ req[r].stage = "commit" => RowsOf(e) = {req[r].id} /\ csDevice[e] = NoCs
    /\ Wiping(req[r]) /\ e \notin req[r].todo => csDevice[e] = NoCs /\ \E i \in req[r].devices : RowsOf(e) = {i}
    /\ ~HalfDone(req[r], e) => Agree(e)
    /\ req[r].kind = "create" /\ req[r].stage \in {"list", "findApp"} => (req[r].known <=> RowsOf(e) # {})
    /\ req[r].kind = "create" /\ req[r].stage \in {"nameApp", "saveApp", "put"} => RowsOf(e) = {}

Good(e) == e \in Eui \ (contended \cup moved \cup hurt)

Stores ==
    \A e \in Eui, r \in Request : Good(e) /\ Busy(r) /\ e \in EuisOf(req[r]) => Halves(e, r)

RowsSame(e) == RowsOf(e)' = RowsOf(e) /\ \A i \in RowsOf(e) : rows'[i].cs = rows[i].cs

LEMMA AgreeStays ==
    ASSUME NEW e, RowsSame(e), csDevice'[e] = csDevice[e]
    PROVE  Agree(e)' <=> Agree(e)
<1>1. \A i \in RowsOf(e) : i \in Existing /\ i \in Existing' /\ rows'[i].cs = rows[i].cs
  BY DEF RowsSame, RowsOf
<1>2. RowsOf(e)' = RowsOf(e)
  BY DEF RowsSame
<1>3. ASSUME NEW i \in Existing, RowsOf(e) = {i}, rows[i].cs = csDevice[e]
      PROVE  i \in Existing' /\ RowsOf(e)' = {i} /\ rows'[i].cs = csDevice'[e]
  BY <1>1, <1>2, <1>3
<1>4. ASSUME NEW i \in Existing', RowsOf(e)' = {i}, rows'[i].cs = csDevice'[e]
      PROVE  i \in Existing /\ RowsOf(e) = {i} /\ rows[i].cs = csDevice[e]
  BY <1>1, <1>2, <1>4
<1> QED  BY <1>2, <1>3, <1>4 DEF Agree

LEMMA HalvesStay ==
    ASSUME NEW e, NEW r \in Request, RowsSame(e), csDevice'[e] = csDevice[e], req'[r] = req[r], Halves(e, r)
    PROVE  Halves(e, r)'
<1>1. Agree(e)' <=> Agree(e)
  BY AgreeStays
<1>2. RowsOf(e)' = RowsOf(e)
  BY DEF RowsSame
<1> QED  BY <1>1, <1>2 DEF Halves, HalfDone

(* Rows of an EUI stay unless a request that works on it ends.             *)
LEMMA RowsUntouched ==
    ASSUME TypeOK, Onward, NEW e \in Eui \ contended,
           \A p \in Request : Busy(p) /\ Closed(req'[p], req[p]) => e \notin EuisOf(req[p])
    PROVE  RowsSame(e)
<1>1. ASSUME NEW p \in Request, NEW i, Written(p, i)
      PROVE  rows'[i].eui # e /\ (i \in Existing => rows[i].eui # e)
  <2>1. e \notin EuisOf(req[p])
    BY <1>1 DEF Written, Busy, Storing
  <2>2. rows'[i].eui = req[p].eui
    BY <1>1 DEF Written, NewRow
  <2> QED  BY <1>1, <2>1, <2>2 DEF Written, EuisOf, Ids
<1>2. ASSUME NEW i \in Id
      PROVE  /\ i \in RowsOf(e) <=> i \in RowsOf(e)'
             /\ i \in RowsOf(e) => rows'[i].cs = rows[i].cs
  <2>1. CASE rows'[i] = rows[i]
    BY <2>1 DEF RowsOf, Existing
  <2>2. CASE Touched(i)
    BY <2>2 DEF Touched, RowsOf
  <2>3. CASE \E p \in Request : Written(p, i)
    BY <1>1, <2>3 DEF RowsOf
  <2>4. CASE Removed(i)
    <3>1. i \notin RowsOf(e)'
      BY <2>4 DEF Removed, RowsOf, Existing
    <3>2. ASSUME NEW p \in Request, Busy(p), Closed(req'[p], req[p]), i \in Ids(req[p])
          PROVE  rows[i].eui # e
      BY <2>4, <3>2 DEF Removed, EuisOf, Ids
    <3>3. i \notin RowsOf(e)
      BY <2>4, <3>2 DEF Removed, RowsOf
    <3> QED  BY <3>1, <3>3
  <2> QED  BY <2>1, <2>2, <2>3, <2>4 DEF Onward, RowsStep
<1>3. RowsOf(e) \subseteq Id /\ RowsOf(e)' \subseteq Id
  BY DEF RowsOf, Existing
<1> QED  BY <1>2, <1>3 DEF RowsSame

(* What a request works on that no other one contends for: a new row's EUI ... *)
LEMMA StoringEui ==
    ASSUME MetInv, Kept, NEW r \in Request, Storing(req[r]), NEW e \in EuisOf(req[r]), Good(e)
    PROVE  /\ e = req[r].eui
           /\ req[r].kind = "create" => req[r].id \notin Existing
           /\ req[r].kind = "update" => req[r].id \in RowsOf(e) /\ rows[req[r].id] = NewRow(r) /\ req[r].cs # NoCs
<1>1. Formed(req[r], r) /\ NotYet /\ KeptRow /\ TypeOK
  BY DEF MetInv, Forms, Kept
<1>2. req[r].devices = {} /\ req[r].kind \in {"create", "update"} /\ (req[r].kind = "update" => req[r].cs # NoCs)
  BY <1>1 DEF Formed
<1>3. e = req[r].eui \/ (req[r].id \in Existing /\ rows[req[r].id].eui = e)
  BY <1>2 DEF EuisOf
<1>4. CASE req[r].kind = "create"
  <2>1. req[r].id = r /\ rows[r] = NoRow
    BY <1>1, <1>4 DEF Formed, NotYet, Unborn, Making
  <2> QED  BY <1>3, <1>4, <2>1 DEF Existing
<1>5. CASE req[r].kind = "update"
  <2>1. e = req[r].eui
    BY <1>1, <1>3, <1>5 DEF KeptRow, Good
  <2>2. req[r].id \in Existing /\ rows[req[r].id] = NewRow(r)
    BY <1>1, <1>5, <2>1 DEF KeptRow, Good
  <2>3. rows[req[r].id].eui = e
    BY <2>1, <2>2 DEF NewRow
  <2> QED  BY <1>2, <1>5, <2>1, <2>2, <2>3 DEF RowsOf
<1> QED  BY <1>2, <1>4, <1>5

(* ... the row that is deleted ... *)
LEMMA RemovingEui ==
    ASSUME MetInv, Kept, NEW r \in Request, Removing(req[r]), NEW e \in EuisOf(req[r]), Good(e)
    PROVE  e = req[r].eui /\ req[r].id \in RowsOf(e)
<1>1. Formed(req[r], r) /\ KeptForDelete
  BY DEF MetInv, Forms, Kept
<1>2. req[r].id \in Existing /\ rows[req[r].id].eui = req[r].eui
  BY <1>1 DEF KeptForDelete, Good
<1>3. e = req[r].eui
  BY <1>1, <1>2 DEF Formed, EuisOf
<1> QED  BY <1>2, <1>3 DEF RowsOf

(* ... or the devices of an application. *)
LEMMA OnAppEui ==
    ASSUME MetInv, NEW r \in Request, Changing(req[r]) \/ Wiping(req[r]), NEW e \in EuisOf(req[r])
    PROVE  \E i \in req[r].devices : i \in RowsOf(e) /\ (e \notin contended => rows[i].app = req[r].app)
<1>1. Formed(req[r], r) /\ Joined
  BY DEF MetInv, Forms
<1>2. req[r].id = NoRow /\ req[r].eui = NoRow
  BY <1>1 DEF Formed
<1>3. PICK i \in req[r].devices : i \in Existing /\ rows[i].eui = e
  BY <1>2, LorawanAssumption DEF EuisOf, Existing
<1> QED  BY <1>1, <1>3 DEF RowsOf, Joined

(* Two requests never work on a device unless they contend for it. *)
LEMMA OnlyOne ==
    ASSUME MetInv, NEW p \in Request, NEW r \in Request, p # r, Busy(p), Busy(r), NEW e, e \notin contended,
           e \in EuisOf(req[r])
    PROVE  e \notin EuisOf(req[p])
<1>1. Met
  BY DEF MetInv
<1> QED  BY <1>1 DEF Met, Meet, Clash

(* A request that has not come half way leaves stores that agree. *)
LEMMA NotHalfway ==
    ASSUME MetInv, Kept, NEW r \in Request, Busy(r), NEW e \in EuisOf(req[r]), Good(e),
           Halves(e, r), e \notin Halfway(r)
    PROVE  Agree(e)
<1>1. ASSUME HalfDone(req[r], e)  PROVE FALSE
  <2>1. CASE req[r].kind = "create" /\ req[r].stage = "insert"
    <3>1. e = req[r].eui
      BY <2>1, StoringEui DEF Storing
    <3> QED  BY <2>1, <3>1 DEF Halfway
  <2>2. CASE req[r].stage = "commit"
    <3>1. e = req[r].eui
      BY <2>2, RemovingEui DEF Removing
    <3> QED  BY <2>2, <3>1 DEF Halfway
  <2>3. CASE Wiping(req[r]) /\ e \notin req[r].todo
    <3>1. PICK i \in req[r].devices : i \in Existing /\ rows[i].eui = e
      BY <2>3, OnAppEui DEF RowsOf
    <3> QED  BY <2>3, <3>1 DEF Halfway, Wiping
  <2> QED  BY <1>1, <2>1, <2>2, <2>3 DEF HalfDone
<1> QED  BY <1>1 DEF Halves

(* ChirpStack's device stays unless the request works on it: in particular *)
(* deleting an application in ChirpStack reaches no device of another one. *)
LEMMA DeviceUntouched ==
    ASSUME MetInv, OwnInv, Stores, InStep, NEW r \in Request, Works(r), NEW e, Good(e), e \notin EuisOf(req[r])
    PROVE  csDevice'[e] = csDevice[e]
<1> USE DEF At
<1>a. /\ TypeOK /\ Forms /\ Met /\ Joined /\ Kept /\ OneOwner /\ Owned /\ Formed(req[r], r)
      /\ e \in Eui /\ e \notin contended \cup moved \cup hurt
      /\ csDevice \in [Eui -> CsApp \cup {NoCs}]
  BY DEF MetInv, OwnInv, Forms, Good, TypeOK
<1>1. CASE \/ GetLorawanDeviceEuis(r) \/ ListApplications(r) \/ FindApplication(r) \/ CreateApplication(r)
           \/ FindApplicationToName(r) \/ SaveApplicationId(r) \/ SelectRow(r) \/ InsertRow(r) \/ WriteRow(r)
           \/ RemoveRow(r) \/ CommitDelete(r) \/ PutApplication(r) \/ WriteApplication(r) \/ DropApplication(r)
           \/ Skips(r) \/ Aborts(r)
  BY <1>1 DEF GetLorawanDeviceEuis, ListApplications, FindApplication, CreateApplication, FindApplicationToName,
              SaveApplicationId, SelectRow, InsertRow, WriteRow, RemoveRow, CommitDelete, PutApplication,
              WriteApplication, DropApplication, Skips, Aborts, Abort, chirpstack
<1>2. CASE CreateOrUpdateDevice(r) \/ DeleteInChirpstack(r) \/ AnswerLost(r)
  <2>1. e # req[r].eui
    BY <1>a DEF EuisOf
  <2>2. PICK c : csDevice' = [csDevice EXCEPT ![req[r].eui] = c]
    BY <1>2 DEF CreateOrUpdateDevice, DeleteInChirpstack, AnswerLost, PutDevice
  <2> QED  BY <1>a, <2>1, <2>2
<1>3. CASE \E x \in Eui : WipeDevice(r, x)
  <2>1. PICK x \in Eui : WipeDevice(r, x)
    BY <1>3
  <2>2. x \in EuisOf(req[r]) \cup contended
    BY <1>a, <2>1 DEF WipeDevice, Wiping, Kept, KeptToWipe
  <2> QED  BY <1>a, <2>1, <2>2 DEF WipeDevice
<1>4. CASE DeleteAppInChirpstack(r)
  <2> DEFINE c == req[r].appCs
  <2>1. /\ Busy(r) /\ Wiping(req[r]) /\ OnApp(req[r]) /\ req[r].stage # "new" /\ req[r].app \in App
        /\ csDevice' = [x \in Eui |-> IF csDevice[x] = c THEN NoCs ELSE csDevice[x]]
    BY <1>4, <1>a, RequestTyped DEF DeleteAppInChirpstack, Busy, Wiping, Formed, OnApp
  <2> SUFFICES ASSUME csDevice[e] = c, c # NoCs  PROVE FALSE
    BY <1>a, <2>1
  <2>2. c \in CsApp /\ Held(c, req[r].app)
    BY <1>a, <2>1 DEF Held
  <2>3. ~Agree(e)
    <3> SUFFICES ASSUME Agree(e)  PROVE FALSE
      OBVIOUS
    <3>1. PICK i \in Existing : RowsOf(e) = {i} /\ rows[i].cs = c
      BY DEF Agree
    <3>2. rows[i].eui = e
      BY <3>1 DEF RowsOf
    <3>3. rows[i].app = req[r].app
      BY <1>a, <2>1, <2>2, <3>1, <3>2 DEF Owned
    <3>4. i \in req[r].devices
      BY <1>a, <2>1, <3>1, <3>2, <3>3 DEF Joined
    <3> QED  BY <1>a, <3>1, <3>2, <3>4 DEF EuisOf
  <2>4. PICK p \in Request : Busy(p) /\ e \in EuisOf(req[p])
    BY <1>a, <2>3 DEF InStep, Idle
  <2>5. Halves(e, p) /\ p # r /\ HalfDone(req[p], e)
    BY <1>a, <2>3, <2>4 DEF Stores, Halves
  <2>6. req[p].kind = "create" /\ req[p].stage = "insert" /\ req[p].cs = c
    BY <2>5 DEF Halves, HalfDone
  <2>7. req[p].appCs = c /\ req[p].app \in App
    BY <1>a, <2>6, RequestTyped DEF Forms, Formed, Storing
  <2>8. req[p].app = req[r].app
    BY <1>a, <2>1, <2>2, <2>6, <2>7 DEF OneOwner, Held
  <2>9. Clash(req[p], req[r])
    BY <2>1, <2>8 DEF Clash
  <2> QED  BY <1>a, <2>1, <2>4, <2>5, <2>9 DEF Met, Meet
<1> QED  BY <1>1, <1>2, <1>3, <1>4 DEF Works

(* What a request that goes on or ends must leave of a device it works on. *)
Leaves(e, r) == IF Busy(r)' THEN Halves(e, r)' ELSE Agree(e)'

LEMMA StoringLeaves ==
    ASSUME NEW r \in Request, NEW e, Storing(req'[r]), Agree(e)',
           req'[r].kind = "create" =>
               /\ req'[r].stage # "insert"
               /\ req'[r].stage \in {"list", "findApp"} => (req'[r].known <=> RowsOf(e)' # {})
               /\ req'[r].stage \in {"nameApp", "saveApp", "put"} => RowsOf(e)' = {}
    PROVE  Halves(e, r)'
  BY DEF Halves, HalfDone, Storing, Wiping

LEMMA Unmoved ==
    ASSUME NEW e, rows' = rows, csDevice' = csDevice
    PROVE  RowsOf(e)' = RowsOf(e) /\ (Agree(e)' <=> Agree(e)) /\ Existing' = Existing
<1>1. RowsOf(e)' = RowsOf(e) /\ Existing' = Existing
  BY DEF RowsOf, Existing
<1> QED  BY <1>1 DEF Agree

(* A row of a device the stores agree on is its only one. *)
LEMMA OneRow ==
    ASSUME NEW e, NEW i \in RowsOf(e), Agree(e)
    PROVE  RowsOf(e) = {i} /\ csDevice[e] = rows[i].cs /\ csDevice[e] # NoCs
  BY DEF Agree

(* A request that stores a device leaves it in both stores or neither. *)
LEMMA StoringStep ==
    ASSUME MetInv, OwnInv, NEW r \in Request, Works(r), Storing(req[r]), ~Aborts(r), ~AnswerLost(r),
           NEW e \in EuisOf(req[r]), Good(e), Halves(e, r)
    PROVE  Leaves(e, r)
<1> USE DEF At
<1>a. /\ TypeOK /\ Forms /\ Kept /\ Formed(req[r], r) /\ Busy(r) /\ e \in Eui
      /\ csDevice \in [Eui -> CsApp \cup {NoCs}] /\ rows \in [Id -> Row \cup {NoRow}]
  BY DEF MetInv, OwnInv, Forms, Good, TypeOK, Busy, Storing
<1>b. /\ e = req[r].eui
      /\ req[r].kind = "create" => req[r].id \notin Existing
      /\ req[r].kind = "update" => req[r].id \in RowsOf(e) /\ rows[req[r].id] = NewRow(r) /\ req[r].cs # NoCs
  BY <1>a, StoringEui
<1>c. req[r].kind \in {"create", "update"} /\ req[r].id \in Id
  BY <1>a DEF Formed
<1>d. ~(req[r].kind = "create" /\ req[r].stage = "insert") => Agree(e)
  BY DEF Halves, HalfDone, Storing, Wiping
<1>1. CASE GetLorawanDeviceEuis(r)
  <2>1. req[r].stage = "euis" /\ rows' = rows /\ csDevice' = csDevice
    BY <1>1 DEF GetLorawanDeviceEuis, db, chirpstack
  <2>2. Turns(r, "list", RowsOf(e) # {}, req[r].cs, req[r].appCs, req[r].listed, req[r].todo)
    BY <1>1, <1>a, <1>b, KnownRead DEF GetLorawanDeviceEuis, Stage
  <2>3. Storing(req'[r]) /\ Busy(r)'
    BY <2>2 DEF Turns, Storing, Busy
  <2>4. req'[r].stage = "list" /\ (req'[r].known <=> RowsOf(e) # {})
    BY <2>2 DEF Turns
  <2>5. Agree(e)' /\ RowsOf(e)' = RowsOf(e)
    BY <1>d, <2>1, Unmoved
  <2>6. Halves(e, r)'
    BY <2>3, <2>4, <2>5, StoringLeaves
  <2> QED  BY <2>3, <2>6 DEF Leaves
<1>2. CASE ListApplications(r)
  <2>1. req[r].stage = "list" /\ rows' = rows /\ csDevice' = csDevice /\ csApps \in SUBSET CsApp
    BY <1>2, <1>a DEF ListApplications, db, chirpstack, TypeOK
  <2>2. Turns(r, "findApp", req[r].known, req[r].cs, req[r].appCs, csApps, req[r].todo)
    BY <1>2, <1>a, <2>1, ListRead DEF ListApplications, Stage
  <2>3. Storing(req'[r]) /\ Busy(r)'
    BY <2>2 DEF Turns, Storing, Busy
  <2>4. req[r].kind = "create" => (req[r].known <=> RowsOf(e) # {})
    BY <2>1 DEF Halves
  <2>5. Halves(e, r)'
    BY <1>d, <2>1, <2>2, <2>3, <2>4, Unmoved, StoringLeaves DEF Turns, SameTask
  <2> QED  BY <2>3, <2>5 DEF Leaves
<1>3. CASE FindApplication(r) \/ CreateApplication(r)
  <2>1. req[r].stage = "findApp" /\ rows' = rows /\ csDevice' = csDevice
    BY <1>3 DEF FindApplication, CreateApplication, db, chirpstack
  <2>2. req[r].kind = "create" => RowsOf(e) = {}
    BY <1>3, <2>1 DEF FindApplication, CreateApplication, AlreadyInUse, Halves
  <2>3. SameTask(req'[r], req[r]) /\ req'[r].stage \in {"put", "nameApp"}
    <3>1. CASE FindApplication(r)
      <4>1. PICK c \in Candidates(req[r]) : req' = [req EXCEPT ![r].cs = c, ![r].listed = {}, ![r].stage = "put"]
        BY <3>1 DEF FindApplication
      <4>2. c \in CsApp
        BY <1>a, RequestTyped DEF Candidates, Busy
      <4> QED  BY <1>a, <4>1, <4>2, ApplicationFound DEF Stage, Turns
    <3>2. CASE CreateApplication(r)
      <4>1. PICK c \in CsApp \ csGiven : req' = [req EXCEPT ![r].appCs = c, ![r].listed = {}, ![r].stage = "nameApp"]
        BY <3>2 DEF CreateApplication
      <4> QED  BY <1>a, <4>1, ApplicationMade DEF Stage, Turns
    <3> QED  BY <1>3, <3>1, <3>2
  <2>4. Storing(req'[r]) /\ Busy(r)'
    BY <2>3 DEF Storing, Busy
  <2>5. Halves(e, r)'
    BY <1>d, <2>1, <2>2, <2>3, <2>4, Unmoved, StoringLeaves DEF SameTask
  <2> QED  BY <2>4, <2>5 DEF Leaves
<1>4. CASE FindApplicationToName(r) \/ SaveApplicationId(r)
  <2>1. req[r].stage \in {"nameApp", "saveApp"} /\ rows' = rows /\ csDevice' = csDevice
    BY <1>4 DEF FindApplicationToName, SaveApplicationId, db, chirpstack
  <2>2. req[r].kind = "create" => RowsOf(e) = {}
    BY <2>1 DEF Halves
  <2>3. SameTask(req'[r], req[r]) /\ req'[r].stage \in {"saveApp", "put"}
    <3>1. CASE FindApplicationToName(r)
      BY <1>a, <3>1, Went DEF FindApplicationToName, Stage, Turns
    <3>2. CASE SaveApplicationId(r)
      <4>1. req[r].appCs \in CsApp
        BY <1>a, <3>2, RequestTyped DEF SaveApplicationId, Formed, Storing, Busy
      <4> QED  BY <1>a, <3>2, <4>1, ApplicationNamed DEF SaveApplicationId, Stage, Turns
    <3> QED  BY <1>4, <3>1, <3>2
  <2>4. Storing(req'[r]) /\ Busy(r)'
    BY <2>3 DEF Storing, Busy
  <2>5. Halves(e, r)'
    BY <1>d, <2>1, <2>2, <2>3, <2>4, Unmoved, StoringLeaves DEF SameTask
  <2> QED  BY <2>4, <2>5 DEF Leaves
<1>5. CASE CreateOrUpdateDevice(r)
  <2>1. /\ req[r].stage = "put" /\ rows' = rows
        /\ csDevice' = [csDevice EXCEPT ![e] = req[r].cs]
    BY <1>5, <1>b DEF CreateOrUpdateDevice, PutDevice, db
  <2>2. Turns(r, AfterPut(req[r]), req[r].known, req[r].cs, req[r].appCs, req[r].listed, req[r].todo)
    BY <1>5, <1>a, Went DEF CreateOrUpdateDevice, Stage, AfterPut
  <2>3. /\ Storing(req'[r]) /\ Busy(r)' /\ req'[r].kind = req[r].kind /\ req'[r].cs = req[r].cs
        /\ req'[r].stage = AfterPut(req[r])
    BY <2>2 DEF Turns, SameTask, Storing, Busy, AfterPut
  <2>4. csDevice'[e] = req[r].cs
    BY <1>a, <2>1
  <2>5. CASE req[r].kind = "create"
    <3>1. req'[r].stage = "insert" /\ RowsOf(e)' = {}
      BY <2>1, <2>3, <2>5 DEF AfterPut, Halves, RowsOf, Existing
    <3>2. Halves(e, r)'
      BY <2>3, <2>4, <2>5, <3>1 DEF Halves, HalfDone, Wiping
    <3> QED  BY <2>3, <3>2 DEF Leaves
  <2>6. CASE req[r].kind = "update"
    <3>1. csDevice[e] = req[r].cs
      BY <1>b, <1>d, <2>6, OneRow DEF NewRow
    <3>2. csDevice' = csDevice
      BY <1>a, <2>1, <3>1
    <3>3. Halves(e, r)'
      BY <1>d, <2>1, <2>3, <2>6, <3>2, Unmoved, StoringLeaves
    <3> QED  BY <2>3, <3>3 DEF Leaves
  <2> QED  BY <1>c, <2>5, <2>6
<1>6. CASE SelectRow(r) \/ Skips(r)
  <2>1. rows' = rows /\ csDevice' = csDevice /\ req[r].kind = "update"
    BY <1>6, <1>a DEF SelectRow, Skips, db, chirpstack, Formed
  <2>2. PICK s \in {"select", "write", "insert"} : Turns(r, s, req[r].known, req[r].cs, req[r].appCs, req[r].listed, req[r].todo)
    BY <1>6, <1>a, Went DEF SelectRow, Skips, Stage
  <2>3. Storing(req'[r]) /\ Busy(r)' /\ req'[r].kind = "update"
    BY <2>1, <2>2 DEF Turns, SameTask, Storing, Busy
  <2>4. Halves(e, r)'
    BY <1>d, <2>1, <2>3, Unmoved, StoringLeaves
  <2> QED  BY <2>3, <2>4 DEF Leaves
<1>7. CASE InsertRow(r)
  <2>1. /\ req[r].stage = "insert" /\ req[r].id \notin Existing /\ Answer(r, "done")
        /\ rows' = [rows EXCEPT ![req[r].id] = NewRow(r)] /\ csDevice' = csDevice
    BY <1>7 DEF InsertRow, chirpstack
  <2>2. req[r].kind = "create"
    BY <1>b, <1>c, <2>1 DEF RowsOf
  <2>3. RowsOf(e) = {} /\ csDevice[e] = req[r].cs
    BY <2>1, <2>2 DEF Halves
  <2>4. NewRow(r) \in Row /\ NewRow(r).eui = e /\ NewRow(r).cs = req[r].cs /\ NewRow(r) # NoRow
    BY <1>a, <1>b, <2>1, NewRowTyped, LorawanAssumption
  <2>5. RowsOf(e)' = {req[r].id}
    BY <1>a, <1>c, <2>1, <2>3, <2>4 DEF RowsOf, Existing
  <2>6. rows'[req[r].id].cs = csDevice'[e] /\ csDevice'[e] # NoCs
    BY <1>a, <1>c, <2>1, <2>2, <2>3, <2>4 DEF Formed, Storing
  <2>7. Agree(e)'
    BY <2>5, <2>6 DEF Agree, RowsOf
  <2>8. ~Busy(r)'
    BY <1>a, <2>1, Answered DEF Closed, Over, Busy
  <2> QED  BY <2>7, <2>8 DEF Leaves
<1>8. CASE WriteRow(r)
  <2>1. req[r].stage = "write" /\ Answer(r, "done") /\ csDevice' = csDevice
    BY <1>8 DEF WriteRow, chirpstack
  <2>2. req[r].kind = "update"
    BY <1>a, <1>c, <2>1 DEF Formed, Storing
  <2>3. rows' = rows
    BY <1>8, <1>a, <1>b, <2>2 DEF WriteRow
  <2>4. ~Busy(r)'
    BY <1>a, <2>1, Answered DEF Closed, Over, Busy
  <2> QED  BY <1>d, <2>1, <2>2, <2>3, <2>4, Unmoved DEF Leaves
<1>9. ~(\/ RemoveRow(r) \/ DeleteInChirpstack(r) \/ CommitDelete(r) \/ PutApplication(r) \/ WriteApplication(r)
        \/ (\E x \in Eui : WipeDevice(r, x)) \/ DeleteAppInChirpstack(r) \/ DropApplication(r))
  BY DEF RemoveRow, DeleteInChirpstack, CommitDelete, PutApplication, WriteApplication, WipeDevice,
         DeleteAppInChirpstack, DropApplication, Storing
<1> QED  BY <1>1, <1>2, <1>3, <1>4, <1>5, <1>6, <1>7, <1>8, <1>9 DEF Works

(* A deletion removes the row and the device, or neither. *)
LEMMA RemovingStep ==
    ASSUME MetInv, OwnInv, NEW r \in Request, Works(r), Removing(req[r]), ~Aborts(r), ~AnswerLost(r),
           NEW e \in EuisOf(req[r]), Good(e), Halves(e, r)
    PROVE  Leaves(e, r)
<1> USE DEF At
<1>a. /\ TypeOK /\ Kept /\ Formed(req[r], r) /\ Busy(r) /\ e \in Eui
      /\ csDevice \in [Eui -> CsApp \cup {NoCs}] /\ rows \in [Id -> Row \cup {NoRow}]
  BY DEF MetInv, OwnInv, Forms, Good, TypeOK, Busy, Removing
<1>b. e = req[r].eui /\ req[r].id \in RowsOf(e) /\ req[r].id \in Id /\ req[r].kind = "delete"
  BY <1>a, RemovingEui DEF Formed
<1>1. CASE RemoveRow(r)
  <2>1. req[r].stage = "remove" /\ rows' = rows /\ csDevice' = csDevice
    BY <1>1 DEF RemoveRow, db, chirpstack
  <2>2. req'[r].stage = "csDelete" /\ req'[r].kind = "delete"
    BY <1>1, <1>a, <1>b, Went DEF RemoveRow, Stage, Turns, SameTask
  <2>3. Agree(e)'
    BY <2>1, <1>b, Unmoved DEF Halves, HalfDone, Wiping
  <2>4. Halves(e, r)' /\ Busy(r)'
    BY <2>2, <2>3 DEF Halves, Wiping, Busy
  <2> QED  BY <2>4 DEF Leaves
<1>2. CASE DeleteInChirpstack(r)
  <2>1. /\ req[r].stage = "csDelete" /\ rows' = rows
        /\ csDevice' = [csDevice EXCEPT ![e] = NoCs]
    BY <1>2, <1>b DEF DeleteInChirpstack, db
  <2>2. req'[r].stage = "commit" /\ req'[r].kind = "delete" /\ req'[r].id = req[r].id
    BY <1>2, <1>a, <1>b, Went DEF DeleteInChirpstack, Stage, Turns, SameTask
  <2>3. Agree(e)
    BY <2>1, <1>b DEF Halves, HalfDone, Wiping
  <2>4. RowsOf(e) = {req[r].id}
    BY <1>b, <2>3, OneRow
  <2>5. RowsOf(e)' = {req'[r].id} /\ csDevice'[e] = NoCs
    BY <1>a, <2>1, <2>2, <2>4 DEF RowsOf, Existing
  <2>6. Halves(e, r)' /\ Busy(r)'
    BY <2>2, <2>5 DEF Halves, HalfDone, Wiping, Busy
  <2> QED  BY <2>6 DEF Leaves
<1>3. CASE CommitDelete(r)
  <2>1. /\ req[r].stage = "commit" /\ Answer(r, "done") /\ csDevice' = csDevice
        /\ rows' = [rows EXCEPT ![req[r].id] = NoRow]
    BY <1>3 DEF CommitDelete, chirpstack
  <2>2. RowsOf(e) = {req[r].id} /\ csDevice[e] = NoCs
    BY <2>1 DEF Halves
  <2>3. RowsOf(e)' = {}
    BY <1>a, <1>b, <2>1, <2>2 DEF RowsOf, Existing
  <2>4. ~Busy(r)'
    BY <1>a, <2>1, Answered DEF Closed, Over, Busy
  <2>5. Agree(e)'
    BY <2>1, <2>2, <2>3 DEF Agree
  <2> QED  BY <2>4, <2>5 DEF Leaves
<1>4. RemoveRow(r) \/ DeleteInChirpstack(r) \/ CommitDelete(r)
  BY DEF Works, GetLorawanDeviceEuis, ListApplications, FindApplication, CreateApplication, FindApplicationToName,
         SaveApplicationId, CreateOrUpdateDevice, SelectRow, InsertRow, WriteRow, PutApplication, WriteApplication,
         WipeDevice, DeleteAppInChirpstack, DropApplication, Skips, Storing, Removing
<1> QED  BY <1>1, <1>2, <1>3, <1>4

(* An application is changed, and its devices stay as they are. *)
LEMMA ChangingStep ==
    ASSUME MetInv, OwnInv, NEW r \in Request, Works(r), Changing(req[r]), ~Aborts(r), ~AnswerLost(r),
           NEW e \in EuisOf(req[r]), Good(e), Halves(e, r)
    PROVE  Leaves(e, r)
<1> USE DEF At
<1>a. TypeOK /\ Joined /\ Formed(req[r], r) /\ Busy(r) /\ e \in Eui /\ e \notin contended
  BY DEF MetInv, Forms, Good, Busy, Changing
<1>b. req[r].kind = "updateApp" /\ Agree(e)
  BY <1>a DEF Formed, Halves, HalfDone, Changing, Wiping
<1>1. CASE PutApplication(r)
  <2>1. rows' = rows /\ csDevice' = csDevice
    BY <1>1 DEF PutApplication, db, chirpstack
  <2>2. req'[r].stage = "writeApp" /\ req'[r].kind = "updateApp"
    BY <1>1, <1>a, <1>b, Went DEF PutApplication, Stage, Turns, SameTask
  <2>3. Agree(e)'
    BY <2>1, <1>b, Unmoved
  <2>4. Halves(e, r)' /\ Busy(r)'
    BY <2>2, <2>3 DEF Halves, Wiping, Busy
  <2> QED  BY <2>4 DEF Leaves
<1>2. CASE WriteApplication(r)
  <2>1. rows' = AfterAppSave(r) /\ csDevice' = csDevice /\ Answer(r, "done")
    BY <1>2 DEF WriteApplication, chirpstack
  <2>2. \A i \in Id : rows'[i] = rows[i] \/ Touched(i)
    BY <1>a, <2>1, AppSaved
  <2>3. \A i \in Id : /\ i \in RowsOf(e) <=> i \in RowsOf(e)'
                      /\ i \in RowsOf(e) => rows'[i].cs = rows[i].cs
    BY <1>a, <2>2 DEF RowsOf, Existing, Touched
  <2>4. RowsSame(e)
    BY <2>3 DEF RowsSame, RowsOf, Existing
  <2>5. Agree(e)'
    BY <1>b, <2>1, <2>4, AgreeStays
  <2>6. ~Busy(r)'
    BY <1>a, <2>1, Answered DEF Closed, Over, Busy
  <2> QED  BY <2>5, <2>6 DEF Leaves
<1>3. PutApplication(r) \/ WriteApplication(r)
  BY DEF Works, GetLorawanDeviceEuis, ListApplications, FindApplication, CreateApplication, FindApplicationToName,
         SaveApplicationId, CreateOrUpdateDevice, SelectRow, InsertRow, WriteRow, RemoveRow, DeleteInChirpstack,
         CommitDelete, WipeDevice, DeleteAppInChirpstack, DropApplication, Skips, Storing, Changing
<1> QED  BY <1>1, <1>2, <1>3

(* An application is deleted with all its devices, in both stores. *)
LEMMA WipingStep ==
    ASSUME MetInv, OwnInv, NEW r \in Request, Works(r), Wiping(req[r]), ~Aborts(r), ~AnswerLost(r),
           NEW e \in EuisOf(req[r]), Good(e), Halves(e, r)
    PROVE  Leaves(e, r)
<1> USE DEF At
<1>a. /\ TypeOK /\ Formed(req[r], r) /\ Busy(r) /\ e \in Eui /\ e \notin contended
      /\ csDevice \in [Eui -> CsApp \cup {NoCs}]
  BY DEF MetInv, Forms, Good, TypeOK, Busy, Wiping
<1>b. PICK j \in req[r].devices : j \in RowsOf(e) /\ rows[j].app = req[r].app
  BY <1>a, OnAppEui
<1>c. req[r].kind = "deleteApp" /\ (e \in req[r].todo => Agree(e))
  BY <1>a DEF Formed, Halves, HalfDone, Wiping
<1>d. e \notin req[r].todo => csDevice[e] = NoCs /\ RowsOf(e) = {j}
  BY <1>b DEF Halves
<1>1. CASE \E x \in Eui : WipeDevice(r, x)
  <2>1. PICK x \in Eui : WipeDevice(r, x)
    BY <1>1
  <2>2. /\ req[r].stage = "wipe" /\ rows' = rows /\ x \in req[r].todo
        /\ csDevice' = [csDevice EXCEPT ![x] = NoCs] /\ req' = [req EXCEPT ![r].todo = @ \ {x}]
    BY <2>1 DEF WipeDevice, db
  <2>3. /\ req'[r].stage = "wipe" /\ req'[r].kind = "deleteApp" /\ req'[r].devices = req[r].devices
        /\ req'[r].todo = req[r].todo \ {x}
    BY <1>a, <1>c, <2>2, Wiped DEF Turns, SameTask
  <2>4. Wiping(req'[r]) /\ Busy(r)'
    BY <2>3 DEF Wiping, Busy
  <2>5. RowsOf(e)' = RowsOf(e)
    BY <2>2 DEF RowsOf, Existing
  <2>6. CASE e \in req'[r].todo
    <3>1. csDevice'[e] = csDevice[e]
      BY <1>a, <2>2, <2>3, <2>6
    <3>2. RowsSame(e)
      BY <2>2, <2>5 DEF RowsSame
    <3>3. Agree(e)'
      BY <1>c, <2>3, <2>6, <3>1, <3>2, AgreeStays
    <3> QED  BY <2>3, <2>4, <2>6, <3>3 DEF Leaves, Halves
  <2>7. CASE e \notin req'[r].todo
    <3>1. RowsOf(e) = {j}
      BY <1>b, <1>c, <1>d, OneRow
    <3>2. csDevice'[e] = NoCs
      BY <1>a, <1>d, <2>2, <2>3, <2>7
    <3>3. HalfDone(req'[r], e)
      BY <2>4, <2>7 DEF HalfDone
    <3>4. \E i \in req'[r].devices : RowsOf(e)' = {i}
      BY <2>3, <2>5, <3>1
    <3> QED  BY <2>3, <2>4, <3>2, <3>3, <3>4 DEF Leaves, Halves
  <2> QED  BY <2>6, <2>7
<1>2. CASE DeleteAppInChirpstack(r)
  <2>1. /\ req[r].stage = "wipe" /\ req[r].todo = {} /\ rows' = rows
        /\ csDevice' = [x \in Eui |-> IF csDevice[x] = req[r].appCs THEN NoCs ELSE csDevice[x]]
    BY <1>2 DEF DeleteAppInChirpstack, db
  <2>2. /\ req'[r].stage = "drop" /\ req'[r].kind = "deleteApp" /\ req'[r].devices = req[r].devices
        /\ req'[r].todo = {}
    BY <1>2, <1>a, <1>c, <2>1, Went DEF DeleteAppInChirpstack, Stage, Turns, SameTask
  <2>3. RowsOf(e)' = {j} /\ csDevice'[e] = NoCs
    BY <1>a, <1>d, <2>1 DEF RowsOf, Existing
  <2>4. Wiping(req'[r]) /\ Busy(r)' /\ HalfDone(req'[r], e)
    BY <2>2 DEF Wiping, Busy, HalfDone
  <2>5. \E i \in req'[r].devices : RowsOf(e)' = {i}
    BY <2>2, <2>3
  <2> QED  BY <2>2, <2>3, <2>4, <2>5 DEF Leaves, Halves
<1>3. CASE DropApplication(r)
  <2>1. /\ req[r].stage = "drop" /\ csDevice' = csDevice /\ Answer(r, "done")
        /\ rows' = [i \in Id |-> IF i \in DevicesOf(req[r].app) THEN NoRow ELSE rows[i]]
    BY <1>3 DEF DropApplication, chirpstack
  <2>2. RowsOf(e) = {j} /\ csDevice'[e] = NoCs
    BY <1>a, <1>d, <2>1 DEF Formed
  <2>3. j \in DevicesOf(req[r].app)
    BY <1>b DEF RowsOf, DevicesOf
  <2>4. RowsOf(e)' = {}
    BY <2>1, <2>2, <2>3 DEF RowsOf, Existing
  <2>5. ~Busy(r)'
    BY <1>a, <2>1, Answered DEF Closed, Over, Busy
  <2>6. Agree(e)'
    BY <2>2, <2>4 DEF Agree
  <2> QED  BY <2>5, <2>6 DEF Leaves
<1>4. (\E x \in Eui : WipeDevice(r, x)) \/ DeleteAppInChirpstack(r) \/ DropApplication(r)
  BY DEF Works, GetLorawanDeviceEuis, ListApplications, FindApplication, CreateApplication, FindApplicationToName,
         SaveApplicationId, CreateOrUpdateDevice, SelectRow, InsertRow, WriteRow, RemoveRow, DeleteInChirpstack,
         CommitDelete, PutApplication, WriteApplication, Skips, Storing, Wiping
<1> QED  BY <1>1, <1>2, <1>3, <1>4

(* A request that is refused or whose answer is lost half way leaves a     *)
(* device that was hurt; otherwise the stores agree.                       *)
LEMMA StoppedStep ==
    ASSUME MetInv, OwnInv, NEW r \in Request, Aborts(r) \/ AnswerLost(r),
           NEW e \in EuisOf(req[r]), Good(e), Good(e)', Halves(e, r)
    PROVE  Leaves(e, r)
<1>a. TypeOK /\ Kept
  BY DEF MetInv, OwnInv
<1>1. CASE Aborts(r)
  <2>1. /\ Busy(r) /\ Answer(r, "failed") /\ hurt' = hurt \cup Halfway(r)
        /\ rows' = rows /\ csDevice' = csDevice
    BY <1>1 DEF Aborts, Abort, db, chirpstack
  <2>2. Agree(e)
    BY <1>a, <2>1, NotHalfway DEF Good
  <2>3. ~Busy(r)'
    BY <1>a, <2>1, Answered DEF Closed, Over, Busy
  <2> QED  BY <2>1, <2>2, <2>3, Unmoved DEF Leaves
<1>2. CASE AnswerLost(r)
  <2>1. (Storing(req[r]) \/ Removing(req[r])) /\ req[r].eui \in hurt'
    BY <1>2 DEF AnswerLost, At, Storing, Removing
  <2>2. e = req[r].eui
    BY <1>a, <2>1, StoringEui, RemovingEui
  <2> QED  BY <2>1, <2>2 DEF Good
<1> QED  BY <1>1, <1>2

LEMMA StoreWorks ==
    ASSUME MetInv, OwnInv, Stores, InStep, NEW r \in Request, Works(r)
    PROVE  (Stores /\ InStep)'
<1>a. TypeOK /\ Forms /\ Met /\ Kept
  BY DEF MetInv, OwnInv
<1>b. Onward /\ Proceeds(r) /\ contended' = contended /\ moved \subseteq moved' /\ hurt \subseteq hurt'
  BY <1>a, WorksOnward, WorksProceed, WorksTyped
<1>c. Busy(r) /\ Others(r)
  BY <1>b DEF Proceeds
<1>d. \A e : Good(e)' => Good(e) /\ e \in Eui \ contended
  BY <1>b DEF Good
<1>1. ASSUME NEW e, Good(e)', e \notin EuisOf(req[r])
      PROVE  /\ RowsSame(e) /\ csDevice'[e] = csDevice[e]
             /\ \A p \in Request : Busy(p)' /\ e \in EuisOf(req[p])' => req'[p] = req[p] /\ Busy(p) /\ e \in EuisOf(req[p])
             /\ Idle(e)' => Idle(e)
  <2>1. Good(e) /\ e \in Eui \ contended
    BY <1>d, <1>1
  <2>2. csDevice'[e] = csDevice[e]
    BY <1>1, <2>1, DeviceUntouched
  <2>3. \A p \in Request : Busy(p) /\ Closed(req'[p], req[p]) => e \notin EuisOf(req[p])
    BY <1>1, <1>c DEF Others, Closed, Over, Busy
  <2>4. RowsSame(e)
    BY <1>a, <1>b, <2>1, <2>3, RowsUntouched
  <2>5. \A p \in Request : Busy(p)' => (e \in EuisOf(req[p])' <=> e \in EuisOf(req[p]))
    BY <1>a, <1>b, <2>1, EuisStay
  <2>6. \A p \in Request \ {r} : req'[p] = req[p] /\ (Busy(p)' <=> Busy(p))
    BY <1>c DEF Others, Busy
  <2>7. Idle(e)' => Idle(e)
    BY <1>1, <2>5, <2>6 DEF Idle
  <2> QED  BY <1>1, <2>2, <2>4, <2>5, <2>6, <2>7
<1>2. ASSUME NEW e, Good(e)', e \in EuisOf(req[r])
      PROVE  /\ Leaves(e, r)
             /\ \A p \in Request : Busy(p)' /\ e \in EuisOf(req[p])' => p = r
             /\ Busy(r)' => ~Idle(e)'
  <2>1. Good(e) /\ e \in Eui \ contended
    BY <1>d, <1>2
  <2>2. Halves(e, r)
    BY <1>2, <1>c, <2>1 DEF Stores
  <2>3. Leaves(e, r)
    <3>1. CASE Aborts(r) \/ AnswerLost(r)
      BY <1>2, <2>1, <2>2, <3>1, StoppedStep
    <3>2. CASE ~Aborts(r) /\ ~AnswerLost(r)
      <4>1. Storing(req[r]) \/ Removing(req[r]) \/ Changing(req[r]) \/ Wiping(req[r])
        BY <1>a, <1>c, BusyStages
      <4> QED  BY <1>2, <2>1, <2>2, <3>2, <4>1, StoringStep, RemovingStep, ChangingStep, WipingStep
    <3> QED  BY <3>1, <3>2
  <2>4. \A p \in Request : Busy(p)' => (e \in EuisOf(req[p])' <=> e \in EuisOf(req[p]))
    BY <1>a, <1>b, <2>1, EuisStay
  <2>5. \A p \in Request : Busy(p)' /\ e \in EuisOf(req[p])' => p = r
    <3>1. ASSUME NEW p \in Request, p # r, Busy(p)', e \in EuisOf(req[p])  PROVE FALSE
      BY <1>2, <1>b, <1>c, <2>1, <3>1, StillBusy, OnlyOne
    <3> QED  BY <2>4, <3>1
  <2>6. Busy(r)' => ~Idle(e)'
    BY <1>2, <2>4 DEF Idle
  <2> QED  BY <2>3, <2>5, <2>6
<1>3. Stores'
  <2> SUFFICES ASSUME NEW e \in Eui, NEW p \in Request, Good(e)', Busy(p)', e \in EuisOf(req[p])'
               PROVE  Halves(e, p)'
    BY DEF Stores
  <2>1. CASE e \in EuisOf(req[r])
    <3>1. p = r
      BY <1>2, <2>1
    <3> QED  BY <1>2, <2>1, <3>1 DEF Leaves
  <2>2. CASE e \notin EuisOf(req[r])
    <3>1. /\ RowsSame(e) /\ csDevice'[e] = csDevice[e]
          /\ req'[p] = req[p] /\ Busy(p) /\ e \in EuisOf(req[p])
      BY <1>1, <2>2
    <3>2. Halves(e, p)
      BY <1>d, <3>1 DEF Stores
    <3> QED  BY <3>1, <3>2, HalvesStay
  <2> QED  BY <2>1, <2>2
<1>4. InStep'
  <2> SUFFICES ASSUME NEW e, Good(e)', Idle(e)'
               PROVE  Agree(e)'
    BY DEF InStep, Good
  <2>1. CASE e \in EuisOf(req[r])
    BY <1>2, <2>1 DEF Leaves
  <2>2. CASE e \notin EuisOf(req[r])
    <3>1. RowsSame(e) /\ csDevice'[e] = csDevice[e] /\ Idle(e)
      BY <1>1, <2>2
    <3>2. Agree(e)
      BY <1>d, <3>1 DEF InStep, Good
    <3> QED  BY <3>1, <3>2, AgreeStays
  <2> QED  BY <2>1, <2>2
<1> QED  BY <1>3, <1>4

LEMMA StoreBegins ==
    ASSUME MetInv, Stores, InStep, NEW r \in Request, NEW q, Begins(r, q)
    PROVE  (Stores /\ InStep)'
<1>a. TypeOK /\ Fresh(r, q) /\ Formed(q, r)
  BY DEF MetInv, Begins, Fresh
<1>b. /\ ~Busy(r) /\ req'[r] = q /\ Others(r) /\ rows' = rows /\ csDevice' = csDevice /\ hurt' = hurt
      /\ contended \subseteq contended' /\ moved \subseteq moved' /\ Existing' = Existing
      /\ \A p \in Request : Busy(p) /\ Clash(req[p], q) => EuisOf(q) \cup EuisOf(req[p]) \subseteq contended'
  BY <1>a, Beginning DEF Existing, Begins
<1>c. /\ \A p \in Request \ {r} : req'[p] = req[p] /\ (Busy(p)' <=> Busy(p)) /\ EuisOf(req[p])' = EuisOf(req[p])
      /\ EuisOf(req[r])' = EuisOf(q)
  BY <1>b DEF Others, Busy, EuisOf, Existing
<1>d. \A e : Good(e)' => Good(e) /\ e \in Eui /\ e \notin contended'
  BY <1>b DEF Good
<1>e. \A e : RowsSame(e) /\ RowsOf(e)' = RowsOf(e) /\ csDevice'[e] = csDevice[e]
  BY <1>b DEF RowsSame, RowsOf, Existing
<1>1. Stores'
  <2> SUFFICES ASSUME NEW e \in Eui, NEW p \in Request, Good(e)', Busy(p)', e \in EuisOf(req[p])'
               PROVE  Halves(e, p)'
    BY DEF Stores
  <2>1. CASE p # r
    <3>1. Halves(e, p) /\ req'[p] = req[p]
      BY <1>c, <1>d, <2>1 DEF Stores
    <3> QED  BY <1>e, <3>1, HalvesStay
  <2>2. CASE p = r
    <3>1. e \in EuisOf(q)
      BY <1>c, <2>2
    <3>2. Idle(e)
      BY <1>b, <1>d, <3>1 DEF Idle, Clash
    <3>3. Agree(e)
      BY <1>d, <3>2 DEF InStep, Good
    <3>4. Agree(e)'
      BY <1>e, <3>3, AgreeStays
    <3>5. Wiping(q) => e \in q.todo
      <4> SUFFICES ASSUME Wiping(q)  PROVE e \in q.todo
        OBVIOUS
      <4>1. q.id = NoRow /\ q.eui = NoRow
        BY <1>a DEF Formed
      <4>2. q.devices = DevicesOf(q.app) /\ q.todo = {rows[i].eui : i \in DevicesOf(q.app)}
        BY <1>a DEF Fresh, Storing, Wiping
      <4> QED  BY <3>1, <4>1, <4>2, LorawanAssumption DEF EuisOf, Existing
    <3>6. q.stage \in {"euis", "remove", "putApp", "wipe"}
      BY <1>a DEF Fresh
    <3>7. Halves(e, r)'
      BY <1>b, <3>4, <3>5, <3>6 DEF Halves, HalfDone
    <3> QED  BY <2>2, <3>7
  <2> QED  BY <2>1, <2>2
<1>2. InStep'
  <2> SUFFICES ASSUME NEW e, Good(e)', Idle(e)'
               PROVE  Agree(e)'
    BY DEF InStep, Good
  <2>1. Idle(e)
    BY <1>b, <1>c DEF Idle
  <2>2. Agree(e)
    BY <1>d, <2>1 DEF InStep, Good
  <2> QED  BY <1>e, <2>2, AgreeStays
<1> QED  BY <1>1, <1>2

(* The process dies: whoever was half way leaves what it worked on hurt.   *)
LEMMA StoreCrash ==
    ASSUME MetInv, OwnInv, Stores, InStep, Crash
    PROVE  (Stores /\ InStep)'
<1>a. TypeOK /\ Forms /\ Kept
  BY DEF MetInv, OwnInv
<1>1. \A r \in Request : ~Busy(r)'
  BY <1>a, CrashOnward
<1>2. /\ rows' = rows /\ csDevice' = csDevice /\ contended' = contended /\ moved' = moved
      /\ hurt' = hurt \cup UNION {Halfway(r) : r \in Request}
  BY DEF Crash, db, chirpstack
<1>3. ASSUME NEW e, Good(e)'  PROVE Agree(e)'
  <2>1. Good(e) /\ e \in Eui /\ \A r \in Request : e \notin Halfway(r)
    BY <1>2, <1>3 DEF Good
  <2>2. CASE Idle(e)
    BY <1>2, <2>1, <2>2, Unmoved DEF InStep, Good
  <2>3. CASE ~Idle(e)
    <3>1. PICK r \in Request : Busy(r) /\ e \in EuisOf(req[r])
      BY <2>3 DEF Idle
    <3>2. Halves(e, r)
      BY <2>1, <3>1 DEF Stores
    <3>3. Agree(e)
      BY <1>a, <2>1, <3>1, <3>2, NotHalfway
    <3> QED  BY <1>2, <3>3, Unmoved
  <2> QED  BY <2>2, <2>3
<1>4. InStep'
  BY <1>3 DEF InStep, Good
<1> QED  BY <1>1, <1>4 DEF Stores

LEMMA StoreInit ==
    Init => Stores /\ InStep
<1> SUFFICES ASSUME Init  PROVE Stores /\ InStep
  OBVIOUS
<1>1. \A r \in Request : ~Busy(r)
  BY DEF Init, Busy, Nothing
<1>2. ASSUME NEW e \in Eui  PROVE Agree(e)
  <2>1. \A i : i \in RowsOf(e) <=> i \in Old /\ InitialRow[i].eui = e
    BY LorawanAssumption DEF Init, RowsOf, Existing, Id
  <2>2. CASE \E i \in Old : InitialRow[i].eui = e
    <3>1. PICK i \in Old : InitialRow[i].eui = e
      BY <2>2
    <3>2. \A j \in Old : InitialRow[j].eui = e => j = i
      BY <3>1, LorawanAssumption
    <3>3. RowsOf(e) = {i}
      BY <2>1, <3>1, <3>2
    <3>4. csDevice[e] = InitialRow[i].cs
      <4>1. (CHOOSE j \in Old : InitialRow[j].eui = e) = i
        BY <3>1, <3>2
      <4> QED  BY <2>2, <4>1 DEF Init
    <3>5. i \in Existing /\ rows[i].cs = csDevice[e]
      BY <3>1, <3>3, <3>4 DEF RowsOf, Init, Id
    <3>6. InitialRow[i].cs # NoCs
      BY <3>1, LorawanAssumption DEF Row
    <3> QED  BY <3>3, <3>4, <3>5, <3>6 DEF Agree
  <2>3. CASE ~\E i \in Old : InitialRow[i].eui = e
    <3>1. csDevice[e] = NoCs
      BY <2>3 DEF Init
    <3>2. RowsOf(e) = {}
      BY <2>1, <2>3
    <3> QED  BY <3>1, <3>2 DEF Agree
  <2> QED  BY <2>2, <2>3
<1> QED  BY <1>1, <1>2 DEF Stores, InStep

(* The database and ChirpStack agree on every device that no request works *)
(* on, whatever fails and whenever the process dies, but for the devices   *)
(* two requests worked on at once, an update moved, or a request failed on *)
(* between the two stores: whatever is checked before, nothing a request   *)
(* does (IoTDeviceService, ApplicationService) reaches another device.     *)
THEOREM AlwaysInStep ==
    Spec => []InStep
<1>1. Init => Stores /\ InStep
  BY StoreInit
<1>2. MetInv /\ OwnInv /\ Stores /\ InStep /\ [Next]_vars => (Stores /\ InStep)'
  <2> SUFFICES ASSUME MetInv, OwnInv, Stores, InStep, [Next]_vars  PROVE (Stores /\ InStep)'
    OBVIOUS
  <2>1. CASE Next
    BY <2>1, NextIs, StoreWorks, StoreBegins, StoreCrash DEF MetInv
  <2>2. CASE UNCHANGED vars
    BY <2>2 DEF Stores, InStep, Halves, HalfDone, Good, Idle, Busy, EuisOf, Agree, RowsOf, Existing,
                vars, db, chirpstack, history
  <2> QED  BY <2>1, <2>2
<1> QED  BY <1>1, <1>2, AlwaysMet, AlwaysOwned, PTL DEF Spec
=============================================================================
